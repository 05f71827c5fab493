------------------------ MODULE SubmissionIntakeProofs ------------------------
(***************************************************************************)
(* Theorems about SubmissionIntake for any forms, approvals and contents:  *)
(* the account belongs to the approvals, what is submitted is what was     *)
(* reviewed, and the approval is created from what DingTalk showed.  At    *)
(* the end, about SubsidyClaims: what the subsidies of its content join.   *)
(***************************************************************************)
EXTENDS SubmissionIntake, SubsidyClaims, FiniteSetTheorems, WellFoundedInduction, TLAPS

-----------------------------------------------------------------------------
(* The inductive invariant *)

\* The records have their fields, whatever the values.
Shapes ==
  /\ live = [form |-> live.form, facts |-> live.facts, edits |-> live.edits]
  /\ catalog = [version |-> catalog.version, form |-> catalog.form, ok |-> catalog.ok]
  /\ draft = [status |-> draft.status, revision |-> draft.revision, version |-> draft.version,
              content |-> draft.content, related |-> draft.related, account |-> draft.account,
              verified |-> draft.verified]
  /\ select.at # "idle" =>
       select = [at |-> select.at, pick |-> select.pick, rows |-> select.rows,
                 revision |-> select.revision, version |-> select.version, form |-> select.form]
  /\ job.at # "idle" =>
       job = [at |-> job.at, source |-> job.source, shown |-> job.shown, forms |-> job.forms,
              facts |-> job.facts, seen |-> job.seen, left |-> job.left, found |-> job.found]

Ids == Nat \ {Untitled}

\* Linked approvals, one after another.
Rows(rows) ==
  /\ rows \in Seq({rows[i] : i \in DOMAIN rows})
  /\ \A i \in DOMAIN rows : rows[i].id \in Ids

\* Only a draft that is locked has used its last revision.
DraftInv ==
  /\ Rows(draft.related)
  /\ draft.status # "LOCKED" => draft.revision <= MaxRevision

\* What a save has read is what the draft holds, as long as the revision is the same.
UpdateInv ==
  /\ update.at \in {"idle", "read"}
  /\ update.at = "read" =>
       /\ update.revision \in 0..draft.revision /\ update.revision < MaxRevision
       /\ update.content \in Savable
       /\ update.revision = draft.revision =>
            update.account = draft.account /\ update.verified = draft.verified

\* The one account of an approval among the options of an edition.
StandsFor(form, id, account) ==
  \E f \in DOMAIN Facts : {o.value : o \in Resolved(form, Facts[f][id].text)} = {account}

\* The rows were read under one version and one edition, and agree on the account.
SelectInv ==
  /\ select.at \in {"idle", "check", "store"}
  /\ select.at # "idle" =>
       /\ select.revision \in 0..draft.revision /\ select.revision < MaxRevision
       /\ select.form \in DOMAIN Forms
       /\ select.pick \in Seq(Ids)
       /\ select.at = "check" => Len(select.rows) < Len(select.pick)
       /\ Rows(select.rows)
       /\ \A i \in DOMAIN select.rows :
            /\ select.rows[i].version = select.version
            /\ select.rows[i].account = select.rows[1].account
            /\ StandsFor(select.form, select.rows[i].id, select.rows[i].account)

SameContent(d, s) ==
  <<d.content, d.related, d.account, d.version>> = <<s.content, s.related, s.account, s.version>>

\* The approvals a snapshot is built of.
Linkable(related) ==
  /\ Rows(related) /\ related # <<>>
  /\ \A i, j \in DOMAIN related : i # j => related[i].id # related[j].id

\* What the page showed is the draft, as long as the revision is the same; only what was
\* reviewed then is about to be locked.
SubmitInv ==
  /\ submit.at \in {"idle", "look", "adopt", "collect", "lock"}
  /\ submit.at # "idle" =>
       /\ submit.revision \in 0..draft.revision
       /\ submit.shown.revision = submit.revision
       /\ submit.revision = draft.revision => draft = submit.shown
  /\ submit.at = "adopt" => submit.seen \in DOMAIN Forms
  /\ submit.at = "lock" =>
       /\ submit.shown.status = "REVIEW_READY" /\ SameContent(submit.shown, submit.source)
       /\ submit.source.revision = submit.revision /\ Linkable(submit.source.related)

\* The submission keeps what it was made of.
SourceInv == SubmittedAsReviewed /\ (job.at # "idle" => Linkable(job.source.related))

\* What an approval showed at some moment agrees with its row.
Agreed(r, f) ==
  /\ f.state = "agree" /\ f.start = r.start /\ f.end = r.end /\ f.own = r.own
  /\ f.department = r.department

Checked(id) ==
  \E facts \in job.facts :
    /\ Agreed(RowOf(id), Facts[facts][id])
    /\ {o.value : o \in Resolved(job.seen, Facts[facts][id].text)} = {job.source.account}

\* The validation has seen the forms and the approvals as they are, and the options it uses;
\* each approval has been checked or is left.
ChecksInv ==
  /\ job.at # "idle" => job.forms \subseteq DOMAIN Forms
  /\ Validating => live.form \in job.forms /\ live.facts \in job.facts
  /\ job.at \in {"travel", "listed", "details", "valid", "created", "submitted", "refused"} =>
       job.seen \in job.forms
  /\ job.at = "details" =>
       job.left \subseteq Linked /\ \A id \in Linked \ job.left : Checked(id)
  /\ job.at \in {"valid", "created", "submitted", "refused"} => \A id \in Linked : Checked(id)

IInv ==
  /\ Inv /\ Shapes /\ DraftInv
  /\ UpdateInv /\ SelectInv /\ SubmitInv
  /\ SourceInv /\ ChecksInv /\ FoundIsOurs

-----------------------------------------------------------------------------
(* Options and rows *)

\* A text that stands for one option.
LEMMA OneOption ==
  ASSUME NEW form \in DOMAIN Forms, NEW text, Cardinality(Resolved(form, text)) = 1
  PROVE  \E o : Resolved(form, text) = {o}
  <1>1. Resolved(form, text) \in SUBSET Forms[form].accounts
    BY DEF Resolved
  <1>2. IsFiniteSet(Resolved(form, text))
    BY <1>1, OptionsAssumption, FS_Subset
  <1> QED
    BY <1>2, FS_Singleton

LEMMA NoRows == Rows(<<>>)
  BY DEF Rows

\* Appending keeps the rows there are.
LEMMA RowsAppend ==
  ASSUME NEW rows, Rows(rows), NEW r, r.id \in Ids
  PROVE  /\ Rows(Append(rows, r)) /\ Append(rows, r) # <<>>
         /\ Len(Append(rows, r)) = Len(rows) + 1
         /\ DOMAIN Append(rows, r) = 1..(Len(rows) + 1) /\ DOMAIN rows = 1..Len(rows)
         /\ Append(rows, r)[Len(rows) + 1] = r
         /\ \A i \in DOMAIN rows : Append(rows, r)[i] = rows[i]
  <1> DEFINE S == {rows[i] : i \in DOMAIN rows} \cup {r}
             new == Append(rows, r)
  <1>1. rows \in Seq(S)
    BY DEF Rows
  <1>2. /\ new \in Seq(S) /\ Len(new) = Len(rows) + 1
        /\ DOMAIN new = 1..(Len(rows) + 1) /\ DOMAIN rows = 1..Len(rows)
        /\ new[Len(rows) + 1] = r /\ \A i \in 1..Len(rows) : new[i] = rows[i]
        /\ Len(rows) \in Nat
    BY <1>1
  <1>3. new \in Seq({new[i] : i \in DOMAIN new})
    BY <1>2
  <1>4. \A i \in DOMAIN new : new[i].id \in Ids
    BY <1>2 DEF Rows
  <1>5. new # <<>>
    BY <1>2
  <1> QED
    BY <1>2, <1>3, <1>4, <1>5 DEF Rows

\* Whose rows differ in their ids is found by its id.
LEMMA RowFound ==
  ASSUME job.at # "idle", Linkable(job.source.related), NEW r \in ToSet(job.source.related)
  PROVE  r.id \in Linked /\ RowOf(r.id) = r
  <1>1. PICK i \in DOMAIN job.source.related : r = job.source.related[i]
    BY DEF ToSet
  <1>2. r.id \in Linked
    BY <1>1 DEF Linked
  <1>3. \A q \in ToSet(job.source.related) : q.id = r.id => q = r
    BY <1>1 DEF ToSet, Linkable
  <1>4. RowOf(r.id) = r
    BY <1>3 DEF RowOf
  <1> QED
    BY <1>2, <1>4

-----------------------------------------------------------------------------
(* The initial states *)

LEMMA InitIInv == Init => IInv
  <1> SUFFICES ASSUME Init PROVE IInv
    OBVIOUS
  <1>0. job.at = "idle" /\ update.at = "idle" /\ select.at = "idle" /\ submit.at = "idle"
    BY DEF Init, Undone
  <1>1. TypeOK
    BY <1>0, EditionsAssumption, LimitsAssumption DEF Init, TypeOK
  <1>2. AccountBelongsToTheApprovals
    BY DEF Init, AccountBelongsToTheApprovals, Account
  <1>3. Shapes
    BY <1>0 DEF Init, Shapes
  <1>4. DraftInv
    BY NoRows, LimitsAssumption DEF Init, DraftInv
  <1> QED
    BY <1>0, <1>1, <1>2, <1>3, <1>4
    DEF IInv, Inv, UpdateInv, SelectInv, SubmitInv, SourceInv, ChecksInv, FoundIsOurs,
        SubmittedAsReviewed, Validating

-----------------------------------------------------------------------------
(* What a step does to the draft *)

\* The requests for a draft that is left behind go with it.
Replaced == update' = Undone /\ select' = Undone /\ submit' = Undone

\* A draft changes with its revision, or is replaced by a new one.
LEMMA DraftMoves ==
  ASSUME IInv, Next
  PROVE  draft' = draft \/ draft'.revision = draft.revision + 1 \/ Replaced
  <1> DEFINE Goal == draft' = draft \/ draft'.revision = draft.revision + 1 \/ Replaced
  <1>0. Shapes /\ TypeOK
    BY DEF IInv, Inv
  <1>1. ASSUME NEW k, Create(k) PROVE Goal
    BY <1>1 DEF Create, Replaced
  <1>2. CASE WriteUpdate
    <2>1. DOMAIN draft = {"status", "revision", "version", "content", "related", "account", "verified"}
      BY <1>0 DEF Shapes
    <2> QED
      BY <1>2, <2>1 DEF WriteUpdate, Changed
  <1>3. CASE StoreSelect
    BY <1>0, <1>3 DEF StoreSelect, Changed, Shapes
  <1>4. CASE Review
    BY <1>0, <1>4 DEF Review, Shapes
  <1>5. CASE Lock
    BY <1>0, <1>5 DEF Lock, Shapes
  <1>6. CASE UNCHANGED draft
    BY <1>6
  <1> QED
    BY <1>1, <1>2, <1>3, <1>4, <1>5, <1>6
    DEF Next, EditForm, ChangeFacts, Refresh, Confirm, ReadUpdate, StartSelect, CheckPick, BeginSubmit,
        Look, Adopt, Collect, Validate, CheckForm, CheckTravelForm, CheckMembership, CheckApproval,
        Retry, CreateApproval, ReadBack

\* DingTalk, the catalog and the requests change on their own.
LEMMA WorldStep ==
  ASSUME IInv, Next
  PROVE  /\ live'.form \in DOMAIN Forms /\ live'.facts \in DOMAIN Facts /\ live'.edits \in 0..MaxEdits
         /\ live' = [form |-> live'.form, facts |-> live'.facts, edits |-> live'.edits]
         /\ catalog'.version \in catalog.version..MaxVersion /\ catalog'.version \in 1..MaxVersion
         /\ catalog'.form \in DOMAIN Forms /\ catalog'.ok \in BOOLEAN
         /\ catalog' = [version |-> catalog'.version, form |-> catalog'.form, ok |-> catalog'.ok]
  <1>0. Shapes /\ TypeOK /\ (submit.at = "adopt" => submit.seen \in DOMAIN Forms)
    BY DEF IInv, Inv, SubmitInv
  <1>00. MaxEdits \in Nat /\ MaxVersion \in Nat \ {0}
    BY LimitsAssumption
  <1>1. ASSUME NEW form \in DOMAIN Forms, EditForm(form)
        PROVE  /\ live' = [form |-> form, facts |-> live.facts, edits |-> live.edits + 1]
               /\ live.edits < MaxEdits /\ catalog' = catalog
    BY <1>0, <1>1 DEF EditForm, Shapes
  <1>2. ASSUME NEW facts \in DOMAIN Facts, ChangeFacts(facts)
        PROVE  /\ live' = [form |-> live.form, facts |-> facts, edits |-> live.edits + 1]
               /\ live.edits < MaxEdits /\ catalog' = catalog
    BY <1>0, <1>2 DEF ChangeFacts, Shapes
  <1>3. ASSUME live.edits < MaxEdits
        PROVE  live.edits + 1 \in 0..MaxEdits
    BY <1>0, <1>00, <1>3 DEF TypeOK
  <1>4. ASSUME NEW form \in DOMAIN Forms
        PROVE  LET row == Follow(catalog, form) IN
               /\ row = [version |-> catalog.version, form |-> row.form, ok |-> row.ok]
               /\ row.version = catalog.version /\ row.form \in DOMAIN Forms /\ row.ok \in BOOLEAN
    BY <1>0 DEF Follow, Shapes, TypeOK
  <1>5. CASE Refresh
    BY <1>0, <1>00, <1>4, <1>5 DEF Refresh, TypeOK, Shapes
  <1>6. CASE Confirm
    BY <1>0, <1>00, <1>6 DEF Confirm, TypeOK, Shapes
  <1>7. CASE Adopt
    <2>1. CASE catalog' = catalog /\ live' = live
      BY <1>0, <1>00, <2>1 DEF TypeOK, Shapes
    <2>2. CASE catalog' = Follow(catalog, submit.seen) /\ submit.at = "adopt" /\ live' = live
      BY <1>0, <1>00, <1>4, <2>2 DEF TypeOK, Shapes
    <2> QED
      BY <1>7, <2>1, <2>2 DEF Adopt
  <1>8. CASE UNCHANGED <<live, catalog>>
    BY <1>0, <1>00, <1>8 DEF TypeOK, Shapes
  <1>9. CASE \E form \in DOMAIN Forms : EditForm(form)
    BY <1>0, <1>00, <1>1, <1>3, <1>9 DEF TypeOK, Shapes
  <1>10. CASE \E facts \in DOMAIN Facts : ChangeFacts(facts)
    BY <1>0, <1>00, <1>2, <1>3, <1>10 DEF TypeOK, Shapes
  <1> QED
    BY <1>5, <1>6, <1>7, <1>8, <1>9, <1>10
    DEF Next, Create, ReadUpdate, WriteUpdate, StartSelect, CheckPick, StoreSelect, Review, BeginSubmit,
        Look, Collect, Lock, Validate, CheckForm, CheckTravelForm, CheckMembership, CheckApproval,
        Retry, CreateApproval, ReadBack

-----------------------------------------------------------------------------
(* The draft stays sound *)

\* All that the invariant says of a draft alone, in a catalog of some version.
GoodDraft(d, version) ==
  /\ d = [status |-> d.status, revision |-> d.revision, version |-> d.version,
          content |-> d.content, related |-> d.related, account |-> d.account,
          verified |-> d.verified]
  /\ d.status \in {"none", "DRAFT", "REVIEW_READY", "LOCKED"}
  /\ d.revision \in 0..(MaxRevision + 1) /\ (d.status # "LOCKED" => d.revision <= MaxRevision)
  /\ d.version \in 0..version /\ d.content \in DOMAIN Contents /\ d.verified \in BOOLEAN
  /\ d.status # "none" => Sources(Applied[d.content]) \subseteq Active(Contents[d.content].files)
  /\ Rows(d.related) /\ d.account = Account(d.related) /\ (d.verified <=> d.related # <<>>)
  /\ \A i \in DOMAIN d.related : d.related[i].version = d.version

LEMMA DraftIsGood ==
  ASSUME IInv
  PROVE  GoodDraft(draft, catalog.version)
  BY DEF IInv, Inv, TypeOK, AccountBelongsToTheApprovals, Shapes, DraftInv, GoodDraft

\* A content that is saved names active files only.
LEMMA SavableNamesFiles ==
  ASSUME NEW k \in Savable
  PROVE  k \in DOMAIN Contents /\ Sources(Applied[k]) \subseteq Active(Contents[k].files)
  BY DEF Savable, References

\* A change of the content, of the approvals or of the status.
LEMMA ChangedIsGood ==
  ASSUME IInv, Mutable, draft.revision < MaxRevision, NEW d,
         d = [draft EXCEPT !.revision = draft.revision + 1, !.status = d.status, !.content = d.content,
                           !.related = d.related, !.account = d.account, !.verified = d.verified],
         d.status \in {"DRAFT", "REVIEW_READY"},
         d.content = draft.content \/ d.content \in Savable,
         Rows(d.related), d.account = Account(d.related), d.verified \in BOOLEAN,
         d.verified <=> d.related # <<>>,
         \A i \in DOMAIN d.related : d.related[i].version = draft.version
  PROVE  GoodDraft(d, catalog.version)
  <1>0. GoodDraft(draft, catalog.version) /\ MaxRevision \in Nat
    BY DraftIsGood, LimitsAssumption
  <1>1. /\ d = [status |-> d.status, revision |-> draft.revision + 1, version |-> draft.version,
                content |-> d.content, related |-> d.related, account |-> d.account,
                verified |-> d.verified]
        /\ d.revision = draft.revision + 1 /\ d.version = draft.version
    BY <1>0 DEF GoodDraft
  <1>2. d.revision \in 0..(MaxRevision + 1) /\ d.revision <= MaxRevision
    BY <1>0, <1>1 DEF GoodDraft
  <1>3. d.content \in DOMAIN Contents /\ Sources(Applied[d.content]) \subseteq Active(Contents[d.content].files)
    BY <1>0, SavableNamesFiles DEF GoodDraft, Mutable
  <1> QED
    BY <1>0, <1>1, <1>2, <1>3 DEF GoodDraft

LEMMA DraftStep ==
  ASSUME IInv, Next
  PROVE  GoodDraft(draft', catalog.version)
  <1> DEFINE Goal == GoodDraft(draft', catalog.version)
  <1>0. GoodDraft(draft, catalog.version) /\ MaxRevision \in Nat \ {0}
    BY DraftIsGood, LimitsAssumption
  <1>1. ASSUME NEW k \in DOMAIN Contents, Create(k) PROVE Goal
    <2>1. draft' = [status |-> "DRAFT", revision |-> 1, version |-> catalog.version, content |-> k,
                    related |-> <<>>, account |-> NoText, verified |-> FALSE]
      BY <1>1 DEF Create
    <2>2. k \in Savable /\ catalog.version \in 0..catalog.version
      BY <1>1, LimitsAssumption DEF Create, IInv, Inv, TypeOK
    <2>3. Account(<<>>) = NoText
      BY DEF Account
    <2> QED
      BY <1>0, <2>1, <2>2, <2>3, NoRows, SavableNamesFiles DEF GoodDraft
  <1>2. CASE WriteUpdate
    <2>1. CASE Unchanged(update.revision)
      <3>1. draft' = [draft EXCEPT !.revision = draft.revision + 1, !.status = "DRAFT",
                                   !.content = update.content, !.account = update.account,
                                   !.verified = update.verified]
        BY <1>0, <1>2, <2>1 DEF WriteUpdate, Changed, GoodDraft
      <3>2. /\ update.content \in Savable /\ update.account = draft.account
            /\ update.verified = draft.verified /\ draft.revision < MaxRevision /\ Mutable
        BY <1>2, <2>1 DEF WriteUpdate, Unchanged, IInv, UpdateInv
      <3>3. /\ draft'.status = "DRAFT" /\ draft'.content = update.content
            /\ draft'.related = draft.related /\ draft'.account = draft.account
            /\ draft'.verified = draft.verified
            /\ draft' = [draft EXCEPT !.revision = draft.revision + 1, !.status = draft'.status,
                           !.content = draft'.content, !.related = draft'.related,
                           !.account = draft'.account, !.verified = draft'.verified]
        BY <1>0, <3>1, <3>2 DEF GoodDraft
      <3>4. /\ Rows(draft.related) /\ draft.account = Account(draft.related) /\ draft.verified \in BOOLEAN
            /\ draft.verified <=> draft.related # <<>>
            /\ \A i \in DOMAIN draft.related : draft.related[i].version = draft.version
        BY <1>0 DEF GoodDraft
      <3> QED
        BY <3>2, <3>3, <3>4, ChangedIsGood
    <2>2. CASE ~Unchanged(update.revision)
      BY <1>0, <1>2, <2>2 DEF WriteUpdate
    <2> QED
      BY <2>1, <2>2
  <1>3. CASE StoreSelect
    <2> DEFINE Stores == /\ SameBinding /\ draft.version = catalog.version
                         /\ select.rows # <<>> => select.rows[1].department \notin Others
                         /\ Unchanged(select.revision)
    <2>1. CASE Stores
      <3>1. draft' = [draft EXCEPT !.revision = draft.revision + 1, !.status = "DRAFT",
                                   !.related = select.rows, !.account = Account(select.rows),
                                   !.verified = select.rows # <<>>]
        BY <1>0, <1>3, <2>1 DEF StoreSelect, Changed, GoodDraft
      <3>2. /\ draft.revision < MaxRevision /\ Mutable /\ Rows(select.rows)
            /\ \A i \in DOMAIN select.rows : select.rows[i].version = draft.version
        BY <1>3, <2>1 DEF StoreSelect, Unchanged, SameBinding, IInv, SelectInv
      <3>3. /\ draft'.status = "DRAFT" /\ draft'.content = draft.content
            /\ draft'.related = select.rows /\ draft'.account = Account(draft'.related)
            /\ draft'.verified = (draft'.related # <<>>)
            /\ draft' = [draft EXCEPT !.revision = draft.revision + 1, !.status = draft'.status,
                           !.content = draft'.content, !.related = draft'.related,
                           !.account = draft'.account, !.verified = draft'.verified]
        BY <1>0, <3>1 DEF GoodDraft
      <3> QED
        BY <3>2, <3>3, ChangedIsGood
    <2>2. CASE ~Stores
      BY <1>0, <1>3, <2>2 DEF StoreSelect
    <2> QED
      BY <2>1, <2>2
  <1>4. CASE Review
    <2>1. /\ draft' = [draft EXCEPT !.status = "REVIEW_READY", !.revision = draft.revision + 1]
          /\ Mutable /\ draft.revision < MaxRevision
      BY <1>0, <1>4 DEF Review, GoodDraft
    <2>2. /\ draft'.status = "REVIEW_READY" /\ draft'.content = draft.content
          /\ draft'.related = draft.related /\ draft'.account = draft.account
          /\ draft'.verified = draft.verified
          /\ draft' = [draft EXCEPT !.revision = draft.revision + 1, !.status = draft'.status,
                         !.content = draft'.content, !.related = draft'.related,
                         !.account = draft'.account, !.verified = draft'.verified]
      BY <1>0, <2>1 DEF GoodDraft
    <2>3. /\ Rows(draft.related) /\ draft.account = Account(draft.related) /\ draft.verified \in BOOLEAN
          /\ draft.verified <=> draft.related # <<>>
          /\ \A i \in DOMAIN draft.related : draft.related[i].version = draft.version
      BY <1>0 DEF GoodDraft
    <2> QED
      BY <2>1, <2>2, <2>3, ChangedIsGood
  <1>5. CASE Lock
    <2>1. CASE job.at = "idle" /\ Locks
      <3>1. draft' = [draft EXCEPT !.status = "LOCKED", !.revision = draft.revision + 1]
        BY <1>0, <1>5, <2>1 DEF Lock, GoodDraft
      <3>2. draft.revision + 1 \in 0..(MaxRevision + 1) /\ draft.status = "REVIEW_READY"
        BY <1>0, <2>1 DEF GoodDraft, Locks
      <3> QED
        BY <1>0, <3>1, <3>2 DEF GoodDraft
    <2> QED
      BY <1>0, <1>5, <2>1 DEF Lock
  <1>6. CASE UNCHANGED draft
    BY <1>0, <1>6
  <1> QED
    BY <1>1, <1>2, <1>3, <1>4, <1>5, <1>6
    DEF Next, EditForm, ChangeFacts, Refresh, Confirm, ReadUpdate, StartSelect, CheckPick, BeginSubmit,
        Look, Adopt, Collect, Validate, CheckForm, CheckTravelForm, CheckMembership, CheckApproval,
        Retry, CreateApproval, ReadBack

-----------------------------------------------------------------------------
(* The requests *)

LEMMA UpdateStep ==
  ASSUME IInv, Next
  PROVE  UpdateInv'
  <1>0. /\ UpdateInv /\ draft.revision \in 0..(MaxRevision + 1) /\ MaxRevision \in Nat
        /\ (draft' = draft \/ draft'.revision = draft.revision + 1 \/ Replaced)
        /\ draft.verified \in BOOLEAN /\ (draft.verified <=> draft.related # <<>>)
        /\ draft.account = Account(draft.related)
    BY DraftMoves, LimitsAssumption DEF IInv, Inv, TypeOK, AccountBelongsToTheApprovals
  <1>1. CASE update'.at = "idle"
    BY <1>1 DEF UpdateInv
  <1>2. ASSUME NEW k, ReadUpdate(k)
        PROVE  UpdateInv'
    <2>1. /\ update' = [at |-> "read", content |-> k, revision |-> draft.revision,
                        account |-> IF draft.related # <<>> THEN draft.account ELSE NoText,
                        verified |-> draft.related # <<>> /\ draft.verified]
          /\ k \in Savable /\ draft.revision < MaxRevision /\ draft' = draft
      BY <1>2 DEF ReadUpdate
    <2>2. update'.account = draft.account /\ update'.verified = draft.verified
      BY <1>0, <2>1 DEF Account
    <2> QED
      BY <1>0, <2>1, <2>2 DEF UpdateInv
  <1>3. CASE UNCHANGED update /\ (draft' = draft \/ draft'.revision = draft.revision + 1)
    BY <1>0, <1>3 DEF UpdateInv
  <1>4. Replaced => update'.at = "idle"
    BY DEF Replaced, Undone
  <1>5. CASE (\E k \in DOMAIN Contents : Create(k)) \/ WriteUpdate
    BY <1>1, <1>5 DEF Create, WriteUpdate, Undone
  <1>6. CASE UNCHANGED update
    BY <1>0, <1>1, <1>3, <1>4, <1>6
  <1>7. (\E k \in DOMAIN Contents : Create(k) \/ ReadUpdate(k)) \/ WriteUpdate \/ UNCHANGED update
    BY DEF Next, EditForm, ChangeFacts, Refresh, Confirm, StartSelect, CheckPick,
           StoreSelect, Review, BeginSubmit, Look, Adopt, Collect, Lock, Validate, CheckForm,
           CheckTravelForm, CheckMembership, CheckApproval, Retry, CreateApproval, ReadBack
  <1> QED
    BY <1>2, <1>5, <1>6, <1>7

\* An approval that passes its check joins the rows with the account of its edition.
LEMMA PickKeeps ==
  ASSUME IInv, CheckPick
  PROVE  SelectInv' /\ (select'.at # "idle" =>
           select' = [at |-> select'.at, pick |-> select'.pick, rows |-> select'.rows,
                      revision |-> select'.revision, version |-> select'.version, form |-> select'.form])
  <1> DEFINE id == select.pick[Len(select.rows) + 1]
             f == Facts[live.facts][id]
             row == Row(id, f, select.form)
             passes == /\ f.state = "agree" /\ f.own \in DOMAIN Mapping
                       /\ Cardinality(Resolved(select.form, f.text)) = 1
                       /\ Together(row, select.rows)
  <1>0. /\ SelectInv /\ select.at = "check" /\ Shapes /\ draft' = draft /\ live.facts \in DOMAIN Facts
        /\ select = [at |-> select.at, pick |-> select.pick, rows |-> select.rows,
                     revision |-> select.revision, version |-> select.version, form |-> select.form]
    BY DEF CheckPick, IInv, Inv, TypeOK, Shapes
  <1>1. CASE ~passes
    <2>1. select' = Undone
      BY <1>1 DEF CheckPick
    <2> QED
      BY <2>1 DEF SelectInv, Undone
  <1>2. CASE passes
    <2>1. /\ select.pick \in Seq(Ids) /\ Len(select.rows) < Len(select.pick) /\ Rows(select.rows)
          /\ Len(select.rows) \in Nat /\ select.form \in DOMAIN Forms
      BY <1>0 DEF SelectInv, Rows
    <2>2. id \in Ids
      BY <2>1
    <2>3. PICK o : Resolved(select.form, f.text) = {o}
      BY <1>2, <2>1, OneOption
    <2>4. row.id = id /\ row.version = select.version /\ row.account = o.value
      BY <2>3 DEF Row
    <2>5. StandsFor(select.form, row.id, row.account)
      <3>1. {p.value : p \in Resolved(select.form, f.text)} = {o.value}
        BY <2>3
      <3> QED
        BY <1>0, <2>4, <3>1 DEF StandsFor
    <2>6. \A i \in DOMAIN select.rows : select.rows[i].account = row.account
      BY <1>2 DEF Together
    <2> HIDE DEF f, id, row
    <2>7. select' = [at |-> IF Len(select.rows) + 1 = Len(select.pick) THEN "store" ELSE "check",
                     pick |-> select.pick, rows |-> Append(select.rows, row),
                     revision |-> select.revision, version |-> select.version, form |-> select.form]
      BY <1>0, <1>2 DEF CheckPick, f, id, row
    <2>8. /\ Rows(Append(select.rows, row)) /\ Len(Append(select.rows, row)) = Len(select.rows) + 1
          /\ DOMAIN Append(select.rows, row) = 1..(Len(select.rows) + 1)
          /\ DOMAIN select.rows = 1..Len(select.rows)
          /\ Append(select.rows, row)[Len(select.rows) + 1] = row
          /\ \A i \in DOMAIN select.rows : Append(select.rows, row)[i] = select.rows[i]
      BY <2>1, <2>2, <2>4, RowsAppend
    <2>9. \A i \in 1..(Len(select.rows) + 1) :
             LET r == Append(select.rows, row)[i] IN
             /\ r.version = select.version /\ r.account = row.account
             /\ StandsFor(select.form, r.id, r.account)
      <3> TAKE i \in 1..(Len(select.rows) + 1)
      <3>1. CASE i = Len(select.rows) + 1
        BY <2>4, <2>5, <2>8, <3>1
      <3>2. CASE i \in DOMAIN select.rows
        BY <1>0, <2>6, <2>8, <3>2 DEF SelectInv
      <3> QED
        BY <2>1, <2>8, <3>1, <3>2
    <2>10. /\ select'.at \in {"check", "store"} /\ select'.pick = select.pick
           /\ select'.rows = Append(select.rows, row) /\ select'.revision = select.revision
           /\ select'.version = select.version /\ select'.form = select.form
           /\ select'.at = "check" => Len(select.rows) + 1 # Len(select.pick)
      BY <2>7
    <2>11. select'.at = "check" => Len(select'.rows) < Len(select'.pick)
      BY <2>1, <2>8, <2>10
    <2>12. 1 \in 1..(Len(select.rows) + 1)
      BY <2>1
    <2>13. \A i \in DOMAIN select'.rows :
             /\ select'.rows[i].version = select'.version
             /\ select'.rows[i].account = select'.rows[1].account
             /\ StandsFor(select'.form, select'.rows[i].id, select'.rows[i].account)
      BY <2>8, <2>9, <2>10, <2>12
    <2>14. /\ select'.revision \in 0..draft'.revision /\ select'.revision < MaxRevision
           /\ select'.form \in DOMAIN Forms /\ select'.pick \in Seq(Ids) /\ Rows(select'.rows)
      BY <1>0, <2>1, <2>8, <2>10 DEF SelectInv
    <2> QED
      BY <2>7, <2>10, <2>11, <2>13, <2>14 DEF SelectInv, StandsFor, Rows, Resolved
  <1> QED
    BY <1>1, <1>2

LEMMA SelectStep ==
  ASSUME IInv, Next
  PROVE  SelectInv' /\ (select'.at # "idle" =>
           select' = [at |-> select'.at, pick |-> select'.pick, rows |-> select'.rows,
                      revision |-> select'.revision, version |-> select'.version, form |-> select'.form])
  <1> DEFINE Shaped == select'.at # "idle" =>
               select' = [at |-> select'.at, pick |-> select'.pick, rows |-> select'.rows,
                          revision |-> select'.revision, version |-> select'.version,
                          form |-> select'.form]
  <1>0. /\ SelectInv /\ Shapes /\ draft.revision \in 0..(MaxRevision + 1) /\ MaxRevision \in Nat
        /\ catalog.form \in DOMAIN Forms
        /\ (draft' = draft \/ draft'.revision = draft.revision + 1 \/ Replaced)
    BY DraftMoves, LimitsAssumption DEF IInv, Inv, TypeOK
  <1>1. CASE select' = Undone
    BY <1>1 DEF SelectInv, Undone
  <1>2. ASSUME NEW pick \in Picks, StartSelect(pick)
        PROVE  SelectInv' /\ Shaped
    <2>1. select' = [at |-> IF pick = <<>> THEN "store" ELSE "check", pick |-> pick, rows |-> <<>>,
                     revision |-> draft.revision, version |-> catalog.version, form |-> catalog.form]
      BY <1>2 DEF StartSelect
    <2>2. draft' = draft /\ draft.revision < MaxRevision /\ pick \in Seq(Ids)
      BY <1>2, PicksAssumption DEF StartSelect, Ids
    <2>3. pick # <<>> => 0 < Len(pick)
      BY <2>2
    <2>4. Len(<<>>) = 0 /\ DOMAIN <<>> = {}
      OBVIOUS
    <2>5. select'.at = "check" => Len(select'.rows) < Len(select'.pick)
      BY <2>1, <2>3, <2>4
    <2>6. /\ select'.at \in {"check", "store"} /\ select'.rows = <<>>
          /\ select'.revision \in 0..draft'.revision /\ select'.revision < MaxRevision
          /\ select'.form \in DOMAIN Forms /\ select'.pick \in Seq(Ids)
      BY <1>0, <2>1, <2>2
    <2> QED
      BY <2>1, <2>4, <2>5, <2>6, NoRows DEF SelectInv, Rows
  <1>3. CASE CheckPick
    BY <1>3, PickKeeps
  <1>4. CASE UNCHANGED select
    <2>1. CASE select.at = "idle"
      BY <1>4, <2>1 DEF SelectInv
    <2>2. CASE select.at # "idle"
      <3>1. select.revision \in 0..draft'.revision
        BY <1>0, <1>1, <1>4, <2>2 DEF SelectInv, Replaced, Undone
      <3>2. Shaped
        BY <1>0, <1>4 DEF Shapes
      <3>3. SelectInv'
        BY <1>0, <1>4, <2>2, <3>1 DEF SelectInv
      <3> QED
        BY <3>2, <3>3
    <2> QED
      BY <2>1, <2>2
  <1>5. CASE (\E k \in DOMAIN Contents : Create(k)) \/ StoreSelect
    BY <1>1, <1>5 DEF Create, StoreSelect
  <1>6. \/ \E k \in DOMAIN Contents : Create(k)
        \/ \E pick \in Picks : StartSelect(pick)
        \/ CheckPick \/ StoreSelect \/ UNCHANGED select
    BY DEF Next, EditForm, ChangeFacts, Refresh, Confirm, ReadUpdate, WriteUpdate, Review, BeginSubmit,
           Look, Adopt, Collect, Lock, Validate, CheckForm, CheckTravelForm, CheckMembership,
           CheckApproval, Retry, CreateApproval, ReadBack
  <1> QED
    BY <1>2, <1>3, <1>4, <1>5, <1>6

\* What is collected is the draft as the page showed it.
LEMMA CollectKeeps ==
  ASSUME IInv, Collect
  PROVE  SubmitInv'
  <1>0. /\ SubmitInv /\ submit.at = "collect" /\ draft' = draft /\ Rows(draft.related)
        /\ submit.revision \in 0..draft.revision /\ submit.shown.revision = submit.revision
        /\ submit.revision = draft.revision => draft = submit.shown
    BY DEF Collect, IInv, SubmitInv, DraftInv
  <1>1. CASE Collectable(submit.revision) /\ Sound(Snapshot(Source))
    <2>1. submit' = [at |-> "lock", revision |-> submit.revision, shown |-> submit.shown, source |-> Source]
      BY <1>1 DEF Collect
    <2>2. /\ draft.status = "REVIEW_READY" /\ draft.revision = submit.revision
          /\ RelatedSources(draft.related, catalog.version, Form.types, Applied[draft.content])
      BY <1>1 DEF Collectable
    <2>3. Linkable(draft.related)
      BY <1>0, <2>2 DEF RelatedSources, RelatedReady, Linkable
    <2>4. /\ Source.revision = draft.revision /\ Source.related = draft.related
          /\ SameContent(draft, Source)
      BY DEF Source, SameContent
    <2> HIDE DEF Source
    <2>5. /\ submit'.at = "lock" /\ submit'.revision = submit.revision
          /\ submit'.shown = submit.shown /\ submit'.source = Source
      BY <2>1
    <2> QED
      BY <1>0, <2>2, <2>3, <2>4, <2>5 DEF SubmitInv, SameContent, Linkable, Rows
  <1>2. CASE submit' = Undone
    BY <1>2 DEF SubmitInv, Undone
  <1> QED
    BY <1>1, <1>2 DEF Collect

LEMMA SubmitStep ==
  ASSUME IInv, Next
  PROVE  SubmitInv'
  <1>0. /\ SubmitInv /\ draft.revision \in 0..(MaxRevision + 1) /\ MaxRevision \in Nat
        /\ live.form \in DOMAIN Forms
        /\ (draft' = draft \/ draft'.revision = draft.revision + 1 \/ Replaced)
    BY DraftMoves, LimitsAssumption DEF IInv, Inv, TypeOK
  <1>1. CASE submit' = Undone
    BY <1>1 DEF SubmitInv, Undone
  <1>2. CASE BeginSubmit
    <2>1. /\ submit' = [at |-> "look", revision |-> draft.revision, shown |-> draft, row |-> catalog]
          /\ draft' = draft
      BY <1>2 DEF BeginSubmit
    <2> QED
      BY <1>0, <2>1 DEF SubmitInv
  <1>3. CASE Look
    <2>1. /\ submit' = [at |-> "adopt", revision |-> submit.revision, shown |-> submit.shown,
                        row |-> submit.row, seen |-> live.form]
          /\ submit.at = "look" /\ draft' = draft
      BY <1>3 DEF Look
    <2> QED
      BY <1>0, <2>1 DEF SubmitInv
  <1>4. CASE Adopt
    <2>1. /\ \/ submit' = Undone
             \/ submit' = [at |-> "look", revision |-> submit.revision, shown |-> submit.shown,
                           row |-> catalog]
             \/ submit' = [at |-> "collect", revision |-> submit.revision, shown |-> submit.shown]
          /\ submit.at = "adopt" /\ draft' = draft
      BY <1>4 DEF Adopt
    <2>2. CASE submit'.at \in {"look", "collect"} /\ submit'.revision = submit.revision
               /\ submit'.shown = submit.shown
      BY <1>0, <2>1, <2>2 DEF SubmitInv
    <2> QED
      BY <1>1, <2>1, <2>2
  <1>5. CASE Collect
    BY <1>5, CollectKeeps
  <1>6. CASE UNCHANGED submit
    <2>1. CASE submit.at = "idle"
      BY <1>6, <2>1 DEF SubmitInv
    <2>2. CASE submit.at # "idle"
      <3>1. draft' = draft \/ draft'.revision = draft.revision + 1
        BY <1>0, <1>6, <2>2 DEF Replaced, Undone
      <3>2. /\ submit.revision \in 0..draft'.revision
            /\ submit.revision = draft'.revision => draft' = submit.shown
        BY <1>0, <2>2, <3>1 DEF SubmitInv
      <3> QED
        BY <1>0, <1>6, <3>2 DEF SubmitInv, SameContent, Linkable, Rows
    <2> QED
      BY <2>1, <2>2
  <1>7. CASE (\E k \in DOMAIN Contents : Create(k)) \/ Lock
    BY <1>1, <1>7 DEF Create, Lock
  <1>8. \/ \E k \in DOMAIN Contents : Create(k)
        \/ BeginSubmit \/ Look \/ Adopt \/ Collect \/ Lock \/ UNCHANGED submit
    BY DEF Next, EditForm, ChangeFacts, Refresh, Confirm, ReadUpdate, WriteUpdate, StartSelect, CheckPick,
           StoreSelect, Review, Validate, CheckForm, CheckTravelForm, CheckMembership,
           CheckApproval, Retry, CreateApproval, ReadBack
  <1> QED
    BY <1>2, <1>3, <1>4, <1>5, <1>6, <1>7, <1>8

-----------------------------------------------------------------------------
(* The submission keeps what it was made of *)

JobStates == {"queued", "form", "travel", "listed", "details", "valid", "created", "submitted",
              "refused", "failed"}

\* The submission's record, in some state.
Job(j) ==
  /\ j = [at |-> j.at, source |-> j.source, shown |-> j.shown, forms |-> j.forms,
          facts |-> j.facts, seen |-> j.seen, left |-> j.left, found |-> j.found]
  /\ j.at \in JobStates

LEMMA QueuedJob ==
  ASSUME NEW s, NEW d
  PROVE  Job(Queued(s, d)) /\ Queued(s, d).source = s /\ Queued(s, d).shown = d
         /\ Queued(s, d).at = "queued" /\ Queued(s, d).forms = {}
  BY DEF Queued, Job, JobStates

\* What there is of a submission stays, and so does its draft.
LEMMA JobStays ==
  ASSUME IInv, Next, job.at # "idle"
  PROVE  draft' = draft /\ Job(job') /\ job'.source = job.source /\ job'.shown = job.shown
  <1> DEFINE Goal == Job(job') /\ job'.source = job.source /\ job'.shown = job.shown
  <1>0. Job(job) /\ draft.status = "LOCKED"
    BY DEF IInv, Inv, TypeOK, Shapes, Job, JobStates
  <1>1. draft' = draft
    BY <1>0 DEF Next, EditForm, ChangeFacts, Refresh, Confirm, Create, ReadUpdate, WriteUpdate, Unchanged,
                Mutable, StartSelect, CheckPick, StoreSelect, Review, BeginSubmit, Look, Adopt, Collect,
                Lock, Validate, CheckForm, CheckTravelForm, CheckMembership, CheckApproval, Retry,
                CreateApproval, ReadBack
  <1>2. CASE UNCHANGED job
    BY <1>0, <1>1, <1>2
  <1>3. ASSUME NEW forms, NEW facts, NEW at \in JobStates, NEW seen, NEW left, NEW found,
               job' = [at |-> at, source |-> job.source, shown |-> job.shown, forms |-> forms,
                       facts |-> facts, seen |-> seen, left |-> left, found |-> found]
        PROVE  Goal
    BY <1>3 DEF Job
  <1>4. CASE \E form : job' = [job EXCEPT !.forms = job.forms \cup {form}]
    BY <1>0, <1>1, <1>3, <1>4 DEF Job
  <1>5. CASE \E facts : job' = [job EXCEPT !.facts = job.facts \cup {facts}]
    BY <1>0, <1>1, <1>3, <1>5 DEF Job
  <1>6. ASSUME NEW at \in JobStates, job' = [job EXCEPT !.at = at] PROVE Goal
    BY <1>0, <1>3, <1>6 DEF Job
  <1>7. CASE Validate
    BY <1>0, <1>3, <1>7 DEF Validate, Job, JobStates
  <1>8. CASE CheckForm
    BY <1>0, <1>3, <1>6, <1>8 DEF CheckForm, Failed, Job, JobStates
  <1>9. CASE CheckTravelForm
    BY <1>6, <1>9 DEF CheckTravelForm, Failed, JobStates
  <1>10. CASE CheckMembership
    BY <1>0, <1>3, <1>6, <1>10 DEF CheckMembership, Failed, Job, JobStates
  <1>11. ASSUME NEW id, CheckApproval(id) PROVE Goal
    <2>1. CASE job' = [job EXCEPT !.at = "failed"]
      BY <1>6, <2>1 DEF JobStates
    <2>2. CASE job' = [job EXCEPT !.left = job.left \ {id},
                                  !.at = IF job.left = {id} THEN "valid" ELSE "details"]
      BY <1>0, <1>3, <2>2 DEF Job, JobStates
    <2> QED
      BY <1>11, <2>1, <2>2 DEF CheckApproval, Failed
  <1>12. CASE Retry
    BY <1>12, QueuedJob DEF Retry
  <1>13. CASE CreateApproval
    BY <1>6, <1>13 DEF CreateApproval, JobStates
  <1>14. ASSUME NEW ours, NEW command, NEW titles, ReadBack(ours, command, titles) PROVE Goal
    BY <1>0, <1>3, <1>14 DEF ReadBack, Job, JobStates
  <1>15. CASE \E form \in DOMAIN Forms : EditForm(form)
    BY <1>2, <1>4, <1>15 DEF EditForm
  <1>16. CASE \E facts \in DOMAIN Facts : ChangeFacts(facts)
    BY <1>2, <1>5, <1>16 DEF ChangeFacts
  <1>17. CASE Lock
    BY <1>2, <1>17 DEF Lock
  <1>18. \/ UNCHANGED job \/ Validate \/ CheckForm \/ CheckTravelForm \/ CheckMembership
         \/ \E id : CheckApproval(id)
         \/ Retry \/ CreateApproval
         \/ \E ours, command, titles : ReadBack(ours, command, titles)
         \/ \E form \in DOMAIN Forms : EditForm(form)
         \/ \E facts \in DOMAIN Facts : ChangeFacts(facts)
         \/ Lock
    BY DEF Next, Refresh, Confirm, Create, ReadUpdate, WriteUpdate, StartSelect, CheckPick, StoreSelect,
           Review, BeginSubmit, Look, Adopt, Collect
  <1> HIDE DEF Goal
  <1> QED
    BY <1>1, <1>2, <1>7, <1>8, <1>9, <1>10, <1>11, <1>12, <1>13, <1>14, <1>15, <1>16, <1>17, <1>18
    DEF Goal

\* The draft that is locked is the one the page showed, and the one the snapshot was built of.
LEMMA LockKeeps ==
  ASSUME IInv, Lock, job' # job
  PROVE  /\ job' = Queued(submit.source, submit.shown)
         /\ draft'.status = "LOCKED" /\ Linkable(submit.source.related)
         /\ submit.shown.status = "REVIEW_READY"
         /\ SameContent(submit.shown, submit.source) /\ SameContent(draft', submit.source)
         /\ submit.source.revision + 1 = draft'.revision
  <1>1. /\ job' = Queued(submit.source, submit.shown) /\ submit.at = "lock"
        /\ draft' = [draft EXCEPT !.status = "LOCKED", !.revision = draft.revision + 1]
        /\ draft.revision = submit.revision
    BY DEF Lock, Locks, IInv, Shapes
  <1>2. /\ submit.shown.status = "REVIEW_READY" /\ SameContent(submit.shown, submit.source)
        /\ submit.source.revision = submit.revision /\ Linkable(submit.source.related)
        /\ draft = submit.shown
    BY <1>1 DEF IInv, SubmitInv
  <1>3. /\ draft'.status = "LOCKED" /\ draft'.revision = draft.revision + 1
        /\ draft'.content = draft.content /\ draft'.related = draft.related
        /\ draft'.account = draft.account /\ draft'.version = draft.version
    BY <1>1 DEF IInv, Shapes
  <1>4. SameContent(draft', submit.source)
    BY <1>2, <1>3 DEF SameContent
  <1> QED
    BY <1>1, <1>2, <1>3, <1>4

LEMMA NoJobYet ==
  ASSUME IInv, Next, job.at = "idle"
  PROVE  (job' = job /\ draft'.status # "LOCKED") \/ (Lock /\ job' # job)
  <1>0. draft.status # "LOCKED" /\ Shapes /\ ~Validating
    BY DEF IInv, Inv, TypeOK, Validating
  <1>1. CASE Lock /\ job' = job
    <2>1. job' = Queued(submit.source, submit.shown) \/ draft' = draft
      BY <1>1 DEF Lock
    <2>2. job'.at = "idle"
      BY <1>1
    <2> QED
      BY <1>0, <1>1, <2>1, <2>2, QueuedJob
  <1>2. CASE (\E k \in DOMAIN Contents : Create(k)) \/ WriteUpdate \/ StoreSelect \/ Review
    <2>1. CASE \E k \in DOMAIN Contents : Create(k)
      BY <2>1 DEF Create
    <2>2. CASE WriteUpdate
      BY <1>0, <2>2 DEF WriteUpdate, Changed, Shapes
    <2>3. CASE StoreSelect
      BY <1>0, <2>3 DEF StoreSelect, Changed, Shapes
    <2>4. CASE Review
      BY <1>0, <2>4 DEF Review, Shapes
    <2> QED
      BY <1>2, <2>1, <2>2, <2>3, <2>4
  <1>3. CASE UNCHANGED <<draft, job>>
    BY <1>0, <1>3
  <1>4. CASE (\E form \in DOMAIN Forms : EditForm(form)) \/ (\E facts \in DOMAIN Facts : ChangeFacts(facts))
    BY <1>0, <1>4 DEF EditForm, ChangeFacts
  <1> QED
    BY <1>0, <1>1, <1>2, <1>3, <1>4
    DEF Next, Refresh, Confirm, ReadUpdate, StartSelect, CheckPick, BeginSubmit, Look, Adopt, Collect,
        Validate, CheckForm, CheckTravelForm, CheckMembership, Retry, Validating, CreateApproval

LEMMA SourceStep ==
  ASSUME IInv, Next
  PROVE  /\ SourceInv' /\ (job'.at # "idle" => Job(job'))
         /\ draft'.status = "LOCKED" <=> job'.at # "idle"
         /\ job'.at = "idle" \/ job'.at \in JobStates
  <1>0. SourceInv /\ (draft.status = "LOCKED" <=> job.at # "idle")
    BY DEF IInv, Inv, TypeOK
  <1>1. CASE job.at # "idle"
    <2>1. draft' = draft /\ Job(job') /\ job'.source = job.source /\ job'.shown = job.shown
      BY <1>1, JobStays
    <2>2. job'.at # "idle" /\ job'.at \in JobStates
      BY <2>1 DEF Job, JobStates
    <2>3. SubmittedAsReviewed'
      BY <1>0, <1>1, <2>1 DEF SourceInv, SubmittedAsReviewed
    <2> QED
      BY <1>0, <1>1, <2>1, <2>2, <2>3 DEF SourceInv
  <1>2. CASE job.at = "idle" /\ Lock /\ job' # job
    <2>1. /\ job'.at = "queued" /\ job'.source = submit.source /\ job'.shown = submit.shown /\ Job(job')
      BY <1>2, LockKeeps, QueuedJob
    <2>2. SubmittedAsReviewed'
      BY <1>2, <2>1, LockKeeps DEF SubmittedAsReviewed, SameContent
    <2> QED
      BY <1>2, <2>1, <2>2, LockKeeps DEF SourceInv, JobStates
  <1>3. CASE job.at = "idle" /\ job' = job /\ draft'.status # "LOCKED"
    BY <1>3 DEF SourceInv, SubmittedAsReviewed
  <1> QED
    BY <1>1, <1>2, <1>3, NoJobYet

-----------------------------------------------------------------------------
(* The worker's checks *)

\* A check that was passed stays passed when more is seen.
LEMMA CheckedStays ==
  ASSUME job'.source = job.source, job'.seen = job.seen, job.facts \subseteq job'.facts,
         NEW id, Checked(id)
  PROVE  Checked(id)'
  <1>1. RowOf(id)' = RowOf(id)
    BY DEF RowOf
  <1>2. PICK facts \in job.facts :
          /\ Agreed(RowOf(id), Facts[facts][id])
          /\ {o.value : o \in Resolved(job.seen, Facts[facts][id].text)} = {job.source.account}
    BY DEF Checked
  <1>3. facts \in job'.facts
    BY <1>2
  <1>4. /\ Agreed(RowOf(id)', Facts[facts][id])
        /\ {o.value : o \in Resolved(job'.seen, Facts[facts][id].text)} = {job'.source.account}
    BY <1>1, <1>2
  <1> QED
    BY <1>3, <1>4 DEF Checked

\* What DingTalk shows of an approval that passes.
LEMMA ApprovalKeeps ==
  ASSUME IInv, job.at = "details", NEW id \in job.left, CheckApproval(id), live' = live
  PROVE  ChecksInv'
  <1> DEFINE row == RowOf(id)
             f == Facts[live.facts][id]
             passes == /\ f.state = "agree" /\ f.start = row.start /\ f.end = row.end
                       /\ f.department = row.department /\ TypeStands(row, f) /\ AccountStands(f)
  <1>0. /\ ChecksInv /\ Job(job) /\ job.seen \in job.forms /\ job.forms \subseteq DOMAIN Forms
        /\ live.facts \in job.facts /\ live.form \in job.forms
        /\ job.left \subseteq Linked /\ \A x \in Linked \ job.left : Checked(x)
    BY DEF IInv, Inv, TypeOK, Shapes, Job, JobStates, ChecksInv, Validating
  <1>1. CASE ~passes
    <2>1. job' = [job EXCEPT !.at = "failed"]
      BY <1>1 DEF CheckApproval, Failed
    <2>2. job'.at = "failed" /\ job'.forms = job.forms
      BY <1>0, <2>1 DEF Job
    <2> QED
      BY <1>0, <2>2 DEF ChecksInv, Validating
  <1>2. CASE passes
    <2>1. job' = [job EXCEPT !.left = job.left \ {id},
                             !.at = IF job.left = {id} THEN "valid" ELSE "details"]
      BY <1>2 DEF CheckApproval
    <2>2. /\ job'.at = (IF job.left = {id} THEN "valid" ELSE "details")
          /\ job'.left = job.left \ {id} /\ job'.source = job.source /\ job'.seen = job.seen
          /\ job'.facts = job.facts /\ job'.forms = job.forms
      BY <1>0, <2>1 DEF Job
    <2>3. PICK o : Resolved(job.seen, f.text) = {o}
      BY <1>0, <1>2, OneOption DEF AccountStands
    <2>4. {p.value : p \in Resolved(job.seen, f.text)} = {job.source.account}
      BY <1>2, <2>3 DEF AccountStands
    <2>5. Agreed(RowOf(id), f)
      BY <1>2 DEF Agreed, TypeStands
    <2>6. Checked(id)
      BY <1>0, <2>4, <2>5 DEF Checked
    <2>7. Linked' = Linked
      BY <2>2 DEF Linked
    <2>8. \A x \in Linked' \ job'.left : Checked(x)'
      BY <1>0, <2>2, <2>6, <2>7, CheckedStays
    <2>9. job'.left \subseteq Linked'
      BY <1>0, <2>2, <2>7
    <2>10. job'.at = "valid" => job'.left = {}
      BY <2>2
    <2>11. job'.at = "valid" => \A x \in Linked' : Checked(x)'
      BY <2>8, <2>10
    <2> QED
      BY <1>0, <2>2, <2>8, <2>9, <2>11 DEF ChecksInv, Validating
  <1> QED
    BY <1>1, <1>2

\* A step that keeps the state of the job: more may be seen meanwhile.
LEMMA SeenMore ==
  ASSUME IInv, job'.at = job.at, job'.source = job.source, job'.seen = job.seen, job'.left = job.left,
         job.facts \subseteq job'.facts, job.forms \subseteq job'.forms,
         job.at # "idle" => job'.forms \subseteq DOMAIN Forms,
         Validating => live'.form \in job'.forms /\ live'.facts \in job'.facts
  PROVE  ChecksInv'
  <1>1. ChecksInv /\ Linked' = Linked
    BY DEF IInv, Linked
  <1>2. \A x : Checked(x) => Checked(x)'
    BY CheckedStays
  <1> QED
    BY <1>1, <1>2 DEF ChecksInv, Validating

\* A step from one state of the job to the next.
LEMMA StageKeeps ==
  ASSUME IInv, live' = live, job.at # "idle", job' = [job EXCEPT !.at = job'.at],
         \/ job'.at = "failed"
         \/ job.at = "travel" /\ job'.at = "listed"
         \/ job.at = "valid" /\ job'.at = "created"
  PROVE  ChecksInv'
  <1>1. /\ job'.source = job.source /\ job'.seen = job.seen /\ job'.facts = job.facts
        /\ job'.forms = job.forms /\ ChecksInv
    BY DEF IInv, Shapes
  <1>2. Linked' = Linked /\ \A x : Checked(x) => Checked(x)'
    BY <1>1, CheckedStays DEF Linked
  <1> QED
    BY <1>1, <1>2 DEF ChecksInv, Validating

LEMMA ChecksStep ==
  ASSUME IInv, Next
  PROVE  ChecksInv'
  <1>0. /\ ChecksInv /\ (job.at # "idle" => Job(job))
        /\ live.form \in DOMAIN Forms /\ live.facts \in DOMAIN Facts
        /\ live = [form |-> live.form, facts |-> live.facts, edits |-> live.edits]
    BY DEF IInv, Inv, TypeOK, Shapes, Job, JobStates
  <1>1. ASSUME NEW form \in DOMAIN Forms, EditForm(form) PROVE ChecksInv'
    <2>1. live'.form = form /\ live'.facts = live.facts
      BY <1>0, <1>1 DEF EditForm
    <2>2. CASE Validating
      <3>1. job' = [job EXCEPT !.forms = job.forms \cup {form}] /\ job.at # "idle"
        BY <1>1, <2>2 DEF EditForm, Validating
      <3>2. /\ job'.at = job.at /\ job'.source = job.source /\ job'.seen = job.seen
            /\ job'.left = job.left /\ job'.facts = job.facts /\ job'.forms = job.forms \cup {form}
        BY <1>0, <3>1 DEF Job
      <3> QED
        BY <1>0, <2>1, <2>2, <3>1, <3>2, SeenMore DEF ChecksInv
    <2>3. CASE ~Validating
      <3>1. job' = job
        BY <1>1, <2>3 DEF EditForm
      <3> QED
        BY <1>0, <2>3, <3>1, SeenMore DEF ChecksInv
    <2> QED
      BY <2>2, <2>3
  <1>2. ASSUME NEW facts \in DOMAIN Facts, ChangeFacts(facts) PROVE ChecksInv'
    <2>1. live'.form = live.form /\ live'.facts = facts
      BY <1>0, <1>2 DEF ChangeFacts
    <2>2. CASE Validating
      <3>1. job' = [job EXCEPT !.facts = job.facts \cup {facts}] /\ job.at # "idle"
        BY <1>2, <2>2 DEF ChangeFacts, Validating
      <3>2. /\ job'.at = job.at /\ job'.source = job.source /\ job'.seen = job.seen
            /\ job'.left = job.left /\ job'.forms = job.forms /\ job'.facts = job.facts \cup {facts}
        BY <1>0, <3>1 DEF Job
      <3> QED
        BY <1>0, <2>1, <2>2, <3>1, <3>2, SeenMore DEF ChecksInv
    <2>3. CASE ~Validating
      <3>1. job' = job
        BY <1>2, <2>3 DEF ChangeFacts
      <3> QED
        BY <1>0, <2>3, <3>1, SeenMore DEF ChecksInv
    <2> QED
      BY <2>2, <2>3
  <1>3. CASE UNCHANGED <<live, job>>
    BY <1>0, <1>3, SeenMore DEF ChecksInv
  <1>4. CASE job'.at = "queued" /\ job'.forms = {}
    BY <1>4 DEF ChecksInv, Validating
  <1>5. CASE Validate
    <2>1. /\ job'.at = "form" /\ job'.forms = {live.form} /\ job'.facts = {live.facts}
          /\ live' = live
      BY <1>0, <1>5 DEF Validate, Job
    <2> QED
      BY <1>0, <2>1 DEF ChecksInv, Validating
  <1>6. ASSUME Failed, live' = live, job.at # "idle" PROVE ChecksInv'
    <2>1. job'.at = "failed"
      BY <1>0, <1>6 DEF Failed, Job
    <2> QED
      BY <1>6, <2>1, StageKeeps DEF Failed
  <1>7. CASE CheckForm
    <2>1. CASE LiveForm.shape = Frozen.shape
      <3>1. /\ job' = [job EXCEPT !.at = "travel", !.seen = live.form] /\ live' = live
            /\ job.at = "form"
        BY <1>7, <2>1 DEF CheckForm
      <3>2. /\ job'.at = "travel" /\ job'.seen = live.form /\ job'.forms = job.forms
            /\ job'.facts = job.facts
        BY <1>0, <3>1 DEF Job
      <3> QED
        BY <1>0, <3>1, <3>2 DEF ChecksInv, Validating
    <2>2. CASE LiveForm.shape # Frozen.shape
      BY <1>6, <1>7, <2>2 DEF CheckForm
    <2> QED
      BY <2>1, <2>2
  <1>8. CASE CheckTravelForm
    <2>1. CASE LiveForm.travel = Frozen.travel
      <3>1. job' = [job EXCEPT !.at = "listed"] /\ live' = live /\ job.at = "travel"
        BY <1>8, <2>1 DEF CheckTravelForm
      <3>2. job'.at = "listed"
        BY <1>0, <3>1 DEF Job
      <3> QED
        BY <3>1, <3>2, StageKeeps
    <2>2. CASE LiveForm.travel # Frozen.travel
      BY <1>6, <1>8, <2>2 DEF CheckTravelForm
    <2> QED
      BY <2>1, <2>2
  <1>9. CASE CheckMembership
    <2>1. CASE Listed = Linked
      <3>1. /\ job' = [job EXCEPT !.at = "details", !.left = Linked] /\ live' = live
            /\ job.at = "listed"
        BY <1>9, <2>1 DEF CheckMembership
      <3>2. /\ job'.at = "details" /\ job'.left = Linked /\ job'.forms = job.forms
            /\ job'.facts = job.facts /\ job'.seen = job.seen /\ Linked' = Linked
        BY <1>0, <3>1 DEF Job, Linked
      <3>3. job'.left \subseteq Linked' /\ Linked' \ job'.left = {}
        BY <3>2
      <3> QED
        BY <1>0, <3>1, <3>2, <3>3 DEF ChecksInv, Validating
    <2>2. CASE Listed # Linked
      BY <1>6, <1>9, <2>2 DEF CheckMembership
    <2> QED
      BY <2>1, <2>2
  <1>10. CASE job.at = "details" /\ \E id \in job.left : CheckApproval(id)
    BY <1>10, ApprovalKeeps DEF CheckApproval
  <1>11. CASE Retry
    BY <1>4, <1>11, QueuedJob DEF Retry
  <1>12. CASE CreateApproval
    <2>1. job' = [job EXCEPT !.at = "created"] /\ live' = live /\ job.at = "valid"
      BY <1>12 DEF CreateApproval
    <2>2. job'.at = "created"
      BY <1>0, <2>1 DEF Job
    <2> QED
      BY <2>1, <2>2, StageKeeps
  <1>13. ASSUME job.at = "created", NEW ours, NEW command, NEW titles, ReadBack(ours, command, titles)
         PROVE  ChecksInv'
    <2>1. /\ job'.at \in {"submitted", "refused"} /\ job'.source = job.source /\ job'.seen = job.seen
          /\ job'.facts = job.facts /\ job'.forms = job.forms
      BY <1>0, <1>13 DEF ReadBack, Job
    <2>2. Linked' = Linked /\ \A x : Checked(x) => Checked(x)'
      BY <2>1, CheckedStays DEF Linked
    <2> QED
      BY <1>0, <1>13, <2>1, <2>2 DEF ChecksInv, Validating
  <1>14. CASE Lock
    BY <1>3, <1>4, <1>14, QueuedJob DEF Lock
  <1>15. \/ UNCHANGED <<live, job>> \/ Validate \/ CheckForm \/ CheckTravelForm \/ CheckMembership
         \/ job.at = "details" /\ \E id \in job.left : CheckApproval(id)
         \/ Retry \/ CreateApproval
         \/ job.at = "created" /\ \E ours, command, titles : ReadBack(ours, command, titles)
         \/ \E form \in DOMAIN Forms : EditForm(form)
         \/ \E facts \in DOMAIN Facts : ChangeFacts(facts)
         \/ Lock
    BY DEF Next, Refresh, Confirm, Create, ReadUpdate, WriteUpdate, StartSelect, CheckPick, StoreSelect,
           Review, BeginSubmit, Look, Adopt, Collect
  <1> QED
    BY <1>1, <1>2, <1>3, <1>5, <1>7, <1>8, <1>9, <1>10, <1>11, <1>12, <1>13, <1>14, <1>15

-----------------------------------------------------------------------------
(* The approval that is found *)

\* A command relates the approvals of its snapshot, in their order.
LEMMA CommandRelates ==
  ASSUME NEW j
  PROVE  CommandOf(j).relatedApprovals = [i \in DOMAIN j.source.related |-> j.source.related[i].id]
  <1>1. \A account, type, items, entries, related :
           FormValues(account, type, items, entries, related).relatedApprovals =
             [i \in DOMAIN related |-> related[i].id]
    BY DEF FormValues
  <1>2. \E account, type, items, entries :
           Snapshot(j.source).values = FormValues(account, type, items, entries, j.source.related)
    BY DEF Snapshot, Build
  <1>3. CommandOf(j).relatedApprovals = Snapshot(j.source).values.relatedApprovals
    BY DEF CommandOf, Command
  <1> QED
    BY <1>1, <1>2, <1>3

\* A command like ours has all its plain fields.
LEMMA CandidateIsPlain ==
  ASSUME NEW j, NEW command \in Candidates(CommandOf(j))
  PROVE  \A k \in Plain : command[k] = CommandOf(j)[k]
  <1> DEFINE ours == CommandOf(j)
  <1>1. Plain \subseteq DOMAIN ours /\ "relatedApprovals" \notin Plain
    BY DEF CommandOf, Command, Plain
  <1> HIDE DEF ours
  <1>2. command = ours \/ \E pick : command = [ours EXCEPT !.relatedApprovals = pick]
    BY DEF Candidates, ours
  <1>3. \A k \in Plain : command[k] = ours[k]
    BY <1>1, <1>2
  <1> QED
    BY <1>3 DEF ours

LEMMA ReadBackFinds ==
  ASSUME IInv, job.at = "created", NEW command \in Candidates(CommandOf(job)), NEW titles \in BOOLEAN,
         ReadBack(CommandOf(job), command, titles)
  PROVE  FoundIsOurs'
  <1> DEFINE ours == CommandOf(job)
             ids == [i \in DOMAIN job.source.related |-> job.source.related[i].id]
             shown == Shown(command, titles)
             c == command.relatedApprovals
  <1>1. Linkable(job.source.related) /\ ours.relatedApprovals = ids
    BY CommandRelates DEF IInv, SourceInv
  <1>2. 1 \in DOMAIN ids /\ \A i \in DOMAIN ids : ids[i] # Untitled
    <2>1. job.source.related # <<>> /\ job.source.related \in Seq({job.source.related[i] : i \in DOMAIN job.source.related})
      BY <1>1 DEF Linkable, Rows
    <2>2. 1 \in DOMAIN job.source.related
      BY <2>1
    <2> QED
      BY <1>1, <2>2 DEF Linkable, Rows, Ids
  <1>3. /\ shown.plain = [k \in Plain |-> command[k]]
        /\ shown.relation = IF titles THEN [i \in DOMAIN c |-> Untitled] ELSE c
        /\ shown.beside = IF titles THEN c ELSE <<>>
    BY DEF Shown
  <1> HIDE DEF ids, shown, ours
  <1>4. [i \in DOMAIN c |-> Untitled] # ids
    BY <1>2
  <1>5. <<>> # ids
    <2>1. 1 \notin DOMAIN <<>>
      OBVIOUS
    <2> QED
      BY <1>2, <2>1
  <1>6. RelationMatches(ours, shown) <=> c = ids
    BY <1>1, <1>3, <1>4, <1>5 DEF RelationMatches
  <1>7. \A k \in Plain : shown.plain[k] = ours[k]
    BY <1>3, CandidateIsPlain DEF ours
  <1>8. Matches(ours, shown) <=> c = ids
    BY <1>6, <1>7 DEF Matches
  <1>9. /\ job'.at = (IF Matches(ours, shown) THEN "submitted" ELSE "refused")
        /\ job'.found = c /\ job'.source = job.source
    <2>1. job' = [job EXCEPT !.at = IF Matches(ours, shown) THEN "submitted" ELSE "refused",
                             !.found = c]
      BY DEF ReadBack, ours, shown
    <2> HIDE DEF c
    <2> QED
      BY <2>1 DEF IInv, Shapes
  <1>10. job'.found = [i \in DOMAIN job'.source.related |-> job'.source.related[i].id] <=> c = ids
    BY <1>9 DEF ids
  <1> QED
    BY <1>8, <1>9, <1>10 DEF FoundIsOurs

LEMMA FoundStep ==
  ASSUME IInv, Next
  PROVE  FoundIsOurs'
  <1>0. FoundIsOurs /\ (job.at # "idle" => Job(job)) /\ (job'.at # "idle" => Job(job'))
    BY SourceStep DEF IInv, Inv, TypeOK, Shapes, Job, JobStates
  <1>1. CASE job'.at \notin {"submitted", "refused"}
    BY <1>1 DEF FoundIsOurs
  <1>2. CASE UNCHANGED job
    BY <1>0, <1>2 DEF FoundIsOurs
  <1>3. CASE \E form \in DOMAIN Forms : EditForm(form)
    <2>1. CASE Validating
      <3>1. job'.at = job.at
        BY <1>0, <1>3, <2>1 DEF EditForm, Validating, Job
      <3> QED
        BY <1>1, <2>1, <3>1 DEF Validating
    <2> QED
      BY <1>2, <1>3, <2>1 DEF EditForm
  <1>4. CASE \E facts \in DOMAIN Facts : ChangeFacts(facts)
    <2>1. CASE Validating
      <3>1. job'.at = job.at
        BY <1>0, <1>4, <2>1 DEF ChangeFacts, Validating, Job
      <3> QED
        BY <1>1, <2>1, <3>1 DEF Validating
    <2> QED
      BY <1>2, <1>4, <2>1 DEF ChangeFacts
  <1>5. CASE Validate \/ CheckForm \/ CheckTravelForm \/ CheckMembership \/ Retry \/ CreateApproval
    <2>1. job.at # "idle"
      BY <1>5 DEF Validate, CheckForm, CheckTravelForm, CheckMembership, Retry, CreateApproval, Validating
    <2>2. CASE Retry
      BY <1>1, <2>2, QueuedJob DEF Retry
    <2>3. ASSUME NEW at \in {"form", "travel", "listed", "details", "created", "failed"},
                 \/ job' = [job EXCEPT !.at = at]
                 \/ job' = [job EXCEPT !.at = at, !.seen = live.form]
                 \/ job' = [job EXCEPT !.at = at, !.left = Linked]
                 \/ job' = [job EXCEPT !.at = at, !.forms = {live.form}, !.facts = {live.facts}]
          PROVE  FoundIsOurs'
      <3>1. job'.at = at
        BY <1>0, <2>1, <2>3 DEF Job
      <3> QED
        BY <1>1, <2>3, <3>1
    <2> QED
      BY <1>5, <2>2, <2>3
      DEF Validate, CheckForm, CheckTravelForm, CheckMembership, CreateApproval, Failed
  <1>6. CASE job.at = "details" /\ \E id \in job.left : CheckApproval(id)
    <2>1. PICK id \in job.left : CheckApproval(id)
      BY <1>6
    <2>2. \/ job' = [job EXCEPT !.at = "failed"]
          \/ job' = [job EXCEPT !.left = job.left \ {id},
                                !.at = IF job.left = {id} THEN "valid" ELSE "details"]
      BY <2>1 DEF CheckApproval, Failed
    <2>3. job'.at \notin {"submitted", "refused"}
      BY <1>0, <1>6, <2>2 DEF Job
    <2> QED
      BY <1>1, <2>3
  <1>7. CASE job.at = "created" /\ \E command \in Candidates(CommandOf(job)), titles \in BOOLEAN :
                                     ReadBack(CommandOf(job), command, titles)
    BY <1>7, ReadBackFinds
  <1>8. CASE Lock
    BY <1>1, <1>2, <1>8, QueuedJob DEF Lock
  <1>9. \/ UNCHANGED job \/ Validate \/ CheckForm \/ CheckTravelForm \/ CheckMembership
        \/ job.at = "details" /\ \E id \in job.left : CheckApproval(id)
        \/ Retry \/ CreateApproval
        \/ job.at = "created" /\ \E command \in Candidates(CommandOf(job)), titles \in BOOLEAN :
                                    ReadBack(CommandOf(job), command, titles)
        \/ \E form \in DOMAIN Forms : EditForm(form)
        \/ \E facts \in DOMAIN Facts : ChangeFacts(facts)
        \/ Lock
    BY DEF Next, Refresh, Confirm, Create, ReadUpdate, WriteUpdate, StartSelect, CheckPick, StoreSelect,
           Review, BeginSubmit, Look, Adopt, Collect
  <1> QED
    BY <1>2, <1>3, <1>4, <1>5, <1>6, <1>7, <1>8, <1>9

-----------------------------------------------------------------------------
(* The theorems *)

LEMMA StepIInv ==
  ASSUME IInv, [Next]_vars
  PROVE  IInv'
  <1>1. CASE Next
    <2>1. GoodDraft(draft', catalog.version) /\ catalog'.version \in catalog.version..MaxVersion
      BY <1>1, DraftStep, WorldStep
    <2>2. catalog.version \in Nat
      BY LimitsAssumption DEF IInv, Inv, TypeOK
    <2>3. draft'.version \in 0..catalog'.version
      BY <2>1, <2>2 DEF GoodDraft
    <2>4. AccountBelongsToTheApprovals' /\ DraftInv'
      BY <2>1 DEF GoodDraft, AccountBelongsToTheApprovals, DraftInv
    <2>5. TypeOK'
      BY <1>1, <2>1, <2>3, WorldStep, SourceStep DEF GoodDraft, TypeOK, JobStates
    <2>6. Shapes'
      BY <1>1, <2>1, WorldStep, SourceStep, SelectStep DEF GoodDraft, Shapes, Job
    <2> QED
      BY <1>1, <2>4, <2>5, <2>6, UpdateStep, SelectStep, SubmitStep, SourceStep, ChecksStep, FoundStep
      DEF IInv, Inv
  <1>2. CASE UNCHANGED vars
    <2>1. live' = live /\ catalog' = catalog /\ draft' = draft /\ update' = update
          /\ select' = select /\ submit' = submit /\ job' = job
      BY <1>2 DEF vars
    <2>2. TypeOK' /\ AccountBelongsToTheApprovals' /\ DraftInv' /\ UpdateInv'
      BY <2>1 DEF IInv, Inv, TypeOK, AccountBelongsToTheApprovals, DraftInv, UpdateInv
    <2>3. Shapes'
      BY <2>1 DEF IInv, Shapes
    <2>4. SelectInv'
      BY <2>1 DEF IInv, SelectInv
    <2>5. SubmitInv'
      BY <2>1 DEF IInv, SubmitInv
    <2>6. SourceInv' /\ FoundIsOurs'
      BY <2>1 DEF IInv, SourceInv, SubmittedAsReviewed, FoundIsOurs
    <2>7. ChecksInv'
      BY <2>1, SeenMore DEF IInv, ChecksInv
    <2> QED
      BY <2>2, <2>3, <2>4, <2>5, <2>6, <2>7 DEF IInv, Inv
  <1> QED
    BY <1>1, <1>2

LEMMA IInvHolds == Spec => []IInv
  BY InitIInv, StepIInv, PTL DEF Spec

\* Types, and at every moment the draft's account is that of the approvals it links, whatever
\* saves and links of other pages are under way (reimbursement_drafts.py).
THEOREM DraftKeepsAccount == Spec => []Inv
  <1>1. IInv => Inv
    BY DEF IInv
  <1> QED
    BY <1>1, IInvHolds, PTL

\* What is submitted is what the page showed when it was submitted and what the locked draft
\* holds (create_submission).
THEOREM ReviewedIsSubmitted == Spec => []SubmittedAsReviewed
  <1>1. IInv => SubmittedAsReviewed
    BY DEF IInv, SourceInv
  <1> QED
    BY <1>1, IInvHolds, PTL

\* An approval is created only for approvals that DingTalk showed as the snapshot has them, with
\* their account, since the validation began (OaSubmissionWorker.validate).
THEOREM LiveApprovals == Spec => []CreatedFromLiveApprovals
  <1>1. ASSUME IInv, job.at \in {"valid", "created", "submitted", "refused"},
               NEW r \in ToSet(job.source.related)
        PROVE  \E facts \in job.facts, form \in job.forms :
                 LET f == Facts[facts][r.id] IN
                 /\ f.state = "agree" /\ f.start = r.start /\ f.end = r.end /\ f.own = r.own
                 /\ f.department = r.department
                 /\ {o.value : o \in Resolved(form, f.text)} = {job.source.account}
    <2>1. r.id \in Linked /\ RowOf(r.id) = r
      BY <1>1, RowFound DEF IInv, SourceInv
    <2>2. Checked(r.id) /\ job.seen \in job.forms
      BY <1>1, <2>1 DEF IInv, ChecksInv
    <2> QED
      BY <2>1, <2>2 DEF Checked, Agreed
  <1>2. IInv => CreatedFromLiveApprovals
    BY <1>1 DEF CreatedFromLiveApprovals
  <1> QED
    BY <1>2, IInvHolds, PTL

\* The approval that is taken for the reimbursement's links the same approvals in their order, and
\* its own is never refused, by ids or by titles (strict_instance_matches_command).
THEOREM OursIsFound == Spec => []FoundIsOurs
  <1>1. IInv => FoundIsOurs
    BY DEF IInv
  <1> QED
    BY <1>1, IInvHolds, PTL

\* Approvals are stored with the account they have among the options of the catalog at that moment
\* (_store_related_approvals, CatalogBinding).
THEOREM AccountIsCurrent == Spec => AccountingIsCurrent
  <1> DEFINE Current == draft'.related # draft.related /\ draft'.related # <<>> =>
               \A i \in DOMAIN draft'.related :
                 \E f \in DOMAIN Facts : LET fact == Facts[f][draft'.related[i].id] IN
                   {o.value : o \in Resolved(catalog.form, fact.text)} = {draft'.account}
  <1>1. ASSUME IInv, Next PROVE Current
    <2>0. Shapes
      BY <1>1 DEF IInv
    <2>1. CASE StoreSelect
      <3>1. CASE draft' = draft
        BY <3>1
      <3>2. CASE draft' # draft
        <4>1. /\ draft'.related = select.rows /\ draft'.account = Account(select.rows)
              /\ select.form = catalog.form /\ select.at = "store"
          BY <2>0, <2>1, <3>2 DEF StoreSelect, Changed, SameBinding, Shapes
        <4>2. \A i \in DOMAIN select.rows :
                 /\ select.rows[i].account = select.rows[1].account
                 /\ StandsFor(select.form, select.rows[i].id, select.rows[i].account)
          BY <1>1, <4>1 DEF IInv, SelectInv
        <4>3. select.rows # <<>> => Account(select.rows) = select.rows[1].account
          BY DEF Account
        <4> QED
          BY <4>1, <4>2, <4>3 DEF StandsFor
      <3> QED
        BY <3>1, <3>2
    <2>2. CASE \E k \in DOMAIN Contents : Create(k)
      BY <2>2 DEF Create
    <2>3. CASE WriteUpdate
      BY <2>0, <2>3 DEF WriteUpdate, Changed, Shapes
    <2>4. CASE Review
      BY <2>0, <2>4 DEF Review, Shapes
    <2>5. CASE Lock
      BY <2>0, <2>5 DEF Lock, Shapes
    <2>6. CASE UNCHANGED draft
      BY <2>6
    <2>7. \/ StoreSelect \/ (\E k \in DOMAIN Contents : Create(k)) \/ WriteUpdate \/ Review \/ Lock
          \/ UNCHANGED draft
      BY <1>1
      DEF Next, EditForm, ChangeFacts, Refresh, Confirm, ReadUpdate, StartSelect, CheckPick, BeginSubmit,
          Look, Adopt, Collect, Validate, CheckForm, CheckTravelForm, CheckMembership, CheckApproval,
          Retry, CreateApproval, ReadBack
    <2> QED
      BY <2>1, <2>2, <2>3, <2>4, <2>5, <2>6, <2>7
  <1>2. ASSUME IInv, [Next]_vars PROVE [Current]_vars
    BY <1>1, <1>2
  <1> QED
    BY <1>2, IInvHolds, PTL DEF Spec, AccountingIsCurrent

-----------------------------------------------------------------------------
(* The trips of a claim, merged: the subsidies that intake and the drafts calculate *)

\* The trips of a claim, one for an approval.
Itinerary(S) ==
  /\ IsFiniteSet(S)
  /\ \A t \in S : Dated(t)
  /\ \A t, u \in S : t # u => t.approval # u.approval

\* A set of naturals has a least one.
LEMMA Least ==
  ASSUME NEW S, S \subseteq Nat, S # {}
  PROVE  \E f \in S : \A g \in S : f <= g
  <1>1. IsWellFoundedOn(OpToRel(<, Nat), Nat)
    BY NatLessThanWellFounded
  <1>2. \E f \in S : \A g \in S : <<g, f>> \notin OpToRel(<, Nat)
    BY <1>1, WFMin
  <1>3. ASSUME NEW f \in Nat, NEW g \in Nat, <<g, f>> \notin OpToRel(<, Nat)
        PROVE  f <= g
    <2>1. <<g, f>> \in Nat \X Nat /\ <<g, f>>[1] = g /\ <<g, f>>[2] = f
      OBVIOUS
    <2> QED
      BY <1>3, <2>1 DEF OpToRel
  <1> QED
    BY <1>2, <1>3

\* A finite set has a first member in any strict order of its members.
LEMMA FirstOf ==
  ASSUME NEW S, IsFiniteSet(S), S # {}, NEW R,
         \A x \in S : <<x, x>> \notin R,
         \A x, y, z \in S : <<x, y>> \in R /\ <<y, z>> \in R => <<x, z>> \in R
  PROVE  \E x \in S : \A y \in S : <<y, x>> \notin R
  <1> DEFINE Preds(x) == {y \in S : <<y, x>> \in R}
             Counts == {Cardinality(Preds(x)) : x \in S}
  <1>1. \A x \in S : IsFiniteSet(Preds(x)) /\ Cardinality(Preds(x)) \in Nat
    BY FS_Subset, FS_CardinalityType
  <1>2. Counts \in SUBSET Nat /\ Counts # {}
    <2> HIDE DEF Preds
    <2> QED BY <1>1
  <1>3. PICK n \in Counts : \A m \in Counts : n <= m
    <2> HIDE DEF Counts
    <2> QED BY <1>2, Least
  <1>4. PICK x \in S : n = Cardinality(Preds(x))
    <2> HIDE DEF Preds
    <2> QED BY <1>3
  <1>5. SUFFICES ASSUME NEW y \in S, <<y, x>> \in R PROVE FALSE
    OBVIOUS
  <1>6. Preds(y) \in SUBSET Preds(x)
    BY <1>5
  <1>7. y \in Preds(x) /\ y \notin Preds(y)
    BY <1>5
  <1>8. n <= Cardinality(Preds(y))
    <2> HIDE DEF Preds
    <2> QED BY <1>3
  <1> HIDE DEF Preds
  <1>9. Cardinality(Preds(y)) <= Cardinality(Preds(x)) /\ Cardinality(Preds(y)) # Cardinality(Preds(x))
    BY <1>1, <1>6, <1>7, FS_Subset
  <1> QED BY <1>1, <1>4, <1>8, <1>9

\* A later half-day is not on an earlier day.
LEMMA DayOrder ==
  /\ \A h \in Int : Day(h) \in Int
  /\ \A h, k \in Int : h <= k => Day(h) <= Day(k)
  BY DEF Day

\* A finite set of numbers has its minimum and its maximum.
LEMMA Extremes ==
  ASSUME NEW N, IsFiniteSet(N), N # {}, N \subseteq Int
  PROVE  /\ Min(N) \in N /\ \A n \in N : Min(N) <= n
         /\ Max(N) \in N /\ \A n \in N : Max(N) >= n
  <1>1. \E m \in N : \A n \in N : m <= n
    <2> DEFINE R == {p \in N \X N : p[1] < p[2]}
    <2>1. \A x, y \in N : <<x, y>> \in R <=> x < y
      OBVIOUS
    <2> HIDE DEF R
    <2>2. \A x \in N : <<x, x>> \notin R
      BY <2>1
    <2>3. \A x, y, z \in N : <<x, y>> \in R /\ <<y, z>> \in R => <<x, z>> \in R
      BY <2>1
    <2>4. PICK m \in N : \A y \in N : <<y, m>> \notin R
      BY <2>2, <2>3, FirstOf
    <2>5. \A y \in N : ~(y < m)
      BY <2>1, <2>4
    <2> QED BY <2>5
  <1>2. \E m \in N : \A n \in N : m >= n
    <2> DEFINE R == {p \in N \X N : p[1] > p[2]}
    <2>1. \A x, y \in N : <<x, y>> \in R <=> x > y
      OBVIOUS
    <2> HIDE DEF R
    <2>2. \A x \in N : <<x, x>> \notin R
      BY <2>1
    <2>3. \A x, y, z \in N : <<x, y>> \in R /\ <<y, z>> \in R => <<x, z>> \in R
      BY <2>1
    <2>4. PICK m \in N : \A y \in N : <<y, m>> \notin R
      BY <2>2, <2>3, FirstOf
    <2>5. \A y \in N : ~(y > m)
      BY <2>1, <2>4
    <2> QED BY <2>5
  <1> QED BY <1>1, <1>2 DEF Min, Max

\* Before orders the trips of a claim.
LEMMA BeforeOrder ==
  ASSUME NEW S, Itinerary(S)
  PROVE  /\ \A t \in S : ~Before(t, t)
         /\ \A t, u, v \in S : Before(t, u) /\ Before(u, v) => Before(t, v)
         /\ \A t, u \in S : t = u \/ Before(t, u) \/ Before(u, t)
         /\ \A t, u \in S : ~Before(t, u) => Day(u.from) <= Day(t.from)
  <1>1. \A t \in S : /\ Day(t.from) \in Int /\ Day(t.to) \in Int /\ t.approval \in Int
    BY DayOrder DEF Itinerary, Dated
  <1>2. \A t, u \in S : t # u => t.approval # u.approval
    BY DEF Itinerary
  <1> QED BY <1>1, <1>2 DEF Before

\* Some trip comes first, and some last.
LEMMA FirstTrip ==
  ASSUME NEW S, Itinerary(S), NEW T \in SUBSET S, T # {}
  PROVE  /\ \E t \in T : \A u \in T : ~Before(u, t)
         /\ \E t \in T : \A u \in T : ~Before(t, u)
  <1>0. IsFiniteSet(T)
    BY FS_Subset DEF Itinerary
  <1>1. \E t \in T : \A u \in T : ~Before(u, t)
    <2> DEFINE R == {p \in T \X T : Before(p[1], p[2])}
    <2>1. \A x, y \in T : <<x, y>> \in R <=> Before(x, y)
      OBVIOUS
    <2> HIDE DEF R
    <2>2. PICK m \in T : \A y \in T : <<y, m>> \notin R
      BY <1>0, <2>1, BeforeOrder, FirstOf
    <2> QED BY <2>1, <2>2
  <1>2. \E t \in T : \A u \in T : ~Before(t, u)
    <2> DEFINE R == {p \in T \X T : Before(p[2], p[1])}
    <2>1. \A x, y \in T : <<x, y>> \in R <=> Before(y, x)
      OBVIOUS
    <2> HIDE DEF R
    <2>2. PICK m \in T : \A y \in T : <<y, m>> \notin R
      BY <1>0, <2>1, BeforeOrder, FirstOf
    <2> QED BY <2>1, <2>2
  <1> QED BY <1>1, <1>2

\* Every trip is in the group of a head: the last head it is not before.
LEMMA Headed ==
  ASSUME NEW S, Itinerary(S), NEW t \in S
  PROVE  \E h \in Heads(S) : t \in Group(S, h)
  <1> DEFINE T == {h \in Heads(S) : ~Before(t, h)}
  <1>1. PICK f \in S : \A u \in S : ~Before(u, f)
    BY FirstTrip
  <1>2. T # {} /\ T \in SUBSET S
    BY <1>1 DEF Heads
  <1>3. PICK h \in T : \A u \in T : ~Before(h, u)
    <2> HIDE DEF T
    <2> QED BY <1>2, FirstTrip
  <1> QED BY <1>3 DEF Group

\* A head is in its own group.
LEMMA HeadLeads ==
  ASSUME NEW S, Itinerary(S), NEW h \in Heads(S)
  PROVE  h \in Group(S, h)
  BY BeforeOrder DEF Group, Heads

\* The trips of a group end before the day on which any trip of a later group begins.
LEMMA GroupsApart ==
  ASSUME NEW S, Itinerary(S), NEW h \in Heads(S), NEW k \in Heads(S), Before(h, k),
         NEW t \in Group(S, h), NEW u \in Group(S, k)
  PROVE  Day(t.to) < Day(u.from)
  <1>1. t \in S /\ u \in S /\ k \in S
    BY DEF Group, Heads
  <1>2. Day(t.to) < Day(k.from)
    BY <1>1 DEF Group, Heads
  <1>3. Day(k.from) <= Day(u.from)
    BY <1>1, BeforeOrder DEF Group
  <1>4. Day(t.to) \in Int /\ Day(k.from) \in Int /\ Day(u.from) \in Int
    BY <1>1, DayOrder DEF Itinerary, Dated
  <1> QED BY <1>2, <1>3, <1>4

\* A merged trip reaches from the first to the last half-day of its group.
LEMMA MergedSpan ==
  ASSUME NEW S, Itinerary(S), NEW h \in Heads(S)
  PROVE  LET m == MergedGroup(h, Group(S, h))
         IN /\ m.purpose = h.purpose
            /\ \E a \in Group(S, h) : m.from = a.from
            /\ \E b \in Group(S, h) : m.to = b.to
            /\ \A t \in Group(S, h) : m.from <= t.from /\ t.to <= m.to
  <1> DEFINE G == Group(S, h)
             F == {t.from : t \in G}
             E == {t.to : t \in G}
  <1>1. G \in SUBSET S /\ h \in G /\ h \in S
    BY HeadLeads DEF Group, Heads
  <1>2. IsFiniteSet(G)
    BY <1>1, FS_Subset DEF Itinerary
  <1>3. IsFiniteSet(F) /\ F # {} /\ F \subseteq Int
    <2>1. [t \in G |-> t.from] \in Surjection(G, F)
      BY DEF Surjection
    <2> HIDE DEF F
    <2>2. IsFiniteSet(F)
      BY <1>2, <2>1, FS_Surjection
    <2> QED BY <1>1, <2>2 DEF F, Itinerary, Dated
  <1>4. IsFiniteSet(E) /\ E # {} /\ E \subseteq Int
    <2>1. [t \in G |-> t.to] \in Surjection(G, E)
      BY DEF Surjection
    <2> HIDE DEF E
    <2>2. IsFiniteSet(E)
      BY <1>2, <2>1, FS_Surjection
    <2> QED BY <1>1, <2>2 DEF E, Itinerary, Dated
  <1>5. Dated(h)
    BY <1>1 DEF Itinerary, Dated
  <1>6. /\ MergedGroup(h, G).purpose = h.purpose
        /\ MergedGroup(h, G).from = Min(F)
        /\ MergedGroup(h, G).to = Max(E)
    <2> HIDE DEF G
    <2> QED BY <1>5 DEF MergedGroup, Dated
  <1>7. Min(F) \in F /\ \A n \in F : Min(F) <= n
    <2> HIDE DEF F
    <2> QED BY <1>3, Extremes
  <1>8. Max(E) \in E /\ \A n \in E : Max(E) >= n
    <2> HIDE DEF E
    <2> QED BY <1>4, Extremes
  <1>9. \A t \in G : Min(F) <= t.from /\ t.to <= Max(E)
    <2>1. \A t \in G : t.from \in F /\ t.to \in E
      OBVIOUS
    <2> HIDE DEF F, E, G
    <2> QED BY <1>3, <1>4, <1>7, <1>8, <2>1
  <1>10. (\E a \in G : Min(F) = a.from) /\ (\E b \in G : Max(E) = b.to)
    BY <1>7, <1>8
  <1> HIDE DEF F, E
  <1> QED BY <1>6, <1>9, <1>10

\* A merged trip reaches over no day that none of its trips covers.
LEMMA NoGap ==
  ASSUME NEW S, Itinerary(S), NEW h \in Heads(S), NEW d \in Days(MergedGroup(h, Group(S, h)))
  PROVE  \E t \in S : d \in Days(t)
  <1> DEFINE m == MergedGroup(h, Group(S, h))
             Later == {t \in Group(S, h) : d < Day(t.from)}
  <1>1. PICK a \in Group(S, h) : m.from = a.from
    BY MergedSpan
  <1>2. PICK b \in Group(S, h) : m.to = b.to
    BY MergedSpan
  <1>3. Group(S, h) \in SUBSET S /\ h \in S
    BY DEF Group, Heads
  <1>4. \A t \in S : Day(t.from) \in Int /\ Day(t.to) \in Int /\ Day(t.from) <= Day(t.to)
    BY DayOrder DEF Itinerary, Dated
  <1>5. d \in Int /\ Day(a.from) <= d /\ d <= Day(b.to)
    <2> HIDE DEF m
    <2>1. d \in Day(m.from)..Day(m.to)
      BY DEF Days, m
    <2> QED BY <1>1, <1>2, <1>3, <1>4, <2>1
  <1>6. SUFFICES ASSUME \A t \in S : d \notin Days(t) PROVE FALSE
    OBVIOUS
  <1>7. \A t \in S : Day(t.to) < d \/ d < Day(t.from)
    BY <1>4, <1>5, <1>6 DEF Days
  <1>8. b \in Later
    BY <1>3, <1>4, <1>5, <1>7
  <1>9. PICK g \in Later : \A u \in Later : ~Before(u, g)
    BY <1>3, <1>8, FirstTrip
  <1>10. g \in S /\ g \in Group(S, h) /\ ~Before(g, h) /\ d < Day(g.from)
    BY <1>3, <1>9 DEF Group
  <1>11. \A u \in S : Before(u, g) => Day(u.to) < Day(g.from)
    <2> SUFFICES ASSUME NEW u \in S, Before(u, g) PROVE Day(u.to) < Day(g.from)
      OBVIOUS
    <2>1. CASE u \in Group(S, h)
      <3>1. ~(d < Day(u.from))
        BY <1>9, <2>1
      <3> QED BY <1>4, <1>5, <1>7, <1>10, <3>1
    <2>2. CASE Before(u, h)
      <3>1. Day(u.to) < Day(h.from)
        BY <2>2 DEF Heads
      <3>2. Day(h.from) <= Day(g.from)
        BY <1>3, <1>10, BeforeOrder
      <3> QED BY <1>3, <1>4, <1>10, <3>1, <3>2
    <2>3. CASE u \notin Group(S, h) /\ ~Before(u, h)
      <3>1. PICK k \in Heads(S) : Before(h, k) /\ ~Before(u, k)
        BY <2>3 DEF Group
      <3>2. Before(g, k) /\ k \in S
        BY <1>10, <3>1 DEF Group, Heads
      <3> QED BY <1>10, <3>1, <3>2, BeforeOrder
    <2> QED BY <2>1, <2>2, <2>3
  <1>12. g \in Heads(S)
    BY <1>10, <1>11 DEF Heads
  <1>13. g = h
    <2>1. ~Before(h, g)
      BY <1>10, <1>12, BeforeOrder DEF Group
    <2> QED BY <1>3, <1>10, <2>1, BeforeOrder
  <1>14. Day(h.from) <= Day(a.from)
    BY <1>1, <1>3, BeforeOrder DEF Group
  <1> QED BY <1>3, <1>4, <1>5, <1>10, <1>13, <1>14

\* The trips that are merged with one another.
OfPurpose(T, p) == {t \in T : t.purpose = p}

\* They are an itinerary of their own, and what is merged from them keeps their purpose.
LEMMA MergedAre ==
  ASSUME NEW T, Itinerary(T), NEW p
  PROVE  /\ Itinerary(OfPurpose(T, p))
         /\ \A h \in Heads(OfPurpose(T, p)) :
              MergedGroup(h, Group(OfPurpose(T, p), h)).purpose = p
  <1>1. Itinerary(OfPurpose(T, p))
    <2>1. IsFiniteSet(OfPurpose(T, p))
      BY FS_Subset DEF Itinerary, OfPurpose
    <2> QED BY <2>1 DEF Itinerary, OfPurpose
  <1>2. \A h \in Heads(OfPurpose(T, p)) : h.purpose = p
    BY DEF Heads, OfPurpose
  <1> DEFINE S == OfPurpose(T, p)
  <1> HIDE DEF S
  <1>3. \A h \in Heads(S) : MergedGroup(h, Group(S, h)).purpose = h.purpose
    BY <1>1, MergedSpan DEF S
  <1> QED BY <1>1, <1>2, <1>3 DEF S

\* A merged trip is that of one head of one purpose.
LEMMA MergedFrom ==
  ASSUME NEW T, NEW m
  PROVE  m \in Merged(T) <=>
           \E p \in {t.purpose : t \in T} : \E h \in Heads(OfPurpose(T, p)) :
             m = MergedGroup(h, Group(OfPurpose(T, p), h))
  <1>1. Merged(T) =
          UNION {{MergedGroup(h, Group(OfPurpose(T, p), h)) : h \in Heads(OfPurpose(T, p))} :
                   p \in {t.purpose : t \in T}}
    BY DEF Merged, OfPurpose
  <1> QED BY <1>1

\* Every trip is inside a merged trip of its purpose.
LEMMA MergedCovers ==
  ASSUME NEW T, Itinerary(T), NEW t \in T
  PROVE  \E m \in Merged(T) : m.purpose = t.purpose /\ m.from <= t.from /\ t.to <= m.to
  <1> DEFINE S == OfPurpose(T, t.purpose)
  <1>1. Itinerary(S) /\ t \in S
    <2>1. Itinerary(S)
      BY MergedAre
    <2>2. t \in S
      BY DEF OfPurpose
    <2> QED BY <2>1, <2>2
  <1>2. PICK h \in Heads(S) : t \in Group(S, h)
    <2> HIDE DEF S
    <2> QED BY <1>1, Headed
  <1> DEFINE m == MergedGroup(h, Group(S, h))
  <1>3. m \in Merged(T)
    BY MergedFrom
  <1>4. m.purpose = t.purpose
    BY MergedAre
  <1>5. m.from <= t.from /\ t.to <= m.to
    <2> HIDE DEF S
    <2> QED BY <1>1, <1>2, MergedSpan
  <1> QED BY <1>3, <1>4, <1>5

\* Merged trips of a purpose share no day, and reach over none that no trip covers.
LEMMA MergedOrdered ==
  ASSUME NEW T, Itinerary(T), NEW m \in Merged(T)
  PROVE  /\ m.from \in Int /\ m.to \in Int
         /\ \A n \in Merged(T) : m # n /\ m.purpose = n.purpose =>
              Day(m.to) < Day(n.from) \/ Day(n.to) < Day(m.from)
         /\ \A d \in Days(m) : \E t \in T : t.purpose = m.purpose /\ d \in Days(t)
  <1>1. PICK p \in {t.purpose : t \in T} :
          \E h \in Heads(OfPurpose(T, p)) : m = MergedGroup(h, Group(OfPurpose(T, p), h))
    BY MergedFrom
  <1> DEFINE S == OfPurpose(T, p)
  <1>2. PICK h \in Heads(S) : m = MergedGroup(h, Group(S, h))
    BY <1>1
  <1>3. Itinerary(S) /\ m.purpose = p
    BY <1>2, MergedAre
  <1>4. PICK a \in Group(S, h), b \in Group(S, h) : m.from = a.from /\ m.to = b.to
    <2> HIDE DEF S
    <2> QED BY <1>2, <1>3, MergedSpan
  <1>5. Group(S, h) \in SUBSET S
    BY DEF Group
  <1>6. m.from \in Int /\ m.to \in Int
    <2> HIDE DEF S
    <2> QED BY <1>3, <1>4, <1>5 DEF Itinerary, Dated
  <1>7. ASSUME NEW n \in Merged(T), m # n, m.purpose = n.purpose
        PROVE  Day(m.to) < Day(n.from) \/ Day(n.to) < Day(m.from)
    <2>1. PICK q \in {t.purpose : t \in T} :
            \E k \in Heads(OfPurpose(T, q)) : n = MergedGroup(k, Group(OfPurpose(T, q), k))
      BY MergedFrom
    <2>2. n.purpose = q
      BY <2>1, MergedAre
    <2>3. PICK k \in Heads(S) : n = MergedGroup(k, Group(S, k))
      BY <1>3, <1>7, <2>1, <2>2
    <2> HIDE DEF S
    <2>4. PICK c \in Group(S, k), e \in Group(S, k) : n.from = c.from /\ n.to = e.to
      BY <1>3, <2>3, MergedSpan
    <2>5. Before(h, k) \/ Before(k, h)
      <3>1. h # k /\ h \in S /\ k \in S
        BY <1>2, <1>7, <2>3 DEF Heads
      <3> QED BY <1>3, <3>1, BeforeOrder
    <2>6. CASE Before(h, k)
      BY <1>3, <1>4, <2>4, <2>6, GroupsApart
    <2>7. CASE Before(k, h)
      BY <1>3, <1>4, <2>4, <2>7, GroupsApart
    <2> QED BY <2>5, <2>6, <2>7
  <1>8. ASSUME NEW d \in Days(m)
        PROVE  \E t \in T : t.purpose = m.purpose /\ d \in Days(t)
    <2>1. PICK t \in S : d \in Days(t)
      <3> HIDE DEF S
      <3> QED BY <1>2, <1>3, <1>8, NoGap
    <2> QED BY <1>3, <2>1 DEF OfPurpose
  <1> QED BY <1>6, <1>7, <1>8

-----------------------------------------------------------------------------
(* A claim being edited: its lines are those of the merged trips *)

\* The lines, unless the claim was refused, are those of the claim as it is now.
ClaimInv == Itinerary(trips) /\ (lines # {} => lines = Subsidies(trips))

\* A line has the days of a merged trip, and every merged trip has a line.
LEMMA ClaimSpans ==
  ASSUME ClaimInv, lines # {}
  PROVE  /\ \A m \in Merged(trips) : \E l \in lines :
              l.purpose = m.purpose /\ l.from = m.from /\ l.to = m.to
         /\ \A l \in lines : \E m \in Merged(trips) :
              l = Line(m) /\ l.purpose = m.purpose /\ l.from = m.from /\ l.to = m.to
  <1>1. lines = {Line(m) : m \in Merged(trips)}
    BY DEF ClaimInv, Subsidies
  <1>2. \A m : /\ Line(m).purpose = m.purpose
               /\ Line(m).from = m.from
               /\ Line(m).to = m.to
    BY DEF Line
  <1> QED BY <1>1, <1>2

\* What is merged apart is paid apart.
LEMMA LinesApart ==
  ASSUME ClaimInv
  PROVE  LinesAreApart
  <1> SUFFICES ASSUME lines # {}
               PROVE  /\ \A t \in trips : Cardinality({l \in lines : l.purpose = t.purpose
                                                       /\ HalfDays(t) \subseteq l.from..l.to}) = 1
                      /\ \A k, l \in lines : k # l /\ k.purpose = l.purpose =>
                           Days(k) \cap Days(l) = {}
                      /\ \A l \in lines : \A d \in Days(l) :
                           \E t \in trips : t.purpose = l.purpose /\ d \in Days(t)
    BY DEF LinesAreApart
  <1>0. Itinerary(trips)
    BY DEF ClaimInv
  <1>1. ASSUME NEW k \in lines, NEW l \in lines, k # l, k.purpose = l.purpose
        PROVE  Day(k.to) < Day(l.from) \/ Day(l.to) < Day(k.from)
    <2>1. PICK m \in Merged(trips) :
            k = Line(m) /\ k.purpose = m.purpose /\ k.from = m.from /\ k.to = m.to
      BY ClaimSpans
    <2>2. PICK n \in Merged(trips) :
            l = Line(n) /\ l.purpose = n.purpose /\ l.from = n.from /\ l.to = n.to
      BY ClaimSpans
    <2>3. m # n
      BY <1>1, <2>1, <2>2
    <2> QED BY <1>0, <1>1, <2>1, <2>2, <2>3, MergedOrdered
  <1>2. \A l \in lines : /\ l.from \in Int /\ l.to \in Int
                         /\ Day(l.from) \in Int /\ Day(l.to) \in Int
    BY <1>0, ClaimSpans, MergedOrdered, DayOrder
  <1>3. ASSUME NEW t \in trips
        PROVE  Cardinality({l \in lines : l.purpose = t.purpose
                                          /\ HalfDays(t) \subseteq l.from..l.to}) = 1
    <2>1. t.from \in Int /\ t.to \in Int /\ t.from <= t.to
      BY <1>0 DEF Itinerary, Dated
    <2>2. PICK m \in Merged(trips) : m.purpose = t.purpose /\ m.from <= t.from /\ t.to <= m.to
      BY <1>0, MergedCovers
    <2>3. PICK k \in lines : k.purpose = m.purpose /\ k.from = m.from /\ k.to = m.to
      BY ClaimSpans
    <2>4. HalfDays(t) \subseteq k.from..k.to
      BY <1>2, <2>1, <2>2, <2>3 DEF HalfDays
    <2>5. ASSUME NEW l \in lines, l.purpose = t.purpose, HalfDays(t) \subseteq l.from..l.to
          PROVE  l = k
      <3>1. t.from \in HalfDays(t)
        BY <2>1 DEF HalfDays
      <3>2. l.from <= t.from /\ t.from <= l.to
        BY <1>2, <2>5, <3>1
      <3>3. k.from <= t.from /\ t.from <= k.to
        BY <1>2, <2>4, <3>1
      <3>4. /\ Day(l.from) <= Day(t.from) /\ Day(t.from) <= Day(l.to)
            /\ Day(k.from) <= Day(t.from) /\ Day(t.from) <= Day(k.to) /\ Day(t.from) \in Int
        BY <1>2, <2>1, <3>2, <3>3, DayOrder
      <3> SUFFICES ASSUME l # k PROVE FALSE
        OBVIOUS
      <3>5. Day(k.to) < Day(l.from) \/ Day(l.to) < Day(k.from)
        BY <1>1, <2>2, <2>3, <2>5
      <3> QED BY <1>2, <3>4, <3>5
    <2>6. {l \in lines : l.purpose = t.purpose /\ HalfDays(t) \subseteq l.from..l.to} = {k}
      BY <2>2, <2>3, <2>4, <2>5
    <2> QED BY <2>6, FS_Singleton
  <1>4. ASSUME NEW k \in lines, NEW l \in lines, k # l, k.purpose = l.purpose
        PROVE  Days(k) \cap Days(l) = {}
    BY <1>1, <1>2, <1>4 DEF Days
  <1>5. ASSUME NEW l \in lines, NEW d \in Days(l)
        PROVE  \E t \in trips : t.purpose = l.purpose /\ d \in Days(t)
    <2>1. PICK m \in Merged(trips) : l.purpose = m.purpose /\ l.from = m.from /\ l.to = m.to
      BY ClaimSpans
    <2>2. d \in Days(m)
      BY <1>5, <2>1 DEF Days
    <2> QED BY <1>0, <2>1, <2>2, MergedOrdered
  <1> QED BY <1>3, <1>4, <1>5

\* A save calculates the lines of what it saves.
LEMMA SavedClaim ==
  ASSUME NEW C, Itinerary(C), Save(C)
  PROVE  ClaimInv'
  BY DEF Save, ClaimInv, Subsidies, Itinerary

\* A step claims another approval, or replaces a trip by one of the same dates.
LEMMA ClaimStep ==
  ASSUME ClaimInv, [ClaimNext]_claimVars
  PROVE  ClaimInv'
  <1>0. Itinerary(trips)
    BY DEF ClaimInv
  <1>1. CASE UNCHANGED claimVars
    BY <1>1 DEF ClaimInv, Itinerary, claimVars, Subsidies
  <1>2. ASSUME NEW t \in Trips, Claim(t)
        PROVE  ClaimInv'
    <2>1. IsFiniteSet(trips \cup {t})
      BY <1>0, FS_AddElement DEF Itinerary
    <2>2. Itinerary(trips \cup {t})
      BY <1>0, <1>2, <2>1, TripsAssumption DEF Itinerary, Claim
    <2> QED BY <1>2, <2>2, SavedClaim DEF Claim
  <1>3. ASSUME NEW t \in trips, NEW u, Dated(u), u.approval = t.approval,
               Save((trips \ {t}) \cup {u})
        PROVE  ClaimInv'
    <2>1. IsFiniteSet((trips \ {t}) \cup {u})
      BY <1>0, FS_AddElement, FS_RemoveElement DEF Itinerary
    <2>2. Itinerary((trips \ {t}) \cup {u})
      BY <1>0, <1>3, <2>1 DEF Itinerary
    <2> QED BY <1>3, <2>2, SavedClaim
  <1>4. ASSUME NEW t \in trips, NEW a \in Adjustments, Adjust(t, a)
        PROVE  ClaimInv'
    <2> DEFINE u == [t EXCEPT !.adjustments = @ \cup {[a EXCEPT !.row = <<t.approval, @>>]}]
    <2>1. Dated(t)
      BY <1>0 DEF Itinerary
    <2>2. Dated(u) /\ u.approval = t.approval
      <3>1. PICK x : u = [t EXCEPT !.adjustments = x]
        OBVIOUS
      <3> HIDE DEF u
      <3> QED BY <2>1, <3>1 DEF Dated
    <2>3. Save((trips \ {t}) \cup {u})
      BY <1>4 DEF Adjust
    <2> HIDE DEF u
    <2> QED BY <1>3, <2>2, <2>3
  <1>5. ASSUME NEW t \in trips, NEW days, Attend(t, days)
        PROVE  ClaimInv'
    <2> DEFINE u == [t EXCEPT !.attended = days]
    <2>1. Dated(t)
      BY <1>0 DEF Itinerary
    <2>2. Dated(u) /\ u.approval = t.approval
      BY <2>1 DEF Dated
    <2>3. Save((trips \ {t}) \cup {u})
      BY <1>5 DEF Attend
    <2> HIDE DEF u
    <2> QED BY <1>3, <2>2, <2>3
  <1> QED BY <1>1, <1>2, <1>4, <1>5 DEF ClaimNext

\* While a claim is edited (save_draft, _calculate_input), the lines beside it are those of
\* its trips, each of an approval of its own.
THEOREM ClaimInvariant == ClaimSpec => []ClaimInv
  <1>1. ClaimInit => ClaimInv
    BY FS_EmptySet DEF ClaimInit, ClaimInv, Itinerary
  <1>2. ClaimInv /\ [ClaimNext]_claimVars => ClaimInv'
    BY ClaimStep
  <1> QED BY <1>1, <1>2, PTL DEF ClaimSpec

\* Whatever the approvals overlap, every claim is inside one line, no two lines of a purpose
\* share a day, and no line reaches over a day nobody claimed (merge_overlapping_subsidy_trips).
THEOREM LinesStayApart == ClaimSpec => []LinesAreApart
  <1>1. ClaimInv => LinesAreApart
    BY LinesApart
  <1> QED BY <1>1, ClaimInvariant, PTL

=============================================================================
