-------------------------- MODULE DraftContentProofs --------------------------
(***************************************************************************)
(* Theorems about DraftContent for any files and requests: what has been   *)
(* reviewed and frozen fits its files, no save is lost without a new       *)
(* revision, and a purpose the employee decided outlives a recognition;    *)
(* the write of a recognition that another commit overtook is the one step *)
(* that can break them, and the next edit ends what it broke.              *)
(***************************************************************************)
EXTENDS DraftContent, TLAPS

-----------------------------------------------------------------------------
(* The inductive invariant *)

\* Requests whose commit is fenced by the revision they read.
Based == {"save", "patch", "delete", "review", "submit"}

\* What a recognition may find.
Finds == [ocr : OcrStatus, class : Classes, purpose : Purposes]

\* A request remembers a revision that has been, with room for one more; a recognition that
\* passed its checks saw its own marker, and finds another purpose only if asked for one.
OpFits(w, revision) ==
  /\ w.do \in Based \cup {"idle", "ocr", "flush"}
  /\ w.do \in Based => w.revision \in 1..(MaxRevision - 1) /\ w.revision <= revision
  /\ w.do = "save" => w.uses \in [Files -> Purposes \cup {"no"}]
  /\ w.do \in {"patch", "delete", "review", "submit", "flush"} => w.input \in Inputs
  /\ w.do = "patch" => w.purpose \in Purposes
  /\ w.do \in {"patch", "flush"} => w.seen \in Rows
  /\ w.do \in {"patch", "flush", "ocr"} => w.file \in Files
  /\ w.do = "ocr" => w.class \in Classes
  /\ w.do = "flush" => w.out \in Finds
  /\ w.do = "flush" => /\ w.seen.here /\ w.seen.ocr = "RUNNING" /\ w.seen.result.marker # None
                       /\ w.out.purpose # w.seen.purpose => w.seen.result.class \in Unsettled

OpInv == op = [r \in Requests |-> op[r]] /\ \A r \in Requests : OpFits(op[r], draft.revision)

\* What a review or a submission has read is what there is, as long as the revision is the same:
\* the changes that spend no revision need a file that a review would have refused.
AsReviewed(w, d, rows) ==
  w.do \in {"review", "submit"} /\ w.revision = d.revision =>
    w.input = d.input /\ Final(d.input, rows)

ReviewInv == \A r \in Requests : AsReviewed(op[r], draft, row)

\* Whose marker is in the row has the row's class: a decision of the employee takes the marker away.
ClassKept(r, w, rows) ==
  w.do = "ocr" /\ rows[w.file].here /\ rows[w.file].ocr = "RUNNING" /\ rows[w.file].result.marker = r =>
    rows[w.file].result.class = w.class

OcrInv == \A r \in Requests : ClassKept(r, op[r], row)

\* What holds until a recognition writes late, and again from the next edit on.
Settled == ReviewInv /\ ReviewedIsFinal /\ FrozenIsReviewed

IInv == TypeOK /\ OpInv /\ OcrInv /\ (~overtaken => Settled)

-----------------------------------------------------------------------------
(* What the operators on inputs and rows return *)

LEMMA DetachType ==
  ASSUME NEW input \in Inputs, NEW files
  PROVE  Detach(input, files) \in Inputs
  <1>1. PICK uses : uses = [f \in Files |-> IF f \in files THEN "no" ELSE input.uses[f]]
    OBVIOUS
  <1>2. uses \in [Files -> Purposes \cup {"no"}]
    BY <1>1 DEF Inputs
  <1>3. Detach(input, files) = [input EXCEPT !.uses = uses]
    BY <1>1 DEF Detach
  <1> QED
    BY <1>2, <1>3 DEF Inputs

LEMMA RowTypes ==
  /\ NoResult \in Results /\ NoResult.marker = None /\ NoResult.class = "none"
  /\ Absent \in Rows /\ ~Absent.here
  BY DEF NoResult, Absent, Results, Rows, Classes, Purposes, OcrStatus

LEMMA ResultForm ==
  ASSUME NEW class \in Classes, NEW marker \in Requests \cup {None}, NEW under \in Inputs \cup {None}
  PROVE  LET new == [class |-> class, marker |-> marker, under |-> under] IN
         new \in Results /\ new.class = class /\ new.marker = marker
  BY DEF Results

LEMMA FailForm ==
  ASSUME NEW r \in Rows
  PROVE  /\ Fail(r) \in Rows /\ Fail(r).here = r.here /\ Fail(r).purpose = r.purpose
         /\ Fail(r).ocr = "FAILED" /\ Fail(r).result.marker = None
         /\ Fail(r).result.class = IF r.result.class \in Unsettled THEN "unknown" ELSE r.result.class
  <1>1. PICK no \in BOOLEAN : no = FALSE
    OBVIOUS
  <1>2. PICK new : new = [class |-> IF r.result.class \in Unsettled THEN "unknown" ELSE r.result.class,
                          marker |-> None, under |-> None]
    OBVIOUS
  <1>3. /\ new \in Results /\ new.marker = None
        /\ new.class = IF r.result.class \in Unsettled THEN "unknown" ELSE r.result.class
    BY <1>2 DEF Results, Rows, Classes
  <1>4. PICK d : d = [[[r EXCEPT !.ocr = "FAILED"] EXCEPT !.old = no] EXCEPT !.result = new]
    OBVIOUS
  <1>5. Fail(r) = d
    BY <1>1, <1>2, <1>4 DEF Fail, Rows
  <1>6. d \in Rows /\ d.here = r.here /\ d.purpose = r.purpose /\ d.ocr = "FAILED" /\ d.result = new
    BY <1>3, <1>4 DEF Rows, OcrStatus
  <1> QED
    BY <1>3, <1>5, <1>6

LEMMA FoundForm ==
  ASSUME NEW seen \in Rows, NEW out \in Finds
  PROVE  /\ Found(seen, out) \in Rows /\ Found(seen, out).here = seen.here
         /\ Found(seen, out).purpose = out.purpose /\ Found(seen, out).ocr = out.ocr
         /\ Found(seen, out).result.marker = None /\ Found(seen, out).result.class = out.class
  <1>1. PICK no \in BOOLEAN : no = FALSE
    OBVIOUS
  <1>2. PICK new : new = [class |-> out.class, marker |-> None, under |-> None]
    OBVIOUS
  <1>3. new \in Results /\ new.marker = None /\ new.class = out.class
    BY <1>2 DEF Results, Finds
  <1>4. PICK d : d = [[[[seen EXCEPT !.purpose = out.purpose] EXCEPT !.ocr = out.ocr] EXCEPT !.old = no]
                      EXCEPT !.result = new]
    OBVIOUS
  <1>5. Found(seen, out) = d
    BY <1>1, <1>2, <1>4 DEF Found, Rows
  <1>6. d \in Rows /\ d.here = seen.here /\ d.purpose = out.purpose /\ d.ocr = out.ocr /\ d.result = new
    BY <1>3, <1>4 DEF Rows, Finds
  <1> QED
    BY <1>3, <1>5, <1>6

LEMMA PatchedForm ==
  ASSUME NEW seen \in Rows, NEW purpose \in Purposes
  PROVE  /\ Patched(seen, purpose) \in Rows /\ Patched(seen, purpose).here = seen.here
         /\ Patched(seen, purpose).purpose = purpose
         /\ Patched(seen, purpose).ocr \in {seen.ocr, "NOT_REQUESTED"}
         /\ Patched(seen, purpose).result.marker = None
         /\ Patched(seen, purpose).result.class = "confirmed"
  <1>1. PICK no \in BOOLEAN : no = FALSE
    OBVIOUS
  <1>2. PICK new : new = [class |-> "confirmed", marker |-> None,
                          under |-> IF purpose # seen.purpose THEN None ELSE seen.result.under]
    OBVIOUS
  <1>3. new \in Results /\ new.marker = None /\ new.class = "confirmed"
    BY <1>2 DEF Results, Rows, Classes
  <1>4. PICK ocr : ocr = IF purpose # seen.purpose THEN "NOT_REQUESTED" ELSE seen.ocr
    OBVIOUS
  <1>5. PICK d : d = [[[[seen EXCEPT !.purpose = purpose] EXCEPT !.old = no] EXCEPT !.ocr = ocr]
                      EXCEPT !.result = new]
    OBVIOUS
  <1>6. Patched(seen, purpose) = d
    BY <1>1, <1>2, <1>4, <1>5 DEF Patched, Rows
  <1>7. /\ d \in Rows /\ d.here = seen.here /\ d.purpose = purpose /\ d.ocr = ocr /\ d.result = new
        /\ ocr \in {seen.ocr, "NOT_REQUESTED"}
    BY <1>3, <1>4, <1>5 DEF Rows, OcrStatus
  <1> QED
    BY <1>3, <1>6, <1>7

LEMMA FlushForm ==
  ASSUME NEW current \in Rows, NEW seen \in Rows, NEW new \in Rows
  PROVE  /\ Flush(current, seen, new) \in Rows /\ Flush(current, seen, new).here = current.here
         /\ Flush(current, seen, new).purpose = IF new.purpose # seen.purpose THEN new.purpose ELSE current.purpose
         /\ Flush(current, seen, new).ocr = IF new.ocr # seen.ocr THEN new.ocr ELSE current.ocr
         /\ Flush(current, seen, new).result = IF new.result # seen.result THEN new.result ELSE current.result
  <1>1. PICK no \in BOOLEAN : no = FALSE
    OBVIOUS
  <1>2. PICK purpose : purpose = IF new.purpose # seen.purpose THEN new.purpose ELSE current.purpose
    OBVIOUS
  <1>3. PICK ocr : ocr = IF new.ocr # seen.ocr THEN new.ocr ELSE current.ocr
    OBVIOUS
  <1>4. PICK result : result = IF new.result # seen.result THEN new.result ELSE current.result
    OBVIOUS
  <1>5. PICK d : d = [[[[current EXCEPT !.purpose = purpose] EXCEPT !.ocr = ocr] EXCEPT !.result = result]
                      EXCEPT !.old = no]
    OBVIOUS
  <1>6. Flush(current, seen, new) = d
    BY <1>1, <1>2, <1>3, <1>4, <1>5 DEF Flush, Rows
  <1>7. purpose \in Purposes /\ ocr \in OcrStatus /\ result \in Results
    BY <1>2, <1>3, <1>4 DEF Rows
  <1>8. d \in Rows /\ d.here = current.here /\ d.purpose = purpose /\ d.ocr = ocr /\ d.result = result
    BY <1>5, <1>7 DEF Rows
  <1> QED
    BY <1>2, <1>3, <1>4, <1>6, <1>8

LEMMA IdleForm ==
  /\ Idle.do = "idle"
  /\ \A revision \in 1..MaxRevision : OpFits(Idle, revision)
  BY DEF Idle, OpFits, Based

-----------------------------------------------------------------------------
(* What each kind of step keeps *)

\* A marker is only ever taken away: an attempt that is still in the row was there before.
Keeps(was, now) ==
  now.here /\ now.ocr = "RUNNING" /\ now.result.marker # None =>
    was.here /\ was.ocr = "RUNNING" /\ now.result = was.result

MarkerKept(f) == Keeps(row[f], row'[f])

\* The one request of a step, and what it does from now on.
Turns(r, w) == op' = [op EXCEPT ![r] = w]

LEMMA TurnType ==
  ASSUME OpInv, NEW r \in Requests, NEW w, Turns(r, w),
         draft \in Drafts, draft' \in Drafts, draft.revision <= draft'.revision,
         OpFits(w, draft'.revision)
  PROVE  OpInv' /\ op'[r] = w /\ \A q \in Requests : q # r => op'[q] = op[q]
  <1>1. op'[r] = w /\ \A q \in Requests : q # r => op'[q] = op[q]
    BY DEF Turns, OpInv
  <1>2. op' = [q \in Requests |-> op'[q]]
    BY DEF Turns, OpInv
  <1>3. \A q \in Requests : OpFits(op[q], draft.revision)
    BY DEF OpInv
  <1>4. draft.revision \in Nat /\ draft'.revision \in Nat
    BY BoundAssumption DEF Drafts
  <1>5. ASSUME NEW q \in Requests
        PROVE  OpFits(op[q], draft'.revision)
    <2>1. OpFits(op[q], draft.revision)
      BY <1>3
    <2>2. op[q].do \in Based => op[q].revision \in Nat
      BY <2>1, BoundAssumption DEF OpFits
    <2> QED
      BY <2>1, <2>2, <1>4 DEF OpFits
  <1>6. \A q \in Requests : OpFits(op'[q], draft'.revision)
    BY <1>1, <1>5
  <1> QED
    BY <1>1, <1>2, <1>6 DEF OpInv

LEMMA StayType ==
  ASSUME OpInv, op' = op, draft \in Drafts, draft' \in Drafts, draft.revision <= draft'.revision
  PROVE  OpInv'
  <1>1. draft.revision \in Nat /\ draft'.revision \in Nat
    BY BoundAssumption DEF Drafts
  <1>2. ASSUME NEW q \in Requests
        PROVE  OpFits(op[q], draft'.revision)
    <2>1. OpFits(op[q], draft.revision)
      BY DEF OpInv
    <2>2. op[q].do \in Based => op[q].revision \in Nat
      BY <2>1, BoundAssumption DEF OpFits
    <2> QED
      BY <2>1, <2>2, <1>1 DEF OpFits
  <1> QED
    BY <1>2 DEF OpInv

\* A step in which at most one request ends, and none begins.
LEMMA EndsType ==
  ASSUME OpInv, op' = op \/ \E r \in Requests : Turns(r, Idle),
         draft \in Drafts, draft' \in Drafts, draft.revision <= draft'.revision
  PROVE  OpInv' /\ \A q \in Requests : op'[q] = op[q] \/ op'[q].do = "idle"
  <1>1. CASE op' = op
    <2>1. OpInv'
      BY <1>1, StayType
    <2> QED
      BY <1>1, <2>1
  <1>2. CASE \E r \in Requests : Turns(r, Idle)
    <2>1. PICK r \in Requests : Turns(r, Idle)
      BY <1>2
    <2>2. draft'.revision \in 1..MaxRevision
      BY DEF Drafts
    <2>3. OpFits(Idle, draft'.revision)
      BY <2>2, IdleForm
    <2>4. OpInv' /\ op'[r] = Idle /\ \A q \in Requests : q # r => op'[q] = op[q]
      BY <2>1, <2>3, TurnType
    <2>5. \A q \in Requests : op'[q] = op[q] \/ op'[q].do = "idle"
      BY <2>4, IdleForm
    <2> QED
      BY <2>4, <2>5
  <1> QED
    BY <1>1, <1>2

\* The type invariant is what the conjuncts say of the variables.
LEMMA TypeStep ==
  ASSUME OpInv', draft' \in Drafts, row' \in [Files -> Rows], submission' \in Inputs \cup {None},
         Recorded \/ \E r \in Requests : LateRecorded(r)
  PROVE  TypeOK'
  <1>1. overtaken' \in BOOLEAN
    BY DEF Recorded, LateRecorded
  <1> QED
    BY <1>1 DEF OpInv, OpFits, TypeOK, Based

LEMMA OcrStep ==
  ASSUME OpInv, OcrInv, \A f \in Files : MarkerKept(f),
         \A q \in Requests : op'[q] = op[q] \/ op'[q].do # "ocr"
  PROVE  OcrInv'
  <1> SUFFICES ASSUME NEW q \in Requests, op'[q].do = "ocr", row'[op'[q].file].here,
                      row'[op'[q].file].ocr = "RUNNING", row'[op'[q].file].result.marker = q
               PROVE  row'[op'[q].file].result.class = op'[q].class
    BY DEF OcrInv, ClassKept
  <1>1. op'[q] = op[q] /\ op[q].do = "ocr"
    OBVIOUS
  <1>2. OpFits(op[q], draft.revision)
    BY DEF OpInv
  <1>3. PICK f \in Files : f = op[q].file
    BY <1>1, <1>2 DEF OpFits
  <1>4. q # None
    BY RequestsAssumption
  <1>5. MarkerKept(f)
    OBVIOUS
  <1>6. row[f].here /\ row[f].ocr = "RUNNING" /\ row'[f].result = row[f].result
    BY <1>1, <1>3, <1>4, <1>5 DEF MarkerKept, Keeps
  <1>7. ClassKept(q, op[q], row)
    BY DEF OcrInv
  <1> QED
    BY <1>1, <1>3, <1>6, <1>7 DEF ClassKept

\* A step that is no edit repairs nothing.
LEMMA UnrepairedStep ==
  ASSUME IInv, Recorded, draft'.revision = draft.revision \/ draft'.status # "DRAFT", ~overtaken'
  PROVE  ReviewInv /\ ReviewedIsFinal /\ FrozenIsReviewed
  BY DEF IInv, Settled, Recorded, Edited

\* A new revision leaves every review on its way behind.
LEMMA FencedStep ==
  ASSUME OpInv, draft \in Drafts, draft'.revision = draft.revision + 1,
         \A q \in Requests : op'[q] = op[q] \/ op'[q].do \notin {"review", "submit"}
  PROVE  ReviewInv'
  <1>1. draft.revision \in Nat
    BY BoundAssumption DEF Drafts
  <1>2. ASSUME NEW q \in Requests
        PROVE  AsReviewed(op'[q], draft', row')
    <2>1. OpFits(op[q], draft.revision)
      BY DEF OpInv
    <2>2. CASE op'[q].do \notin {"review", "submit"}
      BY <2>2 DEF AsReviewed
    <2>3. CASE op'[q] = op[q] /\ op[q].do \in {"review", "submit"}
      <3>1. op[q].revision \in Nat /\ op[q].revision <= draft.revision
        BY <2>1, <2>3, BoundAssumption DEF OpFits, Based
      <3>2. op'[q].revision # draft'.revision
        BY <2>3, <3>1, <1>1
      <3> QED
        BY <3>2 DEF AsReviewed
    <2> QED
      BY <2>2, <2>3
  <1> QED
    BY <1>2 DEF ReviewInv

\* An edit puts the draft back to being edited.
LEMMA EditedStep ==
  ASSUME OpInv, draft \in Drafts, draft'.status = "DRAFT", draft'.revision = draft.revision + 1,
         \A q \in Requests : op'[q] = op[q] \/ op'[q].do \notin {"review", "submit"}
  PROVE  ReviewInv' /\ ReviewedIsFinal' /\ FrozenIsReviewed'
  <1>1. ReviewInv'
    BY FencedStep
  <1>2. ReviewedIsFinal' /\ FrozenIsReviewed'
    BY DEF ReviewedIsFinal, FrozenIsReviewed
  <1> QED
    BY <1>1, <1>2

\* A change that spends none is made under a file that no review accepts.
LEMMA UnreviewedStep ==
  ASSUME TypeOK, ReviewInv, ReviewedIsFinal, ~Final(draft.input, row),
         draft'.status = draft.status, draft'.revision = draft.revision,
         \A q \in Requests : op'[q] = op[q] \/ op'[q].do \notin {"review", "submit"}
  PROVE  ReviewInv' /\ ReviewedIsFinal' /\ FrozenIsReviewed'
  <1>1. draft.status = "DRAFT"
    BY DEF ReviewedIsFinal
  <1>2. ASSUME NEW q \in Requests
        PROVE  AsReviewed(op'[q], draft', row')
    <2>1. AsReviewed(op[q], draft, row)
      BY DEF ReviewInv
    <2> QED
      BY <2>1 DEF AsReviewed
  <1>3. ReviewInv'
    BY <1>2 DEF ReviewInv
  <1>4. ReviewedIsFinal' /\ FrozenIsReviewed'
    BY <1>1 DEF ReviewedIsFinal, FrozenIsReviewed
  <1> QED
    BY <1>3, <1>4

\* A step that changes neither the draft nor its files.
LEMMA ReadStep ==
  ASSUME ReviewInv, ReviewedIsFinal, FrozenIsReviewed, UNCHANGED <<draft, row, submission>>,
         \A q \in Requests : \/ op'[q] = op[q] \/ op'[q].do \notin {"review", "submit"}
                             \/ op'[q].input = draft.input /\ Final(draft.input, row)
  PROVE  ReviewInv' /\ ReviewedIsFinal' /\ FrozenIsReviewed'
  <1>1. ASSUME NEW q \in Requests
        PROVE  AsReviewed(op'[q], draft', row')
    BY DEF ReviewInv, AsReviewed
  <1>2. ReviewInv'
    BY <1>1 DEF ReviewInv
  <1>3. ReviewedIsFinal' /\ FrozenIsReviewed'
    BY DEF ReviewedIsFinal, FrozenIsReviewed
  <1> QED
    BY <1>2, <1>3

LEMMA BumpForm ==
  ASSUME draft \in Drafts, draft.revision < MaxRevision, NEW input \in Inputs, NEW revision,
         Bump(revision, input)
  PROVE  /\ draft' \in Drafts /\ draft'.status = "DRAFT" /\ draft'.input = input
         /\ draft'.revision = draft.revision + 1 /\ Mutable
  BY BoundAssumption DEF Bump, Drafts

\* An edit spends a revision, takes markers away and starts nothing.
LEMMA EditKeeps ==
  ASSUME IInv, Recorded,
         NEW input \in Inputs, NEW revision, Bump(revision, input), draft.revision < MaxRevision,
         row' \in [Files -> Rows], \A f \in Files : MarkerKept(f), submission' = submission,
         op' = op \/ \E r \in Requests : Turns(r, Idle)
  PROVE  IInv' /\ draft'.revision = draft.revision + 1
  <1>1. TypeOK /\ OpInv /\ OcrInv
    BY DEF IInv
  <1>2. draft \in Drafts /\ submission \in Inputs \cup {None}
    BY <1>1 DEF TypeOK
  <1>3. /\ draft' \in Drafts /\ draft'.status = "DRAFT"
        /\ draft'.revision = draft.revision + 1
    BY <1>2, BumpForm
  <1>4. draft.revision \in Nat /\ draft.revision <= draft'.revision /\ draft'.revision \in 1..MaxRevision
    BY <1>2, <1>3, BoundAssumption DEF Drafts
  <1>5. OpInv' /\ \A q \in Requests : op'[q] = op[q] \/ op'[q].do = "idle"
    BY <1>1, <1>2, <1>3, <1>4, EndsType
  <1>6. TypeOK'
    BY <1>2, <1>3, <1>5, TypeStep
  <1>7. OcrInv'
    BY <1>1, <1>5, OcrStep
  <1>8. ReviewInv' /\ ReviewedIsFinal' /\ FrozenIsReviewed'
    BY <1>1, <1>2, <1>3, <1>5, EditedStep
  <1> QED
    BY <1>3, <1>5, <1>6, <1>7, <1>8 DEF IInv, Settled

\* A step that only reads: the request remembers what a review may rely on.
LEMMA ReadKeeps ==
  ASSUME IInv, Recorded,
         UNCHANGED <<draft, row, submission>>,
         NEW r \in Requests, NEW w, Turns(r, w), OpFits(w, draft.revision),
         w.do \notin {"ocr", "flush"},
         ~overtaken /\ w.do \in {"review", "submit"} => w.input = draft.input /\ Final(draft.input, row)
  PROVE  IInv'
  <1>1. TypeOK /\ OpInv /\ OcrInv
    BY DEF IInv
  <1>2. draft \in Drafts /\ draft' \in Drafts /\ draft.revision <= draft'.revision
    BY <1>1, BoundAssumption DEF TypeOK, Drafts
  <1>3. OpFits(w, draft'.revision)
    OBVIOUS
  <1>4. OpInv' /\ op'[r] = w /\ \A q \in Requests : q # r => op'[q] = op[q]
    BY <1>1, <1>2, <1>3, TurnType
  <1>5. TypeOK'
    <2>1. row' \in [Files -> Rows] /\ submission' \in Inputs \cup {None}
      BY <1>1 DEF TypeOK
    <2> QED
      BY <1>2, <1>4, <2>1, TypeStep
  <1>6. OcrInv'
    <2>1. \A f \in Files : MarkerKept(f)
      BY DEF MarkerKept, Keeps
    <2>2. \A q \in Requests : op'[q] = op[q] \/ op'[q].do # "ocr"
      BY <1>4
    <2> QED
      BY <1>1, <1>4, <2>1, <2>2, OcrStep
  <1>7. ASSUME ~overtaken'
        PROVE  ReviewInv' /\ ReviewedIsFinal' /\ FrozenIsReviewed'
    <2>1. ReviewInv /\ ReviewedIsFinal /\ FrozenIsReviewed
      BY <1>7, UnrepairedStep
    <2>2. ~overtaken
      BY <1>7 DEF Recorded, Edited
    <2>3. \A q \in Requests : \/ op'[q] = op[q] \/ op'[q].do \notin {"review", "submit"}
                              \/ op'[q].input = draft.input /\ Final(draft.input, row)
      BY <1>4, <2>2
    <2> QED
      BY <2>1, <2>3, ReadStep
  <1> QED
    BY <1>4, <1>5, <1>6, <1>7 DEF IInv, Settled

\* A step of a recognition that spends no revision works on a file no review accepts.
LEMMA OcrKeeps ==
  ASSUME IInv, Recorded, ~Final(draft.input, row),
         UNCHANGED <<draft, submission>>, row' \in [Files -> Rows],
         \A f \in Files : MarkerKept(f), op' = op \/ \E r \in Requests : Turns(r, Idle)
  PROVE  IInv'
  <1>1. TypeOK /\ OpInv /\ OcrInv
    BY DEF IInv
  <1>2. draft \in Drafts /\ draft' \in Drafts /\ draft.revision <= draft'.revision /\ draft.revision \in 1..MaxRevision
    BY <1>1, BoundAssumption DEF TypeOK, Drafts
  <1>3. OpInv' /\ \A q \in Requests : op'[q] = op[q] \/ op'[q].do = "idle"
    BY <1>1, <1>2, EndsType
  <1>4. TypeOK'
    <2>1. submission' \in Inputs \cup {None}
      BY <1>1 DEF TypeOK
    <2> QED
      BY <1>2, <1>3, <2>1, TypeStep
  <1>5. OcrInv'
    <2>1. \A q \in Requests : op'[q] = op[q] \/ op'[q].do # "ocr"
      BY <1>3
    <2> QED
      BY <1>1, <1>3, <2>1, OcrStep
  <1>6. ASSUME ~overtaken'
        PROVE  ReviewInv' /\ ReviewedIsFinal' /\ FrozenIsReviewed'
    <2>1. ReviewInv /\ ReviewedIsFinal /\ FrozenIsReviewed
      BY <1>6, UnrepairedStep
    <2>2. \A q \in Requests : op'[q] = op[q] \/ op'[q].do \notin {"review", "submit"}
      BY <1>3
    <2>3. draft'.status = draft.status /\ draft'.revision = draft.revision
      OBVIOUS
    <2> QED
      BY <1>1, <2>1, <2>2, <2>3, UnreviewedStep
  <1> QED
    BY <1>3, <1>4, <1>5, <1>6 DEF IInv, Settled

-----------------------------------------------------------------------------
(* Edits *)

\* What every step but a late write does.
Sound == IInv' /\ InputKept /\ \A f \in Files : DecisionKept(f)

\* The purpose of a decided file changes with its decision.
Redecides(was, now) ==
  was.result.class = "confirmed" /\ now.purpose # was.purpose => now.result.class = "confirmed"

LEMMA OneRow ==
  ASSUME row \in [Files -> Rows], NEW f \in Files, NEW now \in Rows, row' = [row EXCEPT ![f] = now],
         Keeps(row[f], now)
  PROVE  /\ row' \in [Files -> Rows] /\ row'[f] = now
         /\ \A g \in Files : MarkerKept(g) /\ (g # f => row'[g] = row[g])
  <1>1. row' \in [Files -> Rows] /\ row'[f] = now /\ \A g \in Files : g # f => row'[g] = row[g]
    OBVIOUS
  <1>2. \A g \in Files : MarkerKept(g)
    BY <1>1 DEF MarkerKept, Keeps
  <1> QED
    BY <1>1, <1>2

LEMMA RecoveredForm ==
  ASSUME row \in [Files -> Rows]
  PROVE  /\ Recovered \in [Files -> Rows]
         /\ \A f \in Files :
              /\ Keeps(row[f], Recovered[f])
              /\ Recovered[f].here = row[f].here /\ Recovered[f].purpose = row[f].purpose
              /\ Recovered[f] = row[f] \/ Recovered[f].ocr = "FAILED"
  <1>1. ASSUME NEW f \in Files
        PROVE  /\ Recovered[f] \in Rows /\ Keeps(row[f], Recovered[f])
               /\ Recovered[f].here = row[f].here /\ Recovered[f].purpose = row[f].purpose
               /\ Recovered[f] = row[f] \/ Recovered[f].ocr = "FAILED"
    <2>1. row[f] \in Rows
      OBVIOUS
    <2>2. CASE Stale(f)
      <3>1. Recovered[f] = Fail(row[f])
        BY <2>2 DEF Recovered
      <3>2. /\ Fail(row[f]) \in Rows /\ Fail(row[f]).here = row[f].here
            /\ Fail(row[f]).purpose = row[f].purpose /\ Fail(row[f]).ocr = "FAILED"
        BY <2>1, FailForm
      <3> QED
        BY <3>1, <3>2 DEF Keeps
    <2>3. CASE ~Stale(f)
      <3>1. Recovered[f] = row[f]
        BY <2>3 DEF Recovered
      <3> QED
        BY <2>1, <3>1 DEF Keeps
    <2> QED
      BY <2>2, <2>3
  <1>2. Recovered = [f \in Files |-> Recovered[f]]
    BY DEF Recovered
  <1> QED
    BY <1>1, <1>2

\* A decision written over a row, whatever has become of the row since it was read.
LEMMA PatchRow ==
  ASSUME NEW was \in Rows, NEW seen \in Rows, NEW purpose \in Purposes
  PROVE  LET now == Flush(was, seen, Patched(seen, purpose)) IN
         now \in Rows /\ Keeps(was, now) /\ Redecides(was, now)
  <1>1. PICK new : new = Patched(seen, purpose)
    OBVIOUS
  <1>2. /\ new \in Rows /\ new.ocr \in {seen.ocr, "NOT_REQUESTED"} /\ new.result.marker = None
        /\ new.result.class = "confirmed"
    BY <1>1, PatchedForm
  <1>3. PICK now : now = Flush(was, seen, new)
    OBVIOUS
  <1>4. /\ now \in Rows /\ now.here = was.here
        /\ now.ocr = IF new.ocr # seen.ocr THEN new.ocr ELSE was.ocr
        /\ now.result = IF new.result # seen.result THEN new.result ELSE was.result
    BY <1>2, <1>3, FlushForm
  <1>5. Keeps(was, now)
    BY <1>2, <1>4 DEF Keeps
  <1>6. Redecides(was, now)
    BY <1>2, <1>4 DEF Redecides
  <1> QED
    BY <1>1, <1>3, <1>4, <1>5, <1>6

LEMMA GoneForm ==
  ASSUME row \in [Files -> Rows], NEW rows \in [Files -> Rows], NEW files,
         \A f \in Files : Keeps(row[f], rows[f]) /\ rows[f].purpose = row[f].purpose,
         row' = Gone(rows, files)
  PROVE  /\ row' \in [Files -> Rows]
         /\ \A f \in Files : MarkerKept(f) /\ row'[f].purpose = row[f].purpose
  <1>1. PICK no \in BOOLEAN : no = FALSE
    OBVIOUS
  <1>2. ASSUME NEW f \in Files
        PROVE  row'[f] \in Rows /\ MarkerKept(f) /\ row'[f].purpose = row[f].purpose
    <2>1. rows[f] \in Rows
      OBVIOUS
    <2>2. CASE f \in files
      <3>1. row'[f] = [rows[f] EXCEPT !.here = no]
        BY <1>1, <2>2 DEF Gone
      <3>2. row'[f] \in Rows /\ row'[f].here = no /\ row'[f].purpose = rows[f].purpose
        BY <2>1, <3>1 DEF Rows
      <3> QED
        BY <1>1, <3>2 DEF MarkerKept, Keeps
    <2>3. CASE f \notin files
      <3>1. row'[f] = rows[f]
        BY <2>3 DEF Gone
      <3> QED
        BY <2>1, <3>1 DEF MarkerKept
    <2> QED
      BY <2>2, <2>3
  <1>3. row' = [f \in Files |-> row'[f]]
    BY DEF Gone
  <1> QED
    BY <1>2, <1>3

\* What an edit that keeps its markers and its decisions comes to.
LEMMA EditSound ==
  ASSUME IInv, Recorded,
         NEW input \in Inputs, NEW revision, Bump(revision, input), draft.revision < MaxRevision,
         row' \in [Files -> Rows], \A f \in Files : MarkerKept(f) /\ Redecides(row[f], row'[f]),
         submission' = submission, op' = op \/ \E r \in Requests : Turns(r, Idle)
  PROVE  Sound
  <1>1. IInv' /\ draft'.revision = draft.revision + 1
    BY EditKeeps
  <1> QED
    BY <1>1 DEF Sound, InputKept, DecisionKept, Redecides

LEMMA SaveSound ==
  ASSUME IInv, Recorded, NEW r \in Requests, Save(r)
  PROVE  Sound
  <1>1. row \in [Files -> Rows] /\ draft \in Drafts
    BY DEF IInv, Inv, TypeOK
  <1>2. OpFits(op[r], draft.revision)
    BY DEF IInv, OpInv
  <1>3. op[r].revision \in 1..(MaxRevision - 1) /\ op[r].uses \in [Files -> Purposes \cup {"no"}]
    BY <1>2 DEF Save, OpFits, Based
  <1>4. PICK input : input = [by |-> op[r].revision + 1, uses |-> op[r].uses]
    OBVIOUS
  <1>5. input \in Inputs
    BY <1>3, <1>4, BoundAssumption DEF Inputs
  <1>6. Bump(op[r].revision, input) /\ Turns(r, Idle) /\ row' = row /\ submission' = submission
    BY <1>4 DEF Save, Ends, Turns
  <1>7. draft.revision < MaxRevision
    BY <1>3, <1>6, BoundAssumption DEF Bump
  <1>8. row' \in [Files -> Rows] /\ \A f \in Files : MarkerKept(f) /\ Redecides(row[f], row'[f])
    BY <1>1, <1>6 DEF MarkerKept, Keeps, Redecides
  <1>9. op' = op \/ \E q \in Requests : Turns(q, Idle)
    BY <1>6
  <1> QED
    BY <1>5, <1>6, <1>7, <1>8, <1>9, EditSound

LEMMA UploadSound ==
  ASSUME IInv, Recorded, NEW f \in Files, Upload(f)
  PROVE  Sound
  <1>1. row \in [Files -> Rows] /\ draft \in Drafts
    BY DEF IInv, Inv, TypeOK
  <1>2. PICK purpose \in Purposes, auto \in BOOLEAN :
          row' = [row EXCEPT ![f] =
            [here |-> TRUE, purpose |-> purpose, ocr |-> "NOT_REQUESTED", old |-> FALSE,
             result |-> IF auto THEN [class |-> "pending", marker |-> None, under |-> draft.input]
                        ELSE NoResult]]
    BY DEF Upload
  <1>3. PICK new : new = IF auto THEN [class |-> "pending", marker |-> None, under |-> draft.input]
                         ELSE NoResult
    OBVIOUS
  <1>4. new \in Results
    <2>1. draft.input \in Inputs
      BY <1>1 DEF Drafts
    <2> QED
      BY <1>3, <2>1, RowTypes DEF Results, Classes
  <1>5. PICK yes \in BOOLEAN, no \in BOOLEAN : yes = TRUE /\ no = FALSE
    OBVIOUS
  <1>6. PICK now : now = [here |-> yes, purpose |-> purpose, ocr |-> "NOT_REQUESTED", old |-> no, result |-> new]
    OBVIOUS
  <1>7. now \in Rows /\ now.ocr = "NOT_REQUESTED"
    BY <1>4, <1>6 DEF Rows, OcrStatus
  <1>8. row' = [row EXCEPT ![f] = now]
    BY <1>2, <1>3, <1>5, <1>6
  <1>9. Keeps(row[f], now)
    BY <1>7 DEF Keeps
  <1>10. row' \in [Files -> Rows] /\ \A g \in Files : MarkerKept(g) /\ (g # f => row'[g] = row[g])
    BY <1>1, <1>7, <1>8, <1>9, OneRow
  <1>11. row[f].result.class = "none"
    BY RowTypes DEF Upload
  <1>12. \A g \in Files : Redecides(row[g], row'[g])
    BY <1>10, <1>11 DEF Redecides
  <1>13. draft.input \in Inputs /\ draft.revision < MaxRevision
    BY <1>1 DEF Drafts, Upload, MayChange
  <1>14. Bump(draft.revision, draft.input) /\ submission' = submission /\ op' = op
    BY DEF Upload
  <1> QED
    BY <1>10, <1>12, <1>13, <1>14, EditSound

LEMMA PatchSound ==
  ASSUME IInv, Recorded, NEW r \in Requests, Patch(r)
  PROVE  Sound
  <1>1. row \in [Files -> Rows] /\ draft \in Drafts
    BY DEF IInv, Inv, TypeOK
  <1>2. OpFits(op[r], draft.revision)
    BY DEF IInv, OpInv
  <1>3. /\ op[r].revision \in 1..(MaxRevision - 1) /\ op[r].input \in Inputs
        /\ op[r].purpose \in Purposes /\ op[r].seen \in Rows /\ op[r].file \in Files
    BY <1>2 DEF Patch, OpFits, Based
  <1>4. PICK f \in Files : f = op[r].file
    BY <1>3
  <1>5. PICK input : input = IF op[r].purpose # op[r].seen.purpose THEN Detach(op[r].input, {f}) ELSE draft.input
    OBVIOUS
  <1>6. Detach(op[r].input, {f}) \in Inputs
    BY <1>3, DetachType
  <1>7. input \in Inputs
    BY <1>1, <1>5, <1>6 DEF Drafts
  <1>8. Bump(op[r].revision, input) /\ Turns(r, Idle) /\ submission' = submission
    BY <1>4, <1>5 DEF Patch, Ends, Turns
  <1>9. draft.revision < MaxRevision
    BY <1>3, <1>8, BoundAssumption DEF Bump
  <1>10. PICK now : now = Flush(row[f], op[r].seen, Patched(op[r].seen, op[r].purpose))
    OBVIOUS
  <1>11. now \in Rows /\ Keeps(row[f], now) /\ Redecides(row[f], now)
    BY <1>1, <1>3, <1>10, PatchRow
  <1>12. row' = [row EXCEPT ![f] = now]
    BY <1>4, <1>10 DEF Patch
  <1>13. /\ row' \in [Files -> Rows] /\ row'[f] = now
         /\ \A g \in Files : MarkerKept(g) /\ (g # f => row'[g] = row[g])
    BY <1>1, <1>11, <1>12, OneRow
  <1>14. \A g \in Files : Redecides(row[g], row'[g])
    BY <1>11, <1>13 DEF Redecides
  <1>15. op' = op \/ \E q \in Requests : Turns(q, Idle)
    BY <1>8
  <1> QED
    BY <1>7, <1>8, <1>9, <1>13, <1>14, <1>15, EditSound

LEMMA PatchAfterRecoverySound ==
  ASSUME IInv, Recorded, NEW r \in Requests, NEW f \in Files,
         NEW purpose \in Purposes, PatchAfterRecovery(r, f, purpose)
  PROVE  Sound
  <1>1. row \in [Files -> Rows] /\ draft \in Drafts
    BY DEF IInv, Inv, TypeOK
  <1>2. /\ Recovered \in [Files -> Rows]
        /\ \A g \in Files : Keeps(row[g], Recovered[g]) /\ Recovered[g].purpose = row[g].purpose
    BY <1>1, RecoveredForm
  <1>3. PICK now : now = Patched(Recovered[f], purpose)
    OBVIOUS
  <1>4. Recovered[f] \in Rows
    BY <1>2
  <1>5. now \in Rows /\ now.result.marker = None /\ now.result.class = "confirmed"
    BY <1>3, <1>4, PatchedForm
  <1>6. row' = [Recovered EXCEPT ![f] = now]
    BY <1>3 DEF PatchAfterRecovery
  <1>7. row' \in [Files -> Rows] /\ row'[f] = now /\ \A g \in Files : g # f => row'[g] = Recovered[g]
    BY <1>2, <1>5, <1>6
  <1>8. ASSUME NEW g \in Files
        PROVE  MarkerKept(g) /\ Redecides(row[g], row'[g])
    <2>1. CASE g = f
      BY <2>1, <1>5, <1>7 DEF MarkerKept, Keeps, Redecides
    <2>2. CASE g # f
      BY <2>2, <1>2, <1>7 DEF MarkerKept, Redecides
    <2> QED
      BY <2>1, <2>2
  <1>9. PICK input : input = PatchedInput(draft.input, f, Recovered[f], purpose)
    OBVIOUS
  <1>10. input \in Inputs
    <2>1. draft.input \in Inputs
      BY <1>1 DEF Drafts
    <2>2. Detach(draft.input, {f}) \in Inputs
      BY <2>1, DetachType
    <2> QED
      BY <2>1, <2>2, <1>9 DEF PatchedInput
  <1>11. Bump(draft.revision, input) /\ submission' = submission /\ op' = op /\ draft.revision < MaxRevision
    BY <1>9 DEF PatchAfterRecovery, MayChange
  <1> QED
    BY <1>7, <1>8, <1>10, <1>11, EditSound

LEMMA DeleteSound ==
  ASSUME IInv, Recorded, NEW r \in Requests, Delete(r)
  PROVE  Sound
  <1>1. row \in [Files -> Rows] /\ draft \in Drafts
    BY DEF IInv, Inv, TypeOK
  <1>2. OpFits(op[r], draft.revision)
    BY DEF IInv, OpInv
  <1>3. op[r].revision \in 1..(MaxRevision - 1) /\ op[r].input \in Inputs
    BY <1>2 DEF Delete, OpFits, Based
  <1>4. PICK input : input = Detach(op[r].input, op[r].files)
    OBVIOUS
  <1>5. input \in Inputs
    BY <1>3, <1>4, DetachType
  <1>6. Bump(op[r].revision, input) /\ Turns(r, Idle) /\ submission' = submission
    BY <1>4 DEF Delete, Ends, Turns
  <1>7. draft.revision < MaxRevision
    BY <1>3, <1>6, BoundAssumption DEF Bump
  <1>8. \A f \in Files : Keeps(row[f], row[f]) /\ row[f].purpose = row[f].purpose
    BY DEF Keeps
  <1>9. row' = Gone(row, op[r].files)
    BY DEF Delete
  <1>10. row' \in [Files -> Rows] /\ \A f \in Files : MarkerKept(f) /\ row'[f].purpose = row[f].purpose
    BY <1>1, <1>8, <1>9, GoneForm
  <1>11. \A f \in Files : Redecides(row[f], row'[f])
    BY <1>10 DEF Redecides
  <1>12. op' = op \/ \E q \in Requests : Turns(q, Idle)
    BY <1>6
  <1> QED
    BY <1>5, <1>6, <1>7, <1>10, <1>11, <1>12, EditSound

LEMMA DeleteAfterRecoverySound ==
  ASSUME IInv, Recorded, NEW r \in Requests, NEW files,
         DeleteAfterRecovery(r, files)
  PROVE  Sound
  <1>1. row \in [Files -> Rows] /\ draft \in Drafts
    BY DEF IInv, Inv, TypeOK
  <1>2. /\ Recovered \in [Files -> Rows]
        /\ \A g \in Files : Keeps(row[g], Recovered[g]) /\ Recovered[g].purpose = row[g].purpose
    BY <1>1, RecoveredForm
  <1>3. row' = Gone(Recovered, files)
    BY DEF DeleteAfterRecovery
  <1>4. row' \in [Files -> Rows] /\ \A f \in Files : MarkerKept(f) /\ row'[f].purpose = row[f].purpose
    BY <1>1, <1>2, <1>3, GoneForm
  <1>5. \A f \in Files : Redecides(row[f], row'[f])
    BY <1>4 DEF Redecides
  <1>6. PICK input : input = Detach(draft.input, files)
    OBVIOUS
  <1>7. input \in Inputs
    <2>1. draft.input \in Inputs
      BY <1>1 DEF Drafts
    <2> QED
      BY <1>6, <2>1, DetachType
  <1>8. Bump(draft.revision, input) /\ submission' = submission /\ op' = op /\ draft.revision < MaxRevision
    BY <1>6 DEF DeleteAfterRecovery, MayChange
  <1> QED
    BY <1>4, <1>5, <1>7, <1>8, EditSound

-----------------------------------------------------------------------------
(* Steps that only read *)

LEMMA ReadSound ==
  ASSUME IInv, Recorded,
         UNCHANGED <<draft, row, submission>>,
         NEW r \in Requests, NEW w, Turns(r, w), OpFits(w, draft.revision),
         w.do \notin {"ocr", "flush"},
         ~overtaken /\ w.do \in {"review", "submit"} => w.input = draft.input /\ Final(draft.input, row)
  PROVE  Sound
  <1>1. IInv'
    BY ReadKeeps
  <1> QED
    BY <1>1 DEF Sound, InputKept, DecisionKept

LEMMA ReadsSound ==
  ASSUME IInv, Recorded, NEW r \in Requests,
         \/ \E uses \in [Files -> Purposes \cup {"no"}] : ReadSave(r, uses)
         \/ \E f \in Files, purpose \in Purposes : ReadPatch(r, f, purpose)
         \/ \E files : ReadDelete(r, files)
         \/ Refused(r) \/ ReadReview(r) \/ ReadSubmit(r)
  PROVE  Sound
  <1>1. row \in [Files -> Rows] /\ draft \in Drafts
    BY DEF IInv, TypeOK
  <1>2. draft.input \in Inputs /\ draft.revision \in 1..MaxRevision
    BY <1>1 DEF Drafts
  <1>3. MayChange => draft.revision \in 1..(MaxRevision - 1) /\ draft.revision <= draft.revision
    BY <1>2, BoundAssumption DEF MayChange
  <1>4. ASSUME NEW uses \in [Files -> Purposes \cup {"no"}], ReadSave(r, uses)
        PROVE  Sound
    <2>1. PICK w : w = [do |-> "save", revision |-> draft.revision, uses |-> uses]
      OBVIOUS
    <2>2. w.do = "save" /\ w.revision = draft.revision /\ w.uses = uses
      BY <2>1
    <2>3. OpFits(w, draft.revision)
      BY <2>2, <1>3, <1>4 DEF OpFits, Based, ReadSave
    <2>4. Turns(r, w) /\ UNCHANGED <<draft, row, submission>>
      BY <2>1, <1>4 DEF ReadSave, Begins, Turns
    <2> QED
      BY <2>2, <2>3, <2>4, ReadSound
  <1>5. ASSUME NEW f \in Files, NEW purpose \in Purposes, ReadPatch(r, f, purpose)
        PROVE  Sound
    <2>1. PICK w : w = [do |-> "patch", revision |-> draft.revision, input |-> draft.input,
                        file |-> f, seen |-> row[f], purpose |-> purpose]
      OBVIOUS
    <2>2. /\ w.do = "patch" /\ w.revision = draft.revision /\ w.input = draft.input
          /\ w.file = f /\ w.seen = row[f] /\ w.purpose = purpose
      BY <2>1
    <2>3. OpFits(w, draft.revision)
      BY <2>2, <1>1, <1>2, <1>3, <1>5 DEF OpFits, Based, ReadPatch
    <2>4. Turns(r, w) /\ UNCHANGED <<draft, row, submission>>
      BY <2>1, <1>5 DEF ReadPatch, Begins, Turns
    <2> QED
      BY <2>2, <2>3, <2>4, ReadSound
  <1>6. ASSUME NEW files, ReadDelete(r, files)
        PROVE  Sound
    <2>1. PICK w : w = [do |-> "delete", revision |-> draft.revision, input |-> draft.input,
                        files |-> files]
      OBVIOUS
    <2>2. w.do = "delete" /\ w.revision = draft.revision /\ w.input = draft.input
      BY <2>1
    <2>3. OpFits(w, draft.revision)
      BY <2>2, <1>2, <1>3, <1>6 DEF OpFits, Based, ReadDelete
    <2>4. Turns(r, w) /\ UNCHANGED <<draft, row, submission>>
      BY <2>1, <1>6 DEF ReadDelete, Begins, Turns
    <2> QED
      BY <2>2, <2>3, <2>4, ReadSound
  <1>7. ASSUME Refused(r)
        PROVE  Sound
    <2>1. Turns(r, Idle) /\ UNCHANGED <<draft, row, submission>>
      BY <1>7 DEF Refused, Ends, Turns
    <2>2. OpFits(Idle, draft.revision) /\ Idle.do = "idle"
      BY <1>2, IdleForm
    <2> QED
      BY <2>1, <2>2, ReadSound
  <1>8. ASSUME ReadReview(r)
        PROVE  Sound
    <2>1. PICK w : w = [do |-> "review", revision |-> draft.revision, input |-> draft.input]
      OBVIOUS
    <2>2. w.do = "review" /\ w.revision = draft.revision /\ w.input = draft.input
      BY <2>1
    <2>3. OpFits(w, draft.revision)
      BY <2>2, <1>2, <1>3, <1>8 DEF OpFits, Based, ReadReview
    <2>4. Turns(r, w) /\ UNCHANGED <<draft, row, submission>> /\ Final(draft.input, row)
      BY <2>1, <1>8 DEF ReadReview, Begins, Turns
    <2> QED
      BY <2>2, <2>3, <2>4, ReadSound
  <1>9. ASSUME ReadSubmit(r)
        PROVE  Sound
    <2>1. PICK w : w = [do |-> "submit", revision |-> draft.revision, input |-> draft.input]
      OBVIOUS
    <2>2. w.do = "submit" /\ w.revision = draft.revision /\ w.input = draft.input
      BY <2>1
    <2>3. OpFits(w, draft.revision)
      BY <2>2, <1>2, <1>3, <1>9 DEF OpFits, Based, ReadSubmit
    <2>4. Turns(r, w) /\ UNCHANGED <<draft, row, submission>>
      BY <2>1, <1>9 DEF ReadSubmit, Begins, Turns
    <2>5. ~overtaken => Final(draft.input, row)
      BY <1>9 DEF IInv, Settled, ReadSubmit, ReviewedIsFinal
    <2> QED
      BY <2>2, <2>3, <2>4, <2>5, ReadSound
  <1> QED
    BY <1>4, <1>5, <1>6, <1>7, <1>8, <1>9

LEMMA RestartSound ==
  ASSUME IInv, Recorded, Restart
  PROVE  Sound
  <1>1. TypeOK
    BY DEF IInv
  <1>2. op' = [r \in Requests |-> Idle] /\ UNCHANGED <<draft, row, submission>>
    BY DEF Restart
  <1>3. \A r \in Requests : op'[r] = Idle /\ op'[r].do = "idle"
    BY <1>2, IdleForm
  <1>4. draft.revision \in 1..MaxRevision
    BY <1>1 DEF TypeOK, Drafts
  <1>5. OpInv'
    <2>1. \A r \in Requests : OpFits(op'[r], draft'.revision)
      BY <1>2, <1>3, <1>4, IdleForm
    <2>2. op' = [r \in Requests |-> op'[r]]
      BY <1>2
    <2> QED
      BY <2>1, <2>2 DEF OpInv
  <1>6. TypeOK'
    <2>1. draft' \in Drafts /\ row' \in [Files -> Rows] /\ submission' \in Inputs \cup {None}
      BY <1>1, <1>2 DEF TypeOK
    <2> QED
      BY <1>5, <2>1, TypeStep
  <1>7. OcrInv'
    BY <1>3 DEF OcrInv, ClassKept
  <1>8. ASSUME ~overtaken'
        PROVE  ReviewInv' /\ ReviewedIsFinal' /\ FrozenIsReviewed'
    <2>1. ReviewInv /\ ReviewedIsFinal /\ FrozenIsReviewed
      BY <1>2, <1>8, UnrepairedStep
    <2> QED
      BY <1>2, <1>3, <2>1, ReadStep
  <1>9. IInv'
    BY <1>5, <1>6, <1>7, <1>8 DEF IInv, Settled
  <1> QED
    BY <1>2, <1>9 DEF Sound, InputKept, DecisionKept

-----------------------------------------------------------------------------
(* Recognition *)

\* A file that is being recognised, or whose purpose is open, is not accepted by a review.
LEMMA UnderWay ==
  ASSUME NEW f \in Files, row[f].here, row[f].ocr = "RUNNING" \/ row[f].result.class \in Unsettled
  PROVE  ~Final(draft.input, row)
  BY DEF Final

LEMMA ClaimForm ==
  ASSUME row \in [Files -> Rows], NEW f \in Files, NEW r \in Requests, Claimed(f, r)
  PROVE  /\ row' \in [Files -> Rows]
         /\ row'[f].purpose = row[f].purpose
         /\ row'[f].result.marker = r /\ row'[f].result.class = row[f].result.class
         /\ \A g \in Files : g # f => row'[g] = row[g]
  <1>1. PICK no \in BOOLEAN : no = FALSE
    OBVIOUS
  <1>2. PICK new : new = [class |-> row[f].result.class, marker |-> r, under |-> None]
    OBVIOUS
  <1>3. row[f] \in Rows
    OBVIOUS
  <1>4. new \in Results /\ new.marker = r /\ new.class = row[f].result.class
    BY <1>2, <1>3 DEF Results, Rows
  <1>5. PICK now : now = [[[row[f] EXCEPT !.ocr = "RUNNING"] EXCEPT !.old = no] EXCEPT !.result = new]
    OBVIOUS
  <1>6. now \in Rows /\ now.purpose = row[f].purpose /\ now.result = new
    BY <1>3, <1>4, <1>5 DEF Rows, OcrStatus
  <1>7. row' = [row EXCEPT ![f] = now]
    BY <1>1, <1>2, <1>3, <1>5 DEF Claimed, Rows
  <1>8. row'[f] = now /\ row' \in [Files -> Rows] /\ \A g \in Files : g # f => row'[g] = row[g]
    BY <1>6, <1>7
  <1> QED
    BY <1>4, <1>6, <1>8

\* The new attempt knows the class of its row; the attempt it replaces has lost its marker.
LEMMA ClaimKeeps ==
  ASSUME IInv, NEW f \in Files, NEW r \in Requests, Claimed(f, r), NEW w, Turns(r, w),
         w.do = "ocr", w.file = f, w.class = row[f].result.class,
         op'[r] = w, \A q \in Requests : q # r => op'[q] = op[q]
  PROVE  OcrInv'
  <1>1. row \in [Files -> Rows] /\ OcrInv
    BY DEF IInv, Inv, TypeOK
  <1>2. /\ row'[f].result.marker = r /\ row'[f].result.class = row[f].result.class
        /\ \A g \in Files : g # f => row'[g] = row[g]
    BY <1>1, ClaimForm
  <1>3. ASSUME NEW q \in Requests
        PROVE  ClassKept(q, op'[q], row')
    <2>1. CASE q = r
      BY <2>1, <1>2 DEF ClassKept
    <2>2. CASE q # r /\ op[q].do = "ocr"
      <3>1. op'[q] = op[q] /\ ClassKept(q, op[q], row)
        BY <2>2, <1>1 DEF OcrInv
      <3>2. OpFits(op[q], draft.revision)
        BY DEF IInv, OpInv
      <3>3. PICK g \in Files : g = op[q].file
        BY <2>2, <3>2 DEF OpFits
      <3>4. CASE g = f
        BY <2>2, <3>1, <3>3, <3>4, <1>2 DEF ClassKept
      <3>5. CASE g # f
        <4>1. row'[g] = row[g]
          BY <3>5, <1>2
        <4> QED
          BY <3>1, <3>3, <4>1 DEF ClassKept
      <3> QED
        BY <3>4, <3>5
    <2>3. CASE q # r /\ op[q].do # "ocr"
      BY <2>3 DEF ClassKept
    <2> QED
      BY <2>1, <2>2, <2>3
  <1> QED
    BY <1>3 DEF OcrInv

LEMMA RecognizeSound ==
  ASSUME IInv, Recorded, NEW r \in Requests, NEW f \in Files,
         Recognize(r, f)
  PROVE  Sound
  <1>1. /\ row \in [Files -> Rows] /\ draft \in Drafts /\ submission \in Inputs \cup {None}
        /\ OpInv
    BY DEF IInv, Inv, TypeOK
  <1>2. draft.input \in Inputs /\ draft.revision < MaxRevision /\ Bump(draft.revision, draft.input)
    BY <1>1 DEF Drafts, Recognize, MayChange
  <1>3. /\ draft' \in Drafts /\ draft'.status = "DRAFT" /\ draft'.input = draft.input
        /\ draft'.revision = draft.revision + 1
    BY <1>1, <1>2, BumpForm
  <1>4. draft.revision \in Nat /\ draft.revision <= draft'.revision
    BY <1>1, <1>3, BoundAssumption DEF Drafts
  <1>5. Claimed(f, r) /\ submission' = submission
    BY DEF Recognize
  <1>6. /\ row' \in [Files -> Rows] /\ row'[f].purpose = row[f].purpose
        /\ \A g \in Files : g # f => row'[g] = row[g]
    BY <1>1, <1>5, ClaimForm
  <1>7. PICK w : w = [do |-> "ocr", file |-> f, revision |-> draft.revision + 1, under |-> None,
                      class |-> row[f].result.class]
    OBVIOUS
  <1>8. w.do = "ocr" /\ w.file = f /\ w.class = row[f].result.class /\ Turns(r, w)
    BY <1>7 DEF Recognize, Begins, Turns
  <1>9. row[f].result.class \in Classes
    BY <1>1 DEF Rows, Results
  <1>10. OpFits(w, draft'.revision)
    BY <1>8, <1>9 DEF OpFits, Based
  <1>11. OpInv' /\ op'[r] = w /\ \A q \in Requests : q # r => op'[q] = op[q]
    BY <1>1, <1>3, <1>4, <1>8, <1>10, TurnType
  <1>12. OcrInv'
    BY <1>5, <1>8, <1>11, ClaimKeeps
  <1>13. TypeOK'
    BY <1>1, <1>3, <1>5, <1>6, <1>11, TypeStep
  <1>14. ReviewInv' /\ ReviewedIsFinal' /\ FrozenIsReviewed'
    <2>1. \A q \in Requests : op'[q] = op[q] \/ op'[q].do \notin {"review", "submit"}
      BY <1>8, <1>11
    <2> QED
      BY <1>1, <1>3, <2>1, EditedStep
  <1>15. IInv'
    BY <1>11, <1>12, <1>13, <1>14 DEF IInv, Settled
  <1>16. \A g \in Files : DecisionKept(g)
    BY <1>6 DEF DecisionKept
  <1> QED
    BY <1>3, <1>15, <1>16 DEF Sound, InputKept

LEMMA RecognizeUploadedSound ==
  ASSUME IInv, Recorded, NEW r \in Requests, NEW f \in Files,
         RecognizeUploaded(r, f)
  PROVE  Sound
  <1>1. /\ row \in [Files -> Rows] /\ draft \in Drafts /\ submission \in Inputs \cup {None}
        /\ OpInv /\ TypeOK
    BY DEF IInv, TypeOK
  <1>2. draft' = draft /\ submission' = submission /\ Claimed(f, r)
    BY DEF RecognizeUploaded
  <1>3. draft' \in Drafts /\ draft.revision <= draft'.revision
    BY <1>1, <1>2, BoundAssumption DEF Drafts
  <1>4. /\ row' \in [Files -> Rows] /\ row'[f].purpose = row[f].purpose
        /\ \A g \in Files : g # f => row'[g] = row[g]
    BY <1>1, <1>2, ClaimForm
  <1>5. PICK w : w = [do |-> "ocr", file |-> f, revision |-> draft.revision, under |-> draft.input,
                      class |-> row[f].result.class]
    OBVIOUS
  <1>6. w.do = "ocr" /\ w.file = f /\ w.class = row[f].result.class /\ Turns(r, w)
    BY <1>5 DEF RecognizeUploaded, Begins, Turns
  <1>7. row[f].result.class \in Classes
    BY <1>1 DEF Rows, Results
  <1>8. OpFits(w, draft'.revision)
    BY <1>6, <1>7 DEF OpFits, Based
  <1>9. OpInv' /\ op'[r] = w /\ \A q \in Requests : q # r => op'[q] = op[q]
    BY <1>1, <1>3, <1>6, <1>8, TurnType
  <1>10. OcrInv'
    BY <1>2, <1>6, <1>9, ClaimKeeps
  <1>11. TypeOK'
    BY <1>1, <1>2, <1>3, <1>4, <1>9, TypeStep
  <1>12. ~Final(draft.input, row)
    <2>1. row[f].here /\ row[f].result.class \in Unsettled
      BY DEF RecognizeUploaded, Unsettled
    <2> QED
      BY <2>1, UnderWay
  <1>13. ASSUME ~overtaken'
         PROVE  ReviewInv' /\ ReviewedIsFinal' /\ FrozenIsReviewed'
    <2>1. ReviewInv /\ ReviewedIsFinal /\ FrozenIsReviewed
      BY <1>2, <1>13, UnrepairedStep
    <2>2. \A q \in Requests : op'[q] = op[q] \/ op'[q].do \notin {"review", "submit"}
      BY <1>6, <1>9
    <2> QED
      BY <1>1, <1>2, <1>12, <2>1, <2>2, UnreviewedStep
  <1>14. IInv'
    BY <1>9, <1>10, <1>11, <1>13 DEF IInv, Settled
  <1>15. \A g \in Files : DecisionKept(g)
    BY <1>4 DEF DecisionKept
  <1> QED
    BY <1>2, <1>14, <1>15 DEF Sound, InputKept

\* An outcome is one the row can take; only an attempt whose class is open finds another purpose.
LEMMA OutcomeForm ==
  ASSUME row \in [Files -> Rows], NEW r \in Requests, op[r].file \in Files, op[r].class \in Classes,
         NEW out \in Outcomes(r)
  PROVE  /\ out \in Finds /\ out.ocr # "RUNNING"
         /\ out.purpose # row[op[r].file].purpose => op[r].class \in Unsettled
  <1>1. row[op[r].file].purpose \in Purposes
    BY DEF Rows
  <1>2. CASE op[r].class \in Unsettled
    <2>1. \/ \E p \in {"source", "proof"} : out = [ocr |-> "COMPLETE", class |-> "classified", purpose |-> p]
          \/ \E o \in {"COMPLETE", "FAILED"} : out = [ocr |-> o, class |-> "unknown", purpose |-> "other"]
      BY <1>2 DEF Outcomes
    <2> QED
      BY <1>2, <2>1 DEF Finds, OcrStatus, Classes, Purposes
  <1>3. CASE op[r].class \notin Unsettled
    <2>1. PICK o \in {"COMPLETE", "FAILED"} :
            out = [ocr |-> o, class |-> op[r].class, purpose |-> row[op[r].file].purpose]
      BY <1>3 DEF Outcomes, OpFile
    <2> QED
      BY <1>1, <2>1 DEF Finds, OcrStatus
  <1> QED
    BY <1>2, <1>3

\* An attempt that owns the marker of its file knows its class, and no review accepts the file.
LEMMA OwnerKnows ==
  ASSUME IInv, NEW r \in Requests, op[r].do = "ocr", OwnsMarker(r)
  PROVE  /\ op[r].file \in Files /\ op[r].class \in Classes
         /\ row[op[r].file].here /\ row[op[r].file].ocr = "RUNNING"
         /\ row[op[r].file].result.class = op[r].class
         /\ ~Final(draft.input, row)
  <1>1. OpFits(op[r], draft.revision) /\ ClassKept(r, op[r], row)
    BY DEF IInv, OpInv, OcrInv
  <1>2. op[r].file \in Files /\ op[r].class \in Classes
    BY <1>1 DEF OpFits
  <1>3. /\ row[op[r].file].here /\ row[op[r].file].ocr = "RUNNING"
        /\ row[op[r].file].result.marker = r
    BY DEF OwnsMarker, OpFile, Running
  <1>4. row[op[r].file].result.class = op[r].class
    BY <1>1, <1>3 DEF ClassKept
  <1>5. ~Final(draft.input, row)
    BY <1>2, <1>3, UnderWay
  <1> QED
    BY <1>2, <1>3, <1>4, <1>5

LEMMA FinishReadSound ==
  ASSUME IInv, Recorded, NEW r \in Requests, FinishRead(r)
  PROVE  Sound
  <1>1. row \in [Files -> Rows] /\ draft \in Drafts /\ TypeOK /\ OpInv /\ OcrInv
    BY DEF IInv, TypeOK
  <1>2. op[r].do = "ocr" /\ OwnsMarker(r) /\ UNCHANGED <<draft, row, submission>>
    BY DEF FinishRead, MayFinish
  <1>3. /\ op[r].file \in Files /\ op[r].class \in Classes
        /\ row[op[r].file].here /\ row[op[r].file].ocr = "RUNNING"
        /\ row[op[r].file].result.class = op[r].class /\ ~Final(draft.input, row)
    BY <1>2, OwnerKnows
  <1>4. PICK out \in Outcomes(r) :
          op' = [op EXCEPT ![r] = [do |-> "flush", file |-> op[r].file, seen |-> row[OpFile(r)],
                                   input |-> draft.input, out |-> out]]
    BY DEF FinishRead
  <1>5. out \in Finds /\ (out.purpose # row[op[r].file].purpose => op[r].class \in Unsettled)
    BY <1>1, <1>3, OutcomeForm
  <1>6. PICK w : w = [do |-> "flush", file |-> op[r].file, seen |-> row[op[r].file],
                      input |-> draft.input, out |-> out]
    OBVIOUS
  <1>7. /\ w.do = "flush" /\ w.file = op[r].file /\ w.seen = row[op[r].file]
        /\ w.input = draft.input /\ w.out = out
    BY <1>6
  <1>8. Turns(r, w)
    BY <1>4, <1>6 DEF Turns, OpFile
  <1>9. OpFits(w, draft'.revision)
    <2>1. row[op[r].file] \in Rows /\ draft.input \in Inputs
      BY <1>1, <1>3 DEF Drafts
    <2>2. row[op[r].file].result.marker = r /\ r # None
      BY <1>2, RequestsAssumption DEF OwnsMarker, OpFile
    <2> QED
      BY <2>1, <2>2, <1>3, <1>5, <1>7 DEF OpFits, Based
  <1>10. draft' \in Drafts /\ draft.revision <= draft'.revision
    BY <1>1, <1>2, BoundAssumption DEF Drafts
  <1>11. OpInv' /\ op'[r] = w /\ \A q \in Requests : q # r => op'[q] = op[q]
    BY <1>1, <1>8, <1>9, <1>10, TurnType
  <1>12. TypeOK'
    <2>1. row' \in [Files -> Rows] /\ submission' \in Inputs \cup {None}
      BY <1>1, <1>2 DEF TypeOK
    <2> QED
      BY <1>10, <1>11, <2>1, TypeStep
  <1>13. OcrInv'
    <2>1. \A f \in Files : MarkerKept(f)
      BY <1>2 DEF MarkerKept, Keeps
    <2>2. \A q \in Requests : op'[q] = op[q] \/ op'[q].do # "ocr"
      BY <1>7, <1>11
    <2> QED
      BY <1>1, <1>11, <2>1, <2>2, OcrStep
  <1>14. ASSUME ~overtaken'
         PROVE  ReviewInv' /\ ReviewedIsFinal' /\ FrozenIsReviewed'
    <2>1. ReviewInv /\ ReviewedIsFinal /\ FrozenIsReviewed
      BY <1>2, <1>14, UnrepairedStep
    <2>2. \A q \in Requests : op'[q] = op[q] \/ op'[q].do \notin {"review", "submit"}
      BY <1>7, <1>11
    <2> QED
      BY <1>1, <1>2, <1>3, <2>1, <2>2, UnreviewedStep
  <1>15. IInv'
    BY <1>11, <1>12, <1>13, <1>14 DEF IInv, Settled
  <1> QED
    BY <1>2, <1>15 DEF Sound, InputKept, DecisionKept

LEMMA FinishUploadedSound ==
  ASSUME IInv, Recorded, NEW r \in Requests, FinishUploaded(r)
  PROVE  Sound
  <1>1. row \in [Files -> Rows] /\ draft \in Drafts
    BY DEF IInv, Inv, TypeOK
  <1>2. /\ op[r].do = "ocr" /\ OwnsMarker(r) /\ UNCHANGED <<draft, submission>>
        /\ Turns(r, Idle)
    BY DEF FinishUploaded, Ends, Turns
  <1>3. /\ op[r].file \in Files /\ op[r].class \in Classes
        /\ row[op[r].file].result.class = op[r].class /\ ~Final(draft.input, row)
    BY <1>2, OwnerKnows
  <1>4. PICK f \in Files : f = op[r].file
    BY <1>3
  <1>5. PICK out \in Outcomes(r) : row' = [row EXCEPT ![f] = Found(row[f], out)]
    BY <1>4 DEF FinishUploaded, OpFile
  <1>6. out \in Finds /\ (out.purpose # row[f].purpose => op[r].class \in Unsettled)
    BY <1>1, <1>3, <1>4, OutcomeForm
  <1>7. PICK now : now = Found(row[f], out)
    OBVIOUS
  <1>8. now \in Rows /\ now.purpose = out.purpose /\ now.result.marker = None
    BY <1>1, <1>6, <1>7, FoundForm
  <1>9. Keeps(row[f], now) /\ row' = [row EXCEPT ![f] = now]
    BY <1>5, <1>7, <1>8 DEF Keeps
  <1>10. /\ row' \in [Files -> Rows] /\ row'[f] = now
         /\ \A g \in Files : MarkerKept(g) /\ (g # f => row'[g] = row[g])
    BY <1>1, <1>8, <1>9, OneRow
  <1>11. op' = op \/ \E q \in Requests : Turns(q, Idle)
    BY <1>2
  <1>12. IInv'
    BY <1>2, <1>3, <1>10, <1>11, OcrKeeps
  <1>13. \A g \in Files : DecisionKept(g)
    <2>1. row[f].result.class = "confirmed" => row'[f].purpose = row[f].purpose
      BY <1>3, <1>4, <1>6, <1>8, <1>10 DEF Unsettled
    <2> QED
      BY <1>10, <2>1 DEF DecisionKept
  <1> QED
    BY <1>2, <1>12, <1>13 DEF Sound, InputKept

LEMMA InterruptedSound ==
  ASSUME IInv, Recorded, NEW r \in Requests, Interrupted(r)
  PROVE  Sound
  <1>1. row \in [Files -> Rows] /\ draft \in Drafts
    BY DEF IInv, Inv, TypeOK
  <1>2. op[r].do = "ocr" /\ UNCHANGED <<draft, submission>> /\ Turns(r, Idle)
    BY DEF Interrupted, Ends, Turns
  <1>3. CASE OwnsMarker(r)
    <2>1. op[r].file \in Files /\ ~Final(draft.input, row)
      BY <1>2, <1>3, OwnerKnows
    <2>2. PICK f \in Files : f = op[r].file
      BY <2>1
    <2>3. PICK now : now = Fail(row[f])
      OBVIOUS
    <2>4. now \in Rows /\ now.purpose = row[f].purpose /\ now.ocr = "FAILED"
      BY <1>1, <2>3, FailForm
    <2>5. row' = [row EXCEPT ![f] = now] /\ Keeps(row[f], now)
      BY <1>3, <2>2, <2>3, <2>4 DEF Interrupted, OpFile, Keeps
    <2>6. /\ row' \in [Files -> Rows] /\ row'[f] = now
          /\ \A g \in Files : MarkerKept(g) /\ (g # f => row'[g] = row[g])
      BY <1>1, <2>4, <2>5, OneRow
    <2>7. op' = op \/ \E q \in Requests : Turns(q, Idle)
      BY <1>2
    <2>8. IInv'
      BY <1>2, <2>1, <2>6, <2>7, OcrKeeps
    <2>9. \A g \in Files : DecisionKept(g)
      BY <2>4, <2>6 DEF DecisionKept
    <2> QED
      BY <1>2, <2>8, <2>9 DEF Sound, InputKept
  <1>4. CASE ~OwnsMarker(r)
    <2>1. UNCHANGED <<draft, row, submission>>
      BY <1>2, <1>4 DEF Interrupted
    <2>2. OpFits(Idle, draft.revision) /\ Idle.do = "idle"
      BY <1>1, IdleForm DEF Drafts
    <2> QED
      BY <1>2, <2>1, <2>2, ReadSound
  <1> QED
    BY <1>3, <1>4

LEMMA AgesSound ==
  ASSUME IInv, Recorded, NEW f \in Files, Ages(f)
  PROVE  Sound
  <1>1. row \in [Files -> Rows] /\ draft \in Drafts
    BY DEF IInv, Inv, TypeOK
  <1>2. row[f].here /\ row[f].ocr = "RUNNING" /\ UNCHANGED <<draft, op, submission>>
    BY DEF Ages, Running
  <1>3. PICK yes \in BOOLEAN : yes = TRUE
    OBVIOUS
  <1>4. PICK now : now = [row[f] EXCEPT !.old = yes]
    OBVIOUS
  <1>5. row[f] \in Rows
    BY <1>1
  <1>6. /\ now \in Rows /\ now.purpose = row[f].purpose /\ now.ocr = row[f].ocr
        /\ now.result = row[f].result
    BY <1>4, <1>5 DEF Rows
  <1>7. row' = [row EXCEPT ![f] = now] /\ Keeps(row[f], now)
    <2>1. row' = [row EXCEPT ![f] = now]
      BY <1>3, <1>4 DEF Ages
    <2> QED
      BY <1>2, <1>6, <2>1 DEF Keeps
  <1>8. /\ row' \in [Files -> Rows] /\ row'[f] = now
        /\ \A g \in Files : MarkerKept(g) /\ (g # f => row'[g] = row[g])
    BY <1>1, <1>6, <1>7, OneRow
  <1>9. ~Final(draft.input, row)
    BY <1>2, UnderWay
  <1>10. IInv'
    BY <1>2, <1>8, <1>9, OcrKeeps
  <1>11. \A g \in Files : DecisionKept(g)
    BY <1>6, <1>8 DEF DecisionKept
  <1> QED
    BY <1>2, <1>10, <1>11 DEF Sound, InputKept

\* The write of an ending recognition takes its own marker away, whatever it finds; only one that
\* was not overtaken leaves the rest as it was.
LEMMA FinishWriteSound ==
  ASSUME IInv, NEW r \in Requests, FinishWrite(r), LateRecorded(r)
  PROVE  IInv' /\ (~Overtaken(r) => InputKept /\ \A f \in Files : DecisionKept(f))
  <1>1. /\ row \in [Files -> Rows] /\ draft \in Drafts /\ TypeOK
        /\ submission \in Inputs \cup {None} /\ OpInv /\ OcrInv
    BY DEF IInv, TypeOK
  <1>2. op[r].do = "flush" /\ Turns(r, Idle) /\ submission' = submission
    BY DEF FinishWrite, Ends, Turns
  <1>3. OpFits(op[r], draft.revision)
    BY <1>1 DEF OpInv
  <1>4. op[r].file \in Files /\ op[r].out \in Finds /\ op[r].seen \in Rows /\ op[r].input \in Inputs
    BY <1>2, <1>3 DEF OpFits
  <1>5. PICK f \in Files : f = op[r].file
    BY <1>4
  <1>6. PICK out \in Finds : out = op[r].out
    BY <1>4
  <1>7. PICK seen \in Rows : seen = op[r].seen
    BY <1>4
  <1>8. PICK read \in Inputs : read = op[r].input
    BY <1>4
  <1>9. /\ seen.here /\ seen.ocr = "RUNNING" /\ seen.result.marker # None
        /\ out.purpose # seen.purpose => seen.result.class \in Unsettled
    BY <1>2, <1>3, <1>6, <1>7 DEF OpFits
  <1>10. PICK new : new = Found(seen, out)
    OBVIOUS
  <1>11. new \in Rows /\ new.purpose = out.purpose /\ new.result.marker = None
    BY <1>10, FoundForm
  <1>12. PICK now : now = Flush(row[f], seen, new)
    OBVIOUS
  <1>13. /\ now \in Rows /\ now.result = new.result
         /\ now.purpose = IF new.purpose # seen.purpose THEN new.purpose ELSE row[f].purpose
    <2>1. row[f] \in Rows
      BY <1>1
    <2>2. new.result # seen.result
      BY <1>9, <1>11
    <2> QED
      BY <1>11, <1>12, <2>1, <2>2, FlushForm
  <1>14. row' = [row EXCEPT ![f] = now]
    BY <1>5, <1>6, <1>7, <1>10, <1>12 DEF FinishWrite
  <1>15. Keeps(row[f], now)
    BY <1>11, <1>13 DEF Keeps
  <1>16. /\ row' \in [Files -> Rows] /\ row'[f] = now
         /\ \A g \in Files : MarkerKept(g) /\ (g # f => row'[g] = row[g])
    BY <1>1, <1>13, <1>14, <1>15, OneRow
  <1>17. PICK found : found = FoundInput(read, f, seen, out)
    OBVIOUS
  <1>18. found \in Inputs /\ found \in {read, Detach(read, {f})}
    <2>1. Detach(read, {f}) \in Inputs
      BY DetachType
    <2> QED
      BY <1>17, <2>1 DEF FoundInput
  <1>19. PICK input : input = IF found # read THEN found ELSE draft.input
    OBVIOUS
  <1>20. draft' = [draft EXCEPT !.input = input]
    BY <1>1, <1>5, <1>6, <1>7, <1>8, <1>17, <1>19 DEF FinishWrite, Drafts
  <1>21. /\ draft' \in Drafts /\ draft'.status = draft.status /\ draft'.revision = draft.revision
         /\ draft'.input = input
    BY <1>1, <1>18, <1>19, <1>20 DEF Drafts
  <1>22. draft.revision \in 1..MaxRevision /\ draft.revision <= draft'.revision
    BY <1>1, <1>21, BoundAssumption DEF Drafts
  <1>23. OpFits(Idle, draft'.revision)
    BY <1>21, <1>22, IdleForm
  <1>24. OpInv' /\ op'[r] = Idle /\ \A q \in Requests : q # r => op'[q] = op[q]
    BY <1>1, <1>2, <1>21, <1>22, <1>23, TurnType
  <1>25. TypeOK'
    <2>1. submission' \in Inputs \cup {None}
      BY <1>1, <1>2
    <2> QED
      BY <1>16, <1>21, <1>24, <2>1, TypeStep
  <1>26. OcrInv'
    <2>1. \A q \in Requests : op'[q] = op[q] \/ op'[q].do # "ocr"
      BY <1>24, IdleForm
    <2>2. \A g \in Files : MarkerKept(g)
      BY <1>16
    <2> QED
      BY <1>1, <1>24, <2>1, <2>2, OcrStep
  <1>27. ASSUME ~Overtaken(r)
         PROVE  seen = row[f] /\ read = draft.input
    BY <1>2, <1>5, <1>7, <1>8, <1>27 DEF Overtaken
  <1>28. ASSUME ~overtaken'
         PROVE  ReviewInv' /\ ReviewedIsFinal' /\ FrozenIsReviewed'
    <2>1. ~overtaken /\ ~Overtaken(r)
      BY <1>28 DEF LateRecorded
    <2>2. ReviewInv /\ ReviewedIsFinal
      BY <2>1 DEF IInv, Settled
    <2>3. ~Final(draft.input, row)
      BY <1>9, <1>27, <2>1, UnderWay
    <2>4. \A q \in Requests : op'[q] = op[q] \/ op'[q].do \notin {"review", "submit"}
      BY <1>24, IdleForm
    <2> QED
      BY <1>1, <1>21, <2>2, <2>3, <2>4, UnreviewedStep
  <1>29. IInv'
    BY <1>24, <1>25, <1>26, <1>28 DEF IInv, Settled
  <1>30. ASSUME ~Overtaken(r)
         PROVE  InputKept
    BY <1>18, <1>19, <1>21, <1>27, <1>30 DEF InputKept
  <1>31. ASSUME ~Overtaken(r), NEW g \in Files
         PROVE  DecisionKept(g)
    <2>1. row[f].result.class = "confirmed" => row'[f].purpose = row[f].purpose
      BY <1>9, <1>11, <1>13, <1>16, <1>27, <1>31 DEF Unsettled
    <2> QED
      BY <1>16, <2>1 DEF DecisionKept
  <1> QED
    BY <1>29, <1>30, <1>31

-----------------------------------------------------------------------------
(* Review and submission *)

\* A review or a submission leaves a draft whose input is final for its files.
LEMMA ReviewedStep ==
  ASSUME IInv, Recorded,
         draft' \in Drafts, draft'.revision = draft.revision + 1, draft'.status # "DRAFT",
         ~overtaken => /\ Final(draft'.input, row')
                       /\ draft'.status = "LOCKED" => submission' = draft'.input,
         submission' \in Inputs \cup {None},
         row' \in [Files -> Rows], \A f \in Files : MarkerKept(f) /\ row'[f].purpose = row[f].purpose,
         op' = op \/ \E r \in Requests : Turns(r, Idle)
  PROVE  Sound
  <1>1. TypeOK /\ OpInv /\ OcrInv /\ draft \in Drafts
    BY DEF IInv, Inv, TypeOK
  <1>2. draft.revision \in Nat /\ draft.revision <= draft'.revision /\ draft'.revision \in 1..MaxRevision
    BY <1>1, BoundAssumption DEF Drafts
  <1>3. OpInv' /\ \A q \in Requests : op'[q] = op[q] \/ op'[q].do = "idle"
    BY <1>1, <1>2, EndsType
  <1>4. TypeOK'
    BY <1>3, TypeStep
  <1>5. OcrInv'
    BY <1>1, <1>3, OcrStep
  <1>6. ReviewInv'
    <2>1. \A q \in Requests : op'[q] = op[q] \/ op'[q].do \notin {"review", "submit"}
      BY <1>3
    <2> QED
      BY <1>1, <2>1, FencedStep
  <1>7. ASSUME ~overtaken'
        PROVE  ReviewedIsFinal' /\ FrozenIsReviewed'
    <2>1. ~overtaken
      BY <1>7 DEF Recorded, Edited
    <2> QED
      BY <2>1 DEF ReviewedIsFinal, FrozenIsReviewed
  <1>8. IInv'
    BY <1>3, <1>4, <1>5, <1>6, <1>7 DEF IInv, Settled
  <1> QED
    BY <1>8 DEF Sound, InputKept, DecisionKept

LEMMA ReviewSound ==
  ASSUME IInv, Recorded, NEW r \in Requests, Review(r)
  PROVE  Sound
  <1>1. row \in [Files -> Rows] /\ draft \in Drafts /\ submission \in Inputs \cup {None}
    BY DEF IInv, Inv, TypeOK
  <1>2. /\ op[r].do = "review" /\ draft.revision = op[r].revision /\ Turns(r, Idle)
        /\ UNCHANGED <<row, submission>>
        /\ draft' = [status |-> "REVIEW_READY", revision |-> op[r].revision + 1, input |-> op[r].input]
    BY DEF Review, Reviewed, Ends, Turns
  <1>3. OpFits(op[r], draft.revision) /\ (~overtaken => AsReviewed(op[r], draft, row))
    BY DEF IInv, OpInv, Settled, ReviewInv
  <1>4. op[r].revision \in 1..(MaxRevision - 1) /\ op[r].input \in Inputs
    BY <1>2, <1>3 DEF OpFits, Based
  <1>5. ~overtaken => op[r].input = draft.input /\ Final(draft.input, row)
    BY <1>2, <1>3 DEF AsReviewed
  <1>6. /\ draft' \in Drafts /\ draft'.revision = draft.revision + 1 /\ draft'.input = op[r].input
        /\ draft'.status = "REVIEW_READY"
    BY <1>2, <1>4, BoundAssumption DEF Drafts
  <1>7. ~overtaken => Final(draft'.input, row')
    BY <1>2, <1>5, <1>6
  <1>8. row' \in [Files -> Rows] /\ \A f \in Files : MarkerKept(f) /\ row'[f].purpose = row[f].purpose
    BY <1>1, <1>2 DEF MarkerKept, Keeps
  <1>9. op' = op \/ \E q \in Requests : Turns(q, Idle)
    BY <1>2
  <1>10. submission' \in Inputs \cup {None}
    BY <1>1, <1>2
  <1> QED
    BY <1>6, <1>7, <1>8, <1>9, <1>10, ReviewedStep

LEMMA ReviewAfterRecoverySound ==
  ASSUME IInv, Recorded, NEW r \in Requests, ReviewAfterRecovery(r)
  PROVE  Sound
  <1>1. row \in [Files -> Rows] /\ draft \in Drafts /\ submission \in Inputs \cup {None}
    BY DEF IInv, Inv, TypeOK
  <1>2. /\ MayChange /\ Final(draft.input, Recovered) /\ row' = Recovered /\ UNCHANGED <<op, submission>>
        /\ draft' = [status |-> "REVIEW_READY", revision |-> draft.revision + 1, input |-> draft.input]
    BY DEF ReviewAfterRecovery, Reviewed
  <1>3. /\ Recovered \in [Files -> Rows]
        /\ \A f \in Files : Keeps(row[f], Recovered[f]) /\ Recovered[f].purpose = row[f].purpose
    BY <1>1, RecoveredForm
  <1>4. /\ draft' \in Drafts /\ draft'.revision = draft.revision + 1 /\ draft'.input = draft.input
        /\ draft'.status = "REVIEW_READY"
    BY <1>1, <1>2, BoundAssumption DEF Drafts, MayChange
  <1>5. Final(draft'.input, row')
    BY <1>2, <1>4
  <1>6. row' \in [Files -> Rows] /\ \A f \in Files : MarkerKept(f) /\ row'[f].purpose = row[f].purpose
    BY <1>2, <1>3 DEF MarkerKept
  <1>7. submission' \in Inputs \cup {None} /\ op' = op
    BY <1>1, <1>2
  <1> QED
    BY <1>4, <1>5, <1>6, <1>7, ReviewedStep

LEMMA SubmitSound ==
  ASSUME IInv, Recorded, NEW r \in Requests, Submit(r)
  PROVE  Sound
  <1>1. row \in [Files -> Rows] /\ draft \in Drafts
    BY DEF IInv, Inv, TypeOK
  <1>2. /\ op[r].do = "submit" /\ draft.revision = op[r].revision /\ Turns(r, Idle)
        /\ row' = row /\ submission' = op[r].input
        /\ draft' = [draft EXCEPT !.status = "LOCKED", !.revision = op[r].revision + 1]
    BY DEF Submit, Submittable, Ends, Turns
  <1>3. OpFits(op[r], draft.revision) /\ (~overtaken => AsReviewed(op[r], draft, row))
    BY DEF IInv, OpInv, Settled, ReviewInv
  <1>4. op[r].revision \in 1..(MaxRevision - 1) /\ op[r].input \in Inputs
    BY <1>2, <1>3 DEF OpFits, Based
  <1>5. ~overtaken => op[r].input = draft.input /\ Final(draft.input, row)
    BY <1>2, <1>3 DEF AsReviewed
  <1>6. /\ draft' \in Drafts /\ draft'.revision = draft.revision + 1 /\ draft'.input = draft.input
        /\ draft'.status = "LOCKED"
    <2>1. PICK locked : locked = "LOCKED"
      OBVIOUS
    <2>2. PICK d : d = [draft EXCEPT !.status = locked]
      OBVIOUS
    <2>3. d \in Drafts /\ d.input = draft.input /\ d.status = locked
      BY <1>1, <2>1, <2>2 DEF Drafts
    <2>4. draft' = [d EXCEPT !.revision = op[r].revision + 1]
      BY <1>2, <2>1, <2>2 DEF Drafts
    <2>5. op[r].revision + 1 \in 1..MaxRevision
      BY <1>4, BoundAssumption
    <2> QED
      BY <1>2, <2>1, <2>3, <2>4, <2>5 DEF Drafts
  <1>7. /\ ~overtaken => Final(draft'.input, row') /\ submission' = draft'.input
        /\ submission' \in Inputs \cup {None}
    BY <1>2, <1>4, <1>5, <1>6
  <1>8. row' \in [Files -> Rows] /\ \A f \in Files : MarkerKept(f) /\ row'[f].purpose = row[f].purpose
    BY <1>1, <1>2 DEF MarkerKept, Keeps
  <1>9. op' = op \/ \E q \in Requests : Turns(q, Idle)
    BY <1>2
  <1> QED
    BY <1>6, <1>7, <1>8, <1>9, ReviewedStep

-----------------------------------------------------------------------------
(* The theorems *)

LEMMA InitSound ==
  ASSUME Init
  PROVE  IInv
  <1>1. \A r \in Requests : op[r] = Idle /\ op[r].do = "idle"
    BY IdleForm DEF Init
  <1>2. PICK uses : uses = [f \in Files |-> "no"]
    OBVIOUS
  <1>3. uses \in [Files -> Purposes \cup {"no"}]
    BY <1>2
  <1>4. PICK input : input = [by |-> 1, uses |-> uses]
    OBVIOUS
  <1>5. input \in Inputs
    BY <1>3, <1>4, BoundAssumption DEF Inputs
  <1>6. draft = [status |-> "DRAFT", revision |-> 1, input |-> input]
    BY <1>2, <1>4 DEF Init
  <1>7. draft \in Drafts /\ draft.status = "DRAFT" /\ draft.revision \in 1..MaxRevision
    BY <1>5, <1>6, BoundAssumption DEF Drafts
  <1>8. row \in [Files -> Rows] /\ submission \in Inputs \cup {None}
    BY RowTypes DEF Init
  <1>9. TypeOK
    BY <1>1, <1>7, <1>8 DEF TypeOK, Init
  <1>10. OpInv
    <2>1. \A r \in Requests : OpFits(op[r], draft.revision)
      BY <1>1, <1>7, IdleForm
    <2>2. op = [r \in Requests |-> op[r]]
      BY DEF Init
    <2> QED
      BY <2>1, <2>2 DEF OpInv
  <1>11. ReviewInv /\ OcrInv
    BY <1>1 DEF ReviewInv, AsReviewed, OcrInv, ClassKept
  <1>12. ReviewedIsFinal /\ FrozenIsReviewed
    BY <1>7 DEF ReviewedIsFinal, FrozenIsReviewed
  <1> QED
    BY <1>9, <1>10, <1>11, <1>12 DEF IInv, Settled

LEMMA NextSound ==
  ASSUME IInv, Next
  PROVE  IInv' /\ (LateWrite \/ Sound)
  <1>1. CASE \E r \in Requests : FinishWrite(r) /\ LateRecorded(r)
    <2>1. PICK r \in Requests : FinishWrite(r) /\ LateRecorded(r)
      BY <1>1
    <2>2. IInv' /\ (~Overtaken(r) => InputKept /\ \A f \in Files : DecisionKept(f))
      BY <2>1, FinishWriteSound
    <2> QED
      BY <2>1, <2>2 DEF LateWrite, Sound
  <1>2. CASE /\ \/ \E r \in Requests : Edits(r) \/ Recognition(r) \/ Submission(r)
                \/ \E f \in Files : Upload(f) \/ Ages(f)
                \/ Restart
             /\ Recorded
    <2>1. Recorded
      BY <1>2
    <2>2. ASSUME NEW r \in Requests, Edits(r)
          PROVE  Sound
      <3>1. CASE \/ \E uses \in [Files -> Purposes \cup {"no"}] : ReadSave(r, uses)
                 \/ \E f \in Files, purpose \in Purposes : ReadPatch(r, f, purpose)
                 \/ \E files \in Deletions : ReadDelete(r, files)
                 \/ Refused(r)
        BY <2>1, <3>1, ReadsSound
      <3>2. CASE \E f \in Files, purpose \in Purposes : PatchAfterRecovery(r, f, purpose)
        BY <2>1, <3>2, PatchAfterRecoverySound
      <3>3. CASE \E files \in Deletions : DeleteAfterRecovery(r, files)
        BY <2>1, <3>3, DeleteAfterRecoverySound
      <3>4. CASE Save(r)
        BY <2>1, <3>4, SaveSound
      <3>5. CASE Patch(r)
        BY <2>1, <3>5, PatchSound
      <3>6. CASE Delete(r)
        BY <2>1, <3>6, DeleteSound
      <3> QED
        BY <2>2, <3>1, <3>2, <3>3, <3>4, <3>5, <3>6 DEF Edits
    <2>3. ASSUME NEW r \in Requests, Recognition(r)
          PROVE  Sound
      <3>1. CASE \E f \in Files : Recognize(r, f)
        BY <2>1, <3>1, RecognizeSound
      <3>2. CASE \E f \in Files : RecognizeUploaded(r, f)
        BY <2>1, <3>2, RecognizeUploadedSound
      <3>3. CASE FinishRead(r)
        BY <2>1, <3>3, FinishReadSound
      <3>4. CASE FinishUploaded(r)
        BY <2>1, <3>4, FinishUploadedSound
      <3>5. CASE Interrupted(r)
        BY <2>1, <3>5, InterruptedSound
      <3> QED
        BY <2>3, <3>1, <3>2, <3>3, <3>4, <3>5 DEF Recognition
    <2>4. ASSUME NEW r \in Requests, Submission(r)
          PROVE  Sound
      <3>1. CASE ReadReview(r) \/ ReadSubmit(r)
        BY <2>1, <3>1, ReadsSound
      <3>2. CASE Review(r)
        BY <2>1, <3>2, ReviewSound
      <3>3. CASE ReviewAfterRecovery(r)
        BY <2>1, <3>3, ReviewAfterRecoverySound
      <3>4. CASE Submit(r)
        BY <2>1, <3>4, SubmitSound
      <3> QED
        BY <2>4, <3>1, <3>2, <3>3, <3>4 DEF Submission
    <2>5. ASSUME NEW f \in Files, Upload(f) \/ Ages(f)
          PROVE  Sound
      BY <2>1, <2>5, UploadSound, AgesSound
    <2>6. ASSUME Restart
          PROVE  Sound
      BY <2>1, <2>6, RestartSound
    <2>7. Sound
      BY <1>2, <2>2, <2>3, <2>4, <2>5, <2>6
    <2> QED
      BY <2>7 DEF Sound
  <1> QED
    BY <1>1, <1>2 DEF Next

LEMMA StutterSound ==
  ASSUME IInv, UNCHANGED vars
  PROVE  IInv'
  BY DEF vars, IInv, TypeOK, OpInv, ReviewInv, OcrInv, Settled, ReviewedIsFinal, FrozenIsReviewed

\* What a request remembers fits the draft and its rows whenever it may still commit, but for what a
\* late write has broken since the last edit.
THEOREM ContentInvariant == Spec => []IInv
  <1>1. Init => IInv
    BY InitSound
  <1>2. IInv /\ [Next]_vars => IInv'
    BY NextSound, StutterSound
  <1> QED
    BY <1>1, <1>2, PTL DEF Spec

\* What has been reviewed, and then frozen for the approval, is one input whose files are there, have
\* the purposes it gives them and are done with OCR, however requests and recognitions overlap; only
\* the write of a recognition that was overtaken spoils it, and only until the next edit.
THEOREM ReviewedContentHolds == Spec => []Inv
  <1>1. IInv => Inv
    BY DEF IInv, Inv, Settled
  <1>2. Spec => []IInv
    BY ContentInvariant
  <1> QED
    BY <1>1, <1>2, PTL

\* No step but a late write loses a save of the page without a new revision: one that spends none
\* takes at most one file out of the input.
THEOREM SavesAreKept == Spec => OnlyLateWritesLoseInput
  <1>1. Spec => []IInv
    BY ContentInvariant
  <1>2. IInv /\ [Next]_vars => [LateWrite \/ InputKept]_vars
    BY NextSound DEF Sound
  <1>3. Spec => [][LateWrite \/ InputKept]_vars
    BY <1>1, <1>2, PTL DEF Spec
  <1> QED
    BY <1>3 DEF OnlyLateWritesLoseInput

\* The employee's decision on a purpose outlives every recognition that had not passed its checks
\* when the decision was taken.
THEOREM DecisionsStand == Spec => ConfirmedPurposeStands
  <1>1. Spec => []IInv
    BY ContentInvariant
  <1>2. IInv /\ [Next]_vars => [LateWrite \/ \A f \in Files : DecisionKept(f)]_vars
    BY NextSound DEF Sound
  <1>3. Spec => [][LateWrite \/ \A f \in Files : DecisionKept(f)]_vars
    BY <1>1, <1>2, PTL DEF Spec
  <1> QED
    BY <1>3 DEF ConfirmedPurposeStands

=============================================================================
