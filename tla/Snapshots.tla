------------------------------- MODULE Snapshots -------------------------------
(***************************************************************************)
(* A reimbursement's content, the snapshot it is frozen into, the command  *)
(* that creates its approval, and the approval DingTalk then shows.        *)
(*                                                                         *)
(* The company and the budget always travel together and are one field     *)
(* here, the account.  An option has a value and a label.                  *)
(***************************************************************************)
EXTENDS Subsidy

CONSTANTS
  Mapping,      \* the value of the reimbursement's travel type, by the approval's own
  ProofLimit    \* a single receipt over this amount needs a proof of payment

NoFile == "no file"
NoDay == -1
NoAmount == -1
Untitled == 0       \* what DingTalk shows for an approval is a title, never its id

Kinds == {"itinerary", "payment_proof", "hotel_bill", "other"}

\* A file's evidence: whether it is a foreign receipt, its amount in another currency or NoText,
\* its category and the kind of train.
NoEvidence == [foreign |-> FALSE, original |-> NoText, category |-> NoText, rail |-> "unknown"]

RequestTrips(input) == IF input.trips # <<>> THEN input.trips ELSE input.single
Claims(input) == ToSet(RequestTrips(input))

\* The first option with a value; a form's values are unique.
WithValue(options, v) == {o \in options : o.value = v}
Selected(options, v) == CHOOSE o \in options : o.value = v

-----------------------------------------------------------------------------
(* What recognition found out about an item's receipt *)

Evidence(files, f) == IF f \in DOMAIN files THEN files[f].evidence ELSE NoEvidence

Rail(item, seen) ==
  IF item.category # "rail_fare" \/ seen.category \notin {NoText, "other", "rail_fare"} THEN "unknown"
  ELSE IF seen.rail = "unknown" THEN item.rail
  ELSE IF item.rail = "unknown" \/ (item.rail = "high_speed" /\ seen.rail # "high_speed")
       THEN seen.rail
  ELSE item.rail

\* The owner corrected what was read; older drafts show it by a difference only.
Edited(item, seen) == item.edited \/ (item.original # NoText /\ item.original # seen.original)

ApplyEvidence(files, input) ==
  [input EXCEPT !.items =
     [i \in DOMAIN input.items |->
        LET item == input.items[i]
            seen == Evidence(files, item.source)
        IN [item EXCEPT !.edited = Edited(item, seen),
                        !.count = IF item.source # NoFile THEN 1 ELSE @,
                        !.rail = Rail(item, seen),
                        !.foreign = @ \/ seen.foreign \/ seen.original # NoText,
                        !.original = IF seen.original # NoText /\ ~Edited(item, seen)
                                     THEN seen.original ELSE @]]]

-----------------------------------------------------------------------------
(* Ready for review: what is checked of the input, the files and the approvals *)

NeedsCny(item) == item.foreign \/ item.original # NoText

Complete(input) ==
  /\ \A i \in DOMAIN input.items :
       LET item == input.items[i]
       IN item.day # NoDay /\ item.amount # NoAmount /\ (NeedsCny(item) => item.confirmed)
  /\ \A shown \in input.editing : shown = RequestTrips(input)

Calculable(input) ==
  /\ Complete(input) /\ Claimable(Claims(input))
  /\ input.items = <<>> => Total(Subsidies(Claims(input))) > 0

PaymentProofRequired(item) ==
  item.count = 1 /\ item.amount > ProofLimit /\ ~(item.category = "rail_fare" /\ item.rail = "high_speed")

ProvedBy(item, files) ==
  LET seen == Evidence(files, item.source)
      known == [item EXCEPT !.count = IF item.source # NoFile THEN 1 ELSE @, !.rail = Rail(item, seen)]
  IN /\ item.category = "lodging" => item.proofs["hotel_bill"] # <<>>
     /\ PaymentProofRequired(known) => item.proofs["payment_proof"] # <<>>
     /\ item.ride => item.proofs["itinerary"] # <<>>
     /\ (NeedsCny(item) \/ seen.foreign \/ seen.original # NoText) => item.confirmed

Sources(input) == {input.items[i].source : i \in DOMAIN input.items} \ {NoFile}
Active(files) == {f \in DOMAIN files : files[f].status = "ACTIVE"}

Settled(files) ==
  \A f \in DOMAIN files :
    /\ files[f].status \notin {"RESERVED", "WRITING", "DELETING"}
    /\ files[f].status = "ACTIVE" =>
         /\ files[f].ocr # "RUNNING" /\ files[f].sorted
         /\ files[f].role = "EXPENSE_SOURCE" => files[f].ocr # "NOT_REQUESTED"

\* Every reference names a file of the right role and kind.
References(input, files) ==
  /\ \A f \in Sources(input) \cup input.dismissed :
       f \in Active(files) /\ files[f].role = "EXPENSE_SOURCE"
  /\ \A i, j \in DOMAIN input.items : i # j =>
       ToSet(input.items[i].proofs["other"]) \cap ToSet(input.items[j].proofs["other"]) = {}
  /\ \A i \in DOMAIN input.items, k \in Kinds : \A f \in ToSet(input.items[i].proofs[k]) :
       f \in Active(files) /\ files[f].role = "ATTACHMENT_ONLY" /\ files[f].kind = k

\* What an input may say of its receipts: each is one item's or dismissed, and papers of an
\* item's own stand in for a receipt.
OneDisposition(input) ==
  \A i \in DOMAIN input.items :
    LET item == input.items[i] IN
    item.source # NoFile =>
      /\ item.source \notin input.dismissed /\ item.proofs["other"] = <<>>
      /\ \A j \in DOMAIN input.items : i # j => input.items[j].source # item.source

Recognized(files) ==
  {f \in Active(files) : files[f].role = "EXPENSE_SOURCE" /\ files[f].ocr \in {"COMPLETE", "FAILED"}}

\* Faulty variant: a receipt may be left without an item and without being dismissed.
FilesFitIgnoring(input, files) ==
  /\ Settled(files) /\ References(input, files)
  /\ \A i \in DOMAIN input.items : ProvedBy(input.items[i], files)

\* No receipt is ignored in silence.
FilesFit(input, files) ==
  /\ Settled(files) /\ References(input, files)
  /\ \A i \in DOMAIN input.items : ProvedBy(input.items[i], files)
  /\ Recognized(files) \subseteq Sources(input) \cup input.dismissed

FilesReady(input, files) ==
  /\ input.items # <<>> => Active(files) # {}
  /\ FilesFit(input, files)

ItemDays(input) == {input.items[i].day : i \in DOMAIN input.items}
TypeLabel(types, own) == Selected(types, Mapping[own]).label

\* The linked approvals are of one type and one version, the trips are theirs day by day, and
\* without trips the expenses fall at least partly into them.
RelatedReady(related, version, types, input) ==
  LET rows == ToSet(related)
      trips == Claims(input)
      first == Min({r.start : r \in rows})
      last == Max({r.end : r \in rows})
  IN /\ related # <<>>
     /\ \A r \in rows : r.version = version /\ r.own \in DOMAIN Mapping
     /\ Cardinality({r.own : r \in rows}) = 1
     /\ \A t \in trips : \A r \in rows :
          t.purpose # NoText /\ t.purpose = PurposeOf(TypeLabel(types, r.own), r.own)
     /\ input.trips # <<>> =>
          /\ Len(input.trips) = Len(related)
          /\ \A t \in trips : \E r \in rows :
               t.approval = r.id /\ Day(t.from) = r.start /\ Day(t.to) = r.end
     /\ trips # {} => \A t \in trips : first <= Day(t.from) /\ Day(t.to) <= last
     /\ trips = {} /\ input.items # <<>> =>
          first <= Max(ItemDays(input)) /\ Min(ItemDays(input)) <= last

\* The same, as the snapshot's source demands it once more.
RelatedSources(related, version, types, input) ==
  /\ RelatedReady(related, version, types, input)
  /\ \A i \in DOMAIN related :
       /\ related[i].start <= related[i].end
       /\ \A j \in DOMAIN related : i # j => related[i].id # related[j].id

-----------------------------------------------------------------------------
(* The snapshot *)

Occurrences(input) ==
  FlattenSeq([i \in DOMAIN input.items |->
    LET item == input.items[i]
    IN (IF item.source # NoFile THEN <<item.source>> ELSE <<>>) \o item.proofs["other"]
         \o item.proofs["hotel_bill"] \o item.proofs["itinerary"] \o item.proofs["payment_proof"]])

\* Each item's receipt and proofs once, then the files no item names in their upload order.
Manifest(input, files) ==
  LET named == Occurrences(input)
      rest == Active(files) \ ToSet(named)
  IN FoldLeft(LAMBDA listed, f : IF f \in ToSet(listed) THEN listed ELSE Append(listed, f), <<>>, named)
       \o SetToSortSeq(rest, LAMBDA f, g : files[f].order < files[g].order)

Description(items, lines) ==
  [expenses |-> [i \in DOMAIN items |-> <<items[i].day, items[i].amount>>],
   subsidies |-> {<<l.paid, l.total>> : l \in lines}]

Expenses(items) ==
  FoldLeft(LAMBDA total, item : total + item.amount, 0, items)

Period(related) ==
  [start |-> Min({r.start : r \in ToSet(related)}), end |-> Max({r.end : r \in ToSet(related)})]

FormValues(account, type, items, lines, related) ==
  LET p == Period(related) IN
  [account |-> account.value, travelType |-> type.value, startDate |-> p.start, endDate |-> p.end,
   durationDays |-> p.end - p.start + 1, description |-> Description(items, lines),
   reimbursementAmount |-> Expenses(items) + Total(lines),
   relatedApprovals |-> [i \in DOMAIN related |-> related[i].id]]

\* build_snapshot of a draft under the catalog's forms; whether it is valid is a matter of its own.
Build(draft, form, input) ==
  LET type == Selected(form.types, Mapping[draft.related[1].own])
      account == Selected(form.accounts, draft.account)
      lines == Subsidies(Claims(input))
      files == Manifest(input, draft.files)
  IN [revision |-> draft.revision, version |-> draft.version, form |-> form,
      account |-> account, type |-> type, input |-> input, project |-> account.label,
      lines |-> lines, period |-> Period(draft.related), related |-> draft.related,
      files |-> [i \in DOMAIN files |-> [id |-> files[i], file |-> draft.files[files[i]]]],
      mode |-> IF files = <<>> THEN "excel_only" ELSE "bundle_and_excel",
      values |-> FormValues(account, type, input.items, lines, draft.related)]

-----------------------------------------------------------------------------
(* What every reader of a snapshot demands of it again *)

SnapshotFiles(s) == {s.files[i].id : i \in DOMAIN s.files}
FileOf(s, f) == s.files[CHOOSE i \in DOMAIN s.files : s.files[i].id = f].file

SoundForm(s) ==
  /\ s.account \in s.form.accounts /\ s.type \in s.form.types
  /\ s.project = s.account.label

SoundFiles(s) ==
  LET support == {f \in SnapshotFiles(s) : FileOf(s, f).role = "ATTACHMENT_ONLY"}
      sources == SnapshotFiles(s) \ support
      recognized == {f \in sources : FileOf(s, f).ocr \in {"COMPLETE", "FAILED"}}
  IN /\ Cardinality(SnapshotFiles(s)) = Len(s.files)
     /\ s.mode = "excel_only" => s.input.items = <<>> /\ s.files = <<>> /\ Total(s.lines) > 0
     /\ s.mode = "bundle_and_excel" => s.files # <<>>
     /\ recognized = Sources(s.input) \cup s.input.dismissed
     /\ \A f \in sources : FileOf(s, f).ocr # "NOT_REQUESTED"
     /\ Sources(s.input) \cap s.input.dismissed = {}
     /\ \A i, j \in DOMAIN s.input.items :
          i # j /\ s.input.items[i].source # NoFile => s.input.items[i].source # s.input.items[j].source
     /\ \A i \in DOMAIN s.input.items :
          LET item == s.input.items[i] IN
          /\ \A k \in Kinds : \A f \in ToSet(item.proofs[k]) : f \in support /\ FileOf(s, f).kind = k
          /\ \A j \in DOMAIN s.input.items : i # j =>
               ToSet(item.proofs["other"]) \cap ToSet(s.input.items[j].proofs["other"]) = {}
          /\ item.proofs["other"] # <<>> => item.source = NoFile
          /\ item.ride => item.proofs["itinerary"] # <<>>
          /\ NeedsCny(item) => item.confirmed
          /\ item.source # NoFile => item.count = 1
          /\ PaymentProofRequired(item) => item.proofs["payment_proof"] # <<>>
          /\ item.category = "lodging" => item.proofs["hotel_bill"] # <<>>

SoundTrips(s) ==
  LET trips == Claims(s.input)
      days == IF trips # {} THEN UNION {Days(t) : t \in trips} ELSE ItemDays(s.input)
  IN /\ \A t \in Merged(trips) :
          Payable(t) /\ (t.purpose = "same_city_project" => t.attended # NoDays)
     /\ s.lines = Subsidies(trips)
     /\ s.input.items = <<>> => Total(s.lines) > 0
     /\ s.period = Period(s.related)
     /\ days # {} => Min(days) <= s.period.end /\ s.period.start <= Max(days)
     /\ \A i \in DOMAIN s.related :
          /\ s.related[i].version = s.version /\ s.related[i].start <= s.related[i].end
          /\ s.related[i].own \in DOMAIN Mapping /\ Mapping[s.related[i].own] = s.type.value
          /\ \A j \in DOMAIN s.related : i # j => s.related[i].id # s.related[j].id
          /\ s.related[i].department = s.related[1].department
     /\ \A t \in trips : t.purpose # NoText /\ t.purpose = PurposeOf(s.type.label, s.related[1].own)

Sound(s) ==
  /\ SoundForm(s) /\ SoundFiles(s) /\ s.related # <<>> /\ SoundTrips(s)
  /\ s.values = FormValues(s.account, s.type, s.input.items, s.lines, s.related)

-----------------------------------------------------------------------------
(* The command, and the approval as DingTalk shows it *)

\* Only what was generated is attached: the bundle of the files, then the workbook.
Attachments(s) == IF s.mode = "excel_only" THEN <<"xlsx">> ELSE <<"pdf", "xlsx">>

\* One date range field takes the place of two dates and a duration.
Command(s, user, department) ==
  [originator |-> user, department |-> department,
   account |-> s.values.account, travelType |-> s.values.travelType,
   period |-> <<s.values.startDate, s.values.endDate>>,
   description |-> s.values.description, reimbursementAmount |-> s.values.reimbursementAmount,
   relatedApprovals |-> s.values.relatedApprovals,
   attachments |-> Attachments(s)]

Plain == {"originator", "department", "account", "travelType", "period", "description",
          "reimbursementAmount", "attachments"}

\* A relation is shown as its ids, or as titles with the ids beside them.
Shown(command, titles) ==
  [plain |-> [k \in Plain |-> command[k]],
   relation |-> IF titles THEN [i \in DOMAIN command.relatedApprovals |-> Untitled]
                ELSE command.relatedApprovals,
   beside |-> IF titles THEN command.relatedApprovals ELSE <<>>]

\* Faulty variant: titles stand for whatever was linked.
TitlesMatch(command, instance) ==
  instance.relation = command.relatedApprovals \/ instance.beside # <<>>

RelationMatches(command, instance) ==
  instance.relation = command.relatedApprovals \/ instance.beside = command.relatedApprovals

Matches(command, instance) ==
  /\ \A k \in Plain : instance.plain[k] = command[k]
  /\ RelationMatches(command, instance)
=============================================================================
