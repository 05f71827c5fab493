------------------------------ MODULE OaTemplates ------------------------------
(***************************************************************************)
(* The catalog of OA templates: one reimbursement form and the travel      *)
(* forms whose approvals it may link, in one row of the database.          *)
(*                                                                         *)
(* An administrator inspects the live forms, maps their components and     *)
(* confirms; each confirmation is a new version.  Every submission and     *)
(* diagnosis reads the live forms again: a compatible edit is stored under *)
(* the same version, any other edit marks the catalog as drifted until     *)
(* it is confirmed again or undone.  Requests run on one event loop and    *)
(* interleave only where they wait for DingTalk.                           *)
(***************************************************************************)
EXTENDS FormSchemas

CONSTANTS
  Administrators, Submitters, Diagnosers,  \* requests, by what they may ask for
  Code,            \* the reimbursement form's process code
  TravelCodes,     \* the travel forms' process codes
  Forms,           \* for each code, the form there is at first and those that may
                   \* be published later, as a sequence
  Requested,       \* lists of travel codes an administrator may ask for
  Plans,           \* mappings and options an administrator may choose
  MaxEdits, MaxVersion,
  Undone           \* no row, no schema

Codes == {Code} \cup TravelCodes
Requests == Administrators \cup Submitters \cup Diagnosers
MaxConfigCasAttempts == 3

ASSUME CodesAssumption == Code \notin TravelCodes
ASSUME BoundsAssumption == MaxEdits \in Nat /\ MaxVersion \in Nat
ASSUME FormsAssumption ==
  \A c \in Codes :
    /\ IsSequence(Forms[c]) /\ Forms[c] # <<>>
    /\ \A f \in DOMAIN Forms[c] : Wellformed(Forms[c][f].items)
ASSUME RequestedAssumption == \A travel \in Requested : travel \in Seq(TravelCodes)

\* The options an administrator chooses by the options of a form are a function.
ASSUME PlansAssumption ==
  \A p \in DOMAIN Plans : \A c \in TravelCodes :
    LET types == Plans[p].travel[c].types IN types = [v \in DOMAIN types |-> types[v]]

VARIABLES
  live,     \* DingTalk's forms
  row,      \* the row of oa_template_profiles
  op        \* what each request is doing

vars == <<live, row, op>>

Idle == [at |-> "idle", travel |-> <<>>, seen |-> <<>>, reviewed |-> <<>>, plan |-> 0,
         version |-> 0, read |-> Undone, tries |-> 0, asked |-> Undone, answer |-> Undone]

\* A schema is kept by its form, code and edition; Known and Read are what they stand for.
Known == [c \in Codes |-> [f \in DOMAIN Forms[c] |->
            IF ValidForm(Forms[c][f]) THEN Components(Forms[c][f]) ELSE Undone]]
Schema(c) == [code |-> c, form |-> live[c].form, modified |-> live[c].modified]
Read(s) == [code |-> s.code, components |-> Known[s.code][s.form]]

Schemas == [code : Codes, form : Nat, modified : Nat]
OptionsOn(c) ==
  UNION {UNION {Known[c][f][id].options : id \in DOMAIN Known[c][f]} :
           f \in {f \in DOMAIN Forms[c] : Known[c][f] # Undone}}
Values == UNION {{o.value : o \in OptionsOn(c)} : c \in TravelCodes}
Mappings == {Plans[p].mapping : p \in DOMAIN Plans}
Profiles ==
  [code : TravelCodes, schema : Schemas, confirmed : Schemas,
   mapping : {Plans[p].travel[c].mapping : p \in DOMAIN Plans, c \in TravelCodes},
   option : OptionsOn(Code), types : UNION {[V -> OptionsOn(Code)] : V \in SUBSET Values}]
Rows ==
  [code : {Code}, version : 1..MaxVersion, schema : Schemas, confirmed : Schemas,
   mapping : Mappings, allowed : Seq(TravelCodes), status : {"COMPATIBLE", "DRIFTED"},
   profiles : Seq(Profiles)]

ASSUME UndoneAssumption == Undone \notin Rows

Edition == [c \in Codes |-> live[c].modified]

Init ==
  /\ live = [c \in Codes |-> [form |-> 1, modified |-> 0]]
  /\ row = Undone
  /\ op = [o \in Requests |-> Idle]

\* The designer publishes a form again; DingTalk stamps the edition.
Publish(c, form) ==
  /\ live[c].modified < MaxEdits
  /\ live' = [live EXCEPT ![c] = [form |-> form, modified |-> @.modified + 1]]
  /\ UNCHANGED <<row, op>>

-----------------------------------------------------------------------------
(* Catalogs *)

Profile(code, schema, chosen, confirmed) ==
  [code |-> code, schema |-> schema, mapping |-> chosen.mapping, option |-> chosen.option,
   types |-> chosen.types, confirmed |-> confirmed]

\* Whether a plan's mapping fits an edition of the reimbursement form.
Fits == [form \in DOMAIN Forms[Code] |-> [mapping \in Mappings |->
  Known[Code][form] # Undone
    /\ ValidTemplateMapping([code |-> Code, components |-> Known[Code][form]], mapping)]]

\* _validated_persisted_catalog, without its test of the status.
Usable(r) ==
  LET own == Read(r.schema)
      codes == {r.profiles[i].code : i \in DOMAIN r.profiles}
  IN
  /\ r.schema.code = r.code
  /\ Fits[r.schema.form][r.mapping]
  /\ r.profiles # <<>>
  /\ \A i \in DOMAIN r.profiles :
       LET p == r.profiles[i] IN
       /\ p.schema.code = p.code /\ p.code # r.code
       /\ ValidTravelMapping(Read(p.schema), p.mapping)
       /\ ExactOption(own, r.mapping, p.option)
       /\ ValidTypes(Read(p.schema), p.mapping, p.types, own, r.mapping)
  /\ Cardinality(codes) = Len(r.profiles)
  /\ r.allowed = [i \in DOMAIN r.profiles |-> r.profiles[i].code]
  /\ ValidRelation(own, r.mapping, r.code, r.allowed)

Ready(r) == r # Undone /\ r.status = "COMPATIBLE" /\ Usable(r)

Compatible(old, new, mapping) ==
  old = new \/ CompatibleChange(Read(old), Read(new), Mapped(mapping))

RefreshesProfile(p, schema, reimbursement, mapping) ==
  /\ Compatible(p.schema, schema, p.mapping)
  /\ ValidTravelMapping(Read(schema), p.mapping)
  /\ Cardinality(CurrentOptions(reimbursement, mapping, p.option.value)) = 1
  /\ p.types # <<>> =>
       DOMAIN p.types = {o.value : o \in OptionsOf(Read(schema), p.mapping)}
  /\ \A v \in DOMAIN p.types :
       Cardinality(CurrentOptions(reimbursement, mapping, p.types[v].value)) = 1

\* Whether the schemas seen (the reimbursement form first) are compatible with r.
Refreshes(r, seen) ==
  LET own == Read(seen[1]) IN
  /\ Len(seen) = Len(r.profiles) + 1
  /\ Compatible(r.schema, seen[1], r.mapping)
  /\ Fits[seen[1].form][r.mapping]
  /\ \A i \in DOMAIN r.profiles : RefreshesProfile(r.profiles[i], seen[i + 1], own, r.mapping)
  /\ ValidRelation(own, r.mapping, r.code, [i \in DOMAIN r.profiles |-> r.profiles[i].code])

\* Faulty variant: an option keeps the label it was confirmed with.
RefreshedKeepingLabels(r, seen) ==
  [r EXCEPT !.schema = seen[1], !.status = "COMPATIBLE",
     !.profiles = [i \in DOMAIN r.profiles |-> [r.profiles[i] EXCEPT !.schema = seen[i + 1]]]]

\* r with the schemas seen, and its options as those show them.
Refreshed(r, seen) ==
  LET own == Read(seen[1])
      Now(option) == CHOOSE o \in CurrentOptions(own, r.mapping, option.value) : TRUE
  IN [r EXCEPT !.schema = seen[1], !.status = "COMPATIBLE",
        !.profiles = [i \in DOMAIN r.profiles |->
           LET p == r.profiles[i] IN
           [p EXCEPT !.schema = seen[i + 1], !.option = Now(p.option),
                     !.types = [v \in DOMAIN p.types |-> Now(p.types[v])]]]]

\* Faulty variant: the write looks at the version alone.
SameVersion(r, s) == r # Undone /\ r.version = s.version

\* What the write of an observation requires of the row to be unchanged.
SameCasState(r, s) ==
  /\ r # Undone /\ r.code = s.code /\ r.version = s.version /\ r.schema = s.schema
  /\ r.profiles = s.profiles /\ r.status = s.status

-----------------------------------------------------------------------------
(* Reading the live forms, one after the other *)

ToRead(o) == <<Code>> \o op[o].travel
AllSeen(o) == Len(op[o].seen) = Len(ToRead(o))

Fetch(o) ==
  LET c == ToRead(o)[Len(op[o].seen) + 1] IN
  /\ op[o].at \in {"inspecting", "confirming", "loading", "diagnosing"} /\ ~AllSeen(o)
  /\ Known[c][live[c].form] # Undone
  /\ op' = [op EXCEPT ![o].seen = Append(@, Schema(c))]
  /\ UNCHANGED <<live, row>>

\* DingTalk does not answer, or with a form that cannot be read.
FetchFails(o) ==
  /\ op[o].at \in {"inspecting", "confirming", "loading", "diagnosing"} /\ ~AllSeen(o)
  /\ op' = [op EXCEPT ![o] = Idle]
  /\ UNCHANGED <<live, row>>

-----------------------------------------------------------------------------
(* Administrators *)

ValidHeaders(travel) ==
  /\ travel # <<>>
  /\ \A i, j \in DOMAIN travel : i # j => travel[i] # travel[j]
  /\ \A i \in DOMAIN travel : travel[i] # Code

StartInspection(a) ==
  /\ op[a].at = "idle"
  /\ \E travel \in Requested :
       /\ ValidHeaders(travel)
       /\ op' = [op EXCEPT ![a] = [Idle EXCEPT !.at = "inspecting", !.travel = travel]]
  /\ UNCHANGED <<live, row>>

\* The end of inspect_template_catalog: the row learns what was observed of it.
Inspect(a) ==
  LET same == row # Undone /\ row.code = Code
              /\ op[a].travel = [i \in DOMAIN row.profiles |-> row.profiles[i].code]
      accepted == same /\ Usable(row) /\ Refreshes(row, op[a].seen)
  IN
  /\ op[a].at = "inspecting" /\ AllSeen(a)
  /\ row' = IF accepted THEN Refreshed(row, op[a].seen)
            ELSE IF same THEN [row EXCEPT !.status = "DRIFTED"] ELSE row
  /\ op' = [op EXCEPT ![a] = [Idle EXCEPT !.at = "reviewing", !.travel = op[a].travel,
                 !.reviewed = op[a].seen, !.version = IF row = Undone THEN 0 ELSE row.version]]
  /\ UNCHANGED live

\* The administrator gives the page up, or sends the mapping of what it shows.
Leave(a) ==
  /\ op[a].at = "reviewing"
  /\ op' = [op EXCEPT ![a] = Idle]
  /\ UNCHANGED <<live, row>>

StartConfirmation(a) ==
  /\ op[a].at = "reviewing" /\ op[a].version < MaxVersion
  /\ \E plan \in DOMAIN Plans : op' = [op EXCEPT ![a].at = "confirming", ![a].plan = plan]
  /\ UNCHANGED <<live, row>>

NextVersion(a) == op[a].version + 1

Confirmed(a) ==
  LET seen == op[a].seen
      plan == Plans[op[a].plan]
      travel == op[a].travel
  IN [code |-> Code, version |-> NextVersion(a), schema |-> seen[1], confirmed |-> seen[1],
      mapping |-> plan.mapping, allowed |-> travel, status |-> "COMPATIBLE",
      profiles |-> [i \in DOMAIN travel |->
        Profile(travel[i], seen[i + 1], plan.travel[travel[i]], seen[i + 1])]]

\* Faulty variant: a confirmation of a first version does not look for a row.
WinsLoosely(a) == op[a].version = 0 \/ (row # Undone /\ row.version = op[a].version)

\* The expected version is the row's: null, that is none, when there is no row.
Wins(a) == IF row = Undone THEN op[a].version = 0 ELSE row.version = op[a].version

\* The end of confirm_template_catalog.
Confirm(a) ==
  /\ op[a].at = "confirming" /\ AllSeen(a)
  /\ op[a].seen = op[a].reviewed /\ Usable(Confirmed(a)) /\ Wins(a)
  /\ row' = Confirmed(a)
  /\ op' = [op EXCEPT ![a] = Idle]
  /\ UNCHANGED live

RefuseConfirmation(a) ==
  /\ op[a].at = "confirming" /\ AllSeen(a)
  /\ op[a].seen # op[a].reviewed \/ ~Usable(Confirmed(a)) \/ ~Wins(a)
  /\ op' = [op EXCEPT ![a] = Idle]
  /\ UNCHANGED <<live, row>>

-----------------------------------------------------------------------------
(* Submissions and diagnoses *)

Snapshot(o, at) == [Idle EXCEPT !.at = at, !.read = row, !.version = row.version,
  !.travel = [i \in DOMAIN row.profiles |-> row.profiles[i].code],
  !.tries = op[o].tries + 1, !.asked = IF op[o].asked = Undone THEN Edition ELSE op[o].asked]

\* load_fresh_submission_catalog reads the row, at first and after a lost write.
StartLoad(s) ==
  /\ op[s].at \in {"idle", "again"} /\ op[s].tries < MaxConfigCasAttempts
  /\ row # Undone /\ Usable(row)
  /\ op' = [op EXCEPT ![s] = Snapshot(s, "loading")]
  /\ UNCHANGED <<live, row>>

RefuseAgain(s) ==
  /\ op[s].at = "again"
  /\ op[s].tries = MaxConfigCasAttempts \/ ~Usable(row)
  /\ op' = [op EXCEPT ![s] = Idle]
  /\ UNCHANGED <<live, row>>

\* Faulty variant: the answer is the snapshot the attempt began with.
AnswerSnapshot(s, stored) == op[s].read

\* The answer is what is stored, read back.
Answer(s, stored) == stored

\* The rest of one attempt: the write of the observation, and the answer read back.
Load(s) ==
  LET accepted == Refreshes(op[s].read, op[s].seen) IN
  /\ op[s].at = "loading" /\ AllSeen(s)
  /\ IF ~SameCasState(row, op[s].read)
     THEN row' = row /\ op' = [op EXCEPT ![s].at = "again", ![s].seen = <<>>]
     ELSE IF ~accepted
     THEN row' = [row EXCEPT !.status = "DRIFTED"] /\ op' = [op EXCEPT ![s] = Idle]
     ELSE LET written == Refreshed(op[s].read, op[s].seen)
              kept == [written EXCEPT !.version = row.version, !.confirmed = row.confirmed,
                                      !.allowed = row.allowed, !.code = row.code]
          IN /\ row' = kept
             /\ op' = [op EXCEPT ![s] =
                  IF Ready(kept) /\ kept.version = op[s].version /\ kept.allowed = op[s].travel
                  THEN [Idle EXCEPT !.at = "answered", !.answer = Answer(s, kept), !.asked = op[s].asked]
                  ELSE [op[s] EXCEPT !.at = "again", !.seen = <<>>]]
  /\ UNCHANGED live

\* load_readonly_submission_catalog: a diagnosis may not change what it looks at.
StartDiagnosis(d) ==
  /\ op[d].at = "idle" /\ row # Undone /\ Usable(row)
  /\ op' = [op EXCEPT ![d] = Snapshot(d, "diagnosing")]
  /\ UNCHANGED <<live, row>>

Diagnose(d) ==
  /\ op[d].at = "diagnosing" /\ AllSeen(d)
  /\ op' = [op EXCEPT ![d] =
       IF Refreshes(op[d].read, op[d].seen) /\ SameCasState(row, op[d].read)
       THEN [Idle EXCEPT !.at = "answered", !.answer = Refreshed(op[d].read, op[d].seen),
                         !.asked = op[d].asked]
       ELSE Idle]
  /\ UNCHANGED <<live, row>>

Close(o) ==
  /\ op[o].at = "answered"
  /\ op' = [op EXCEPT ![o] = Idle]
  /\ UNCHANGED <<live, row>>

-----------------------------------------------------------------------------
(* Specification *)

Next ==
  \/ \E c \in Codes : \E form \in 2..Len(Forms[c]) : Publish(c, form)
  \/ \E o \in Requests : Fetch(o) \/ FetchFails(o) \/ Close(o)
  \/ \E a \in Administrators :
       StartInspection(a) \/ Inspect(a) \/ Leave(a)
       \/ StartConfirmation(a) \/ Confirm(a) \/ RefuseConfirmation(a)
  \/ \E s \in Submitters : StartLoad(s) \/ RefuseAgain(s) \/ Load(s)
  \/ \E d \in Diagnosers : StartDiagnosis(d) \/ Diagnose(d)

Spec == Init /\ [][Next]_vars

-----------------------------------------------------------------------------
(* Properties *)

\* Types of the variables, and the fields of an operation that must agree.
TypeOK ==
  /\ \A c \in Codes : live[c].modified \in 0..MaxEdits
  /\ row # Undone => row.version \in 1..MaxVersion /\ row.status \in {"COMPATIBLE", "DRIFTED"}
  /\ \A o \in Requests :
       /\ op[o].at \in {"idle", "inspecting", "reviewing", "confirming", "loading", "again",
                        "diagnosing", "answered"}
       /\ op[o].tries \in 0..MaxConfigCasAttempts /\ op[o].version \in 0..MaxVersion
       /\ Len(op[o].seen) <= Len(op[o].travel) + 1

\* What is stored can be read back and used: no refresh, confirmation or mark of
\* drift ever saves a catalog that _validated_persisted_catalog would refuse.
SavedCatalogIsUsable == row # Undone => Usable(row)

\* The module's invariant.  What is stored can be read back and used, also after
\* refreshes and confirmations that overlapped.
Inv == TypeOK /\ SavedCatalogIsUsable

SameContract(s, t, mapping) ==
  s = t \/ SchemaContract(Read(s), Mapped(mapping)) = SchemaContract(Read(t), Mapped(mapping))

\* However many edits were adopted one after the other, the forms stored are those
\* the administrator confirmed but for options and components nobody mapped.
AdoptedFormsAreAlike ==
  row # Undone =>
    /\ SameContract(row.schema, row.confirmed, row.mapping)
    /\ \A i \in DOMAIN row.profiles :
         LET p == row.profiles[i] IN SameContract(p.schema, p.confirmed, p.mapping)

Around(items, i) ==
  LET chain[j \in 0..Len(items)] == IF j = 0 THEN {} ELSE {j} \cup chain[items[j].parent]
  IN chain[i]

\* A field mapped in a form whose live edition was accepted can be filled in: neither
\* its item nor one around it is hidden or disabled, and it is in no table.
MappedFieldsCanBeFilled ==
  row # Undone /\ row.status = "COMPATIBLE" /\ row.schema.modified = live[Code].modified =>
    LET items == Forms[Code][live[Code].form].items IN
    \A i \in DOMAIN items : items[i].id \in Mapped(row.mapping) =>
      /\ \A j \in Around(items, i) : ~items[j].hidden /\ ~items[j].disabled
      /\ \A j \in Around(items, i) \ {i} : items[j].type \notin SubtableTypes

\* A submission or a diagnosis is answered from forms no older than those that were
\* live when it asked.
AnswersAreFresh ==
  \A o \in Requests : op[o].at = "answered" =>
    /\ op[o].answer.schema.modified >= op[o].asked[Code]
    /\ \A i \in DOMAIN op[o].answer.profiles :
         LET p == op[o].answer.profiles[i] IN p.schema.modified >= op[o].asked[p.code]

Choices(r) == [mapping |-> r.mapping, confirmed |-> r.confirmed, allowed |-> r.allowed,
  profiles |-> [i \in DOMAIN r.profiles |->
    LET p == r.profiles[i]
    IN <<p.code, p.mapping, p.confirmed, p.option.value,
         [v \in DOMAIN p.types |-> p.types[v].value]>>]]

\* What an administrator confirmed is what its version means: an observation in
\* flight never changes it, nor does the confirmation of another administrator
\* who reviewed the same version.
ConfirmationStands ==
  [][row # Undone =>
       /\ row'.version \in {row.version, row.version + 1}
       /\ row'.version = row.version => Choices(row') = Choices(row)]_row

\* What a submission observed too late never brings back an older edition: another
\* one, an inspection or a confirmation was there first.  (An inspection may: it reads
\* the row after the forms.)
RefreshNeverGoesBack ==
  [][\A s \in Submitters : op[s].at = "loading" /\ op'[s] # op[s] /\ row' # row =>
       /\ row'.schema.modified >= row.schema.modified
       /\ \A i \in DOMAIN row.profiles :
            row'.profiles[i].schema.modified >= row.profiles[i].schema.modified]_row
=============================================================================
