------------------------------ MODULE TravelForms ------------------------------
(***************************************************************************)
(* What a travel approval says, read by the template it was filed with.    *)
(*                                                                         *)
(* An approval's values are a function from component ids to a type and a  *)
(* value; DingTalk repeats no component.  A date is a number, or NoDate    *)
(* when the text is none.  An option has a value, a label and perhaps a    *)
(* key; texts are strings without blanks at their ends.                    *)
(***************************************************************************)
EXTENDS Integers, Sequences, FiniteSets

CONSTANTS
  Template,        \* by process code: the catalog's travel profiles
  CompanyOptions,  \* the reimbursement form's options now
  BudgetOptions,
  Squeezed         \* each text without any blank

\* What a form offers in one component is a list.
ASSUME OptionsAssumption ==
  /\ IsFiniteSet(CompanyOptions) /\ IsFiniteSet(BudgetOptions)
  /\ \A code \in DOMAIN Template : \A id \in DOMAIN Template[code].options :
       IsFiniteSet(Template[code].options[id])

NoId == "no id"
NoDate == -1
Nothing == <<>>    \* no option, no dates

-----------------------------------------------------------------------------
(* The dates of the trip *)

Span(start, end) ==
  IF start # NoDate /\ end # NoDate /\ start <= end THEN <<start, end>> ELSE Nothing

\* A range is its two ends and perhaps its length, counted with or without the last day.
RangeDates(v) ==
  IF /\ Len(v) \in {2, 3} /\ v[1] # NoDate /\ v[2] # NoDate
     /\ Len(v) = 3 => v[3] \in {v[2] - v[1], v[2] - v[1] + 1}
  THEN Span(v[1], v[2]) ELSE Nothing

\* The one date a row of an itinerary holds under a name.
RowDate(row, name) == IF Len(row[name]) = 1 THEN row[name][1] ELSE NoDate

\* Faulty variant: a trip of several legs ends with its last row.
ItineraryInOrder(rows) ==
  IF rows # <<>> /\ \A i \in DOMAIN rows :
       Span(RowDate(rows[i], "startTime"), RowDate(rows[i], "endTime")) # Nothing
  THEN <<RowDate(rows[1], "startTime"), RowDate(rows[Len(rows)], "endTime")>>
  ELSE Nothing

\* From the first start to the last end of the rows, whatever their order.
ItineraryDates(rows) ==
  LET starts == {RowDate(rows[i], "startTime") : i \in DOMAIN rows}
      ends == {RowDate(rows[i], "endTime") : i \in DOMAIN rows}
  IN IF rows # <<>> /\ \A i \in DOMAIN rows :
          Span(RowDate(rows[i], "startTime"), RowDate(rows[i], "endTime")) # Nothing
     THEN <<CHOOSE d \in starts : \A e \in starts : d <= e,
            CHOOSE d \in ends : \A e \in ends : d >= e>>
     ELSE Nothing

ComponentDate(values, id) == IF id \in DOMAIN values THEN values[id].value ELSE NoDate

TripDates(code, values) ==
  LET t == Template[code] IN
  IF t.startDate # t.endDate
  THEN Span(ComponentDate(values, t.startDate), ComponentDate(values, t.endDate))
  ELSE IF t.startDate \notin DOMAIN values THEN Nothing
  ELSE LET v == values[t.startDate] IN
       IF v.type = "DDDateRangeField" THEN RangeDates(v.value)
       ELSE IF v.type \in {"TableField", "DDTableField"} THEN ItineraryDates(v.value)
       ELSE Nothing

\* For a statement about them: the dates that are read, and the days they name.
DatesAreNumbers(code, values) ==
  LET t == Template[code]
      v == values[t.startDate]
  IN IF t.startDate # t.endDate
     THEN {ComponentDate(values, t.startDate), ComponentDate(values, t.endDate)} \subseteq Int
     ELSE t.startDate \in DOMAIN values =>
       CASE v.type = "DDDateRangeField" -> v.value \in Seq(Int)
         [] v.type \in {"TableField", "DDTableField"} ->
              /\ DOMAIN v.value = 1..Len(v.value) /\ Len(v.value) \in Nat
              /\ \A i \in DOMAIN v.value, name \in {"startTime", "endTime"} :
                   RowDate(v.value[i], name) \in Int
         [] OTHER -> TRUE

DaysNamed(code, values) ==
  LET t == Template[code]
      v == values[t.startDate]
  IN IF t.startDate # t.endDate
     THEN ComponentDate(values, t.startDate)..ComponentDate(values, t.endDate)
     ELSE IF t.startDate \notin DOMAIN values THEN {}
     ELSE CASE v.type = "DDDateRangeField" -> v.value[1]..v.value[2]
            [] v.type \in {"TableField", "DDTableField"} ->
                 UNION {RowDate(v.value[i], "startTime")..RowDate(v.value[i], "endTime") :
                          i \in DOMAIN v.value}
            [] OTHER -> {}

-----------------------------------------------------------------------------
(* Its company, its budget and its type, as options of the reimbursement form *)

\* The component mapped, or else the only one that bears the field's name.
SourceComponent(t, field) ==
  IF t[field] # NoId THEN t[field]
  ELSE IF Cardinality(t.titled[field]) = 1 THEN CHOOSE id \in t.titled[field] : TRUE
  ELSE NoId

Chosen(options, raw) == {o \in options : raw \in {o.value, o.label, o.key}}
Only(set) == IF Cardinality(set) = 1 THEN CHOOSE x \in set : TRUE ELSE Nothing

\* What the approval's own form calls the option; keys mean nothing in another form.
Tokens(field, source, raw) ==
  IF source = {} THEN {raw}
  ELSE LET o == Only(Chosen(source, raw)) IN
       IF o = Nothing THEN {}
       ELSE IF field = "budgetCode" THEN {o.label} ELSE {o.value, o.label}

\* The whole of a text; budgets are compared without their blanks.
Match(field, tokens, o) ==
  IF field = "budgetCode"
  THEN {Squeezed[x] : x \in tokens} \cap {Squeezed[o.value], Squeezed[o.label]} # {}
  ELSE tokens \cap {o.value, o.label} # {}

\* Faulty variant: the approval's value is looked up in the reimbursement form itself.
OptionOfRawValue(code, values, field, options) ==
  LET id == SourceComponent(Template[code], field) IN
  IF id \notin DOMAIN values THEN Nothing ELSE Only(Chosen(options, values[id].value))

\* The option of the reimbursement form an approval's value stands for, if only one does.
AccountingOption(code, values, field, options) ==
  LET t == Template[code]
      id == SourceComponent(t, field)
      source == IF id \in DOMAIN t.options THEN t.options[id] ELSE {}
  IN IF id = NoId \/ id \notin DOMAIN values THEN Nothing
     ELSE Only({o \in options : Match(field, Tokens(field, source, values[id].value), o)})

\* The option of the approval's type and its own value, or the template's fixed option.
TypeOption(code, values) ==
  LET t == Template[code]
      source == IF t.travelType \in DOMAIN t.options THEN t.options[t.travelType] ELSE {}
      own == Only(Chosen(source, values[t.travelType].value))
  IN IF t.travelType = NoId /\ t.types = <<>> THEN [option |-> t.option, own |-> NoId]
     ELSE IF t.travelType \notin DOMAIN values THEN [option |-> Nothing, own |-> NoId]
     ELSE IF own = Nothing \/ own.value \notin DOMAIN t.types
     THEN [option |-> Nothing, own |-> NoId]
     ELSE [option |-> t.types[own.value], own |-> own.value]
=============================================================================
