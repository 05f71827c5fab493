------------------------------ MODULE FormSchemas ------------------------------
(***************************************************************************)
(* Forms of OA templates, and what the backend makes of them.              *)
(*                                                                         *)
(* A raw form is what DingTalk serves: the items of its tree in preorder,  *)
(* each with the index of the item around it (0 for none).  A schema is    *)
(* the flat, normalised form the backend stores and compares.  Names and   *)
(* titles are left out; a fingerprint is injective (SHA-256), so that      *)
(* schemas have equal fingerprints when they are equal.                    *)
(***************************************************************************)
EXTENDS Integers, Sequences, FiniteSets

LayoutTypes == {"FieldGroup"}
SubtableTypes == {"DDTableField", "TableField"}
NoId == "no id"
NoPolicy == [mode |-> "NONE", codes |-> {}]

-----------------------------------------------------------------------------
(* From a raw form to a schema *)

IsSequence(s) == Len(s) \in Nat /\ DOMAIN s = 1..Len(s)

\* What can be said of any tree of items written down in preorder.
Wellformed(items) ==
  /\ IsSequence(items)
  /\ \A i \in DOMAIN items :
       /\ items[i].parent \in 0..(i - 1) /\ IsSequence(items[i].options)
       /\ items[i].hidden \in BOOLEAN /\ items[i].disabled \in BOOLEAN

HasChildren(items, i) == \E j \in DOMAIN items : items[j].parent = i

\* What the containers around an item hand down to it.
Above(items) ==
  LET above[i \in 0..Len(items)] ==
        IF i = 0 \/ items[i].parent = 0
        THEN [disabled |-> FALSE, hidden |-> FALSE, table |-> FALSE, complex |-> FALSE,
              owner |-> NoId]
        ELSE LET p == items[items[i].parent]
                 up == above[items[i].parent]
             IN [disabled |-> up.disabled \/ p.disabled,
                 hidden   |-> up.hidden \/ p.hidden,
                 table    |-> up.table \/ p.type \in SubtableTypes,
                 complex  |-> up.complex \/ p.type \notin LayoutTypes,
                 owner    |-> IF p.id = NoId THEN up.owner ELSE p.id]
  IN above

\* Options name a value each, no two the same, nor the same key if they have one.
ValidOptions(options) ==
  \A i, j \in DOMAIN options : i # j =>
    /\ options[i].value # options[j].value
    /\ options[i].key # NoId => options[i].key # options[j].key

\* A relation's policy: unknown unless the form lists templates.
RelatedTemplatePolicy(item) ==
  IF item.type # "RelateField" THEN NoPolicy
  ELSE IF item.templates = {} THEN [mode |-> "UNKNOWN", codes |-> {}]
  ELSE [mode |-> "RESTRICTED", codes |-> item.templates]

Component(items, i) ==
  LET item == items[i]
      above == Above(items)[i]
  IN [type |-> item.type, face |-> item.face, required |-> item.required,
      disabled |-> item.disabled, hidden |-> item.hidden,
      aboveDisabled |-> above.disabled, aboveHidden |-> above.hidden,
      owner |-> above.owner, nested |-> item.parent # 0, subtable |-> above.table, complex |-> above.complex,
      format |-> item.format, options |-> {item.options[k] : k \in DOMAIN item.options},
      policy |-> RelatedTemplatePolicy(item)]

ValidForm(form) ==
  LET items == form.items
      named == {i \in DOMAIN items : items[i].id # NoId}
  IN /\ named # {} /\ form.status = "PUBLISHED"
     /\ \A i \in DOMAIN items : i \notin named => HasChildren(items, i)
     /\ \A i, j \in named : i # j => items[i].id # items[j].id
     /\ \A i \in named : ValidOptions(items[i].options)

\* The components of a valid form, by their ids.
Components(form) ==
  LET items == form.items
      named == {i \in DOMAIN items : items[i].id # NoId}
  IN [id \in {items[i].id : i \in named} |->
        Component(items, CHOOSE i \in named : items[i].id = id)]

-----------------------------------------------------------------------------
(* Which component a logical field may be mapped to *)

ReimbursementFields ==
  [company |-> {"DDSelectField"}, budgetCode |-> {"DDSelectField"}, travelType |-> {"DDSelectField"},
   startDate |-> {"DDDateField", "DDDateRangeField"},
   endDate |-> {"DDDateField", "DDDateRangeField"},
   durationDays |-> {"NumberField", "DDDateRangeField"},
   description |-> {"TextField", "TextareaField"},
   reimbursementAmount |-> {"MoneyField", "NumberField"},
   relatedApprovals |-> {"RelateField"}, attachments |-> {"DDAttachment"}]

TravelFields ==
  [startDate |-> {"DDDateField", "DDDateRangeField"} \cup SubtableTypes,
   endDate |-> {"DDDateField", "DDDateRangeField"} \cup SubtableTypes,
   company |-> {"DDSelectField", "TextField"},
   budgetCode |-> {"DDSelectField", "TextField"},
   travelType |-> {"DDSelectField"}]

\* Faulty variant: a component below a hidden or disabled container counts as shown.
ShownItself(c) == ~c.disabled /\ ~c.hidden

Shown(c) == ~c.disabled /\ ~c.hidden /\ ~c.aboveDisabled /\ ~c.aboveHidden

ComponentSupports(c, field, types) ==
  /\ ~c.subtable
  /\ c.complex => field \in {"startDate", "endDate"} /\ c.type \in SubtableTypes
  /\ Shown(c) /\ c.type \in types
  /\ c.type = "DDSelectField" => c.options # {}
  /\ field \in {"startDate", "endDate", "durationDays"}
     /\ c.type \in {"DDDateField", "DDDateRangeField"} => c.format = "yyyy-MM-dd"

UnmappedRequired(schema, mapped) ==
  {id \in DOMAIN schema.components \ mapped :
     LET c == schema.components[id] IN ~c.subtable /\ c.required /\ Shown(c)}

Mapped(mapping) == {mapping[f] : f \in DOMAIN mapping}

ValidMapping(schema, mapping, fields, reusable) ==
  /\ DOMAIN mapping = DOMAIN fields
  /\ Mapped(mapping) \subseteq DOMAIN schema.components
  /\ \A f \in DOMAIN mapping :
       LET c == schema.components[mapping[f]]
       IN /\ ComponentSupports(c, f, fields[f])
          /\ c.type \notin reusable =>
               \A g \in DOMAIN mapping : g # f => mapping[g] # mapping[f]

ValidTemplateMapping(schema, mapping) ==
  /\ ValidMapping(schema, mapping, ReimbursementFields, {"DDDateRangeField"})
  /\ UnmappedRequired(schema, Mapped(mapping)) = {}
  /\ LET dates == {mapping[f] : f \in {"startDate", "endDate", "durationDays"}}
     IN (\E id \in dates : schema.components[id].type = "DDDateRangeField")
           => Cardinality(dates) = 1

\* Catalogs confirmed before the optional fields existed stay readable.
ValidTravelMapping(schema, mapping) ==
  LET fields == [f \in {"startDate", "endDate"} \cup (DOMAIN TravelFields \cap DOMAIN mapping)
                   |-> TravelFields[f]]
      whole == SubtableTypes \cup {"DDDateRangeField"}
  IN /\ ValidMapping(schema, mapping, fields, whole)
     /\ (\E f \in {"startDate", "endDate"} : schema.components[mapping[f]].type \in whole)
          => mapping["startDate"] = mapping["endDate"]

-----------------------------------------------------------------------------
(* Options of the travel type, and the templates a relation may name *)

OptionsOf(schema, mapping) ==
  IF "travelType" \in DOMAIN mapping /\ mapping["travelType"] \in DOMAIN schema.components
  THEN schema.components[mapping["travelType"]].options
  ELSE {}

ExactOption(schema, mapping, option) == option \in OptionsOf(schema, mapping)

\* types gives each option of the approval's form one of the reimbursement's.
ValidTypes(schema, mapping, types, reimbursement, reimbursementMapping) ==
  IF "travelType" \notin DOMAIN mapping THEN types = <<>>
  ELSE /\ OptionsOf(schema, mapping) # {}
       /\ DOMAIN types = {o.value : o \in OptionsOf(schema, mapping)}
       /\ \A v \in DOMAIN types : ExactOption(reimbursement, reimbursementMapping, types[v])

ValidRelation(schema, mapping, own, allowed) ==
  LET policy == schema.components[mapping["relatedApprovals"]].policy
      codes == {allowed[i] : i \in DOMAIN allowed}
  IN /\ codes # {} /\ own \notin codes /\ Cardinality(codes) = Len(allowed)
     /\ policy # NoPolicy
     /\ policy.mode = "RESTRICTED" => codes \subseteq policy.codes

-----------------------------------------------------------------------------
(* How far a form may change before an administrator must look again *)

Contract(c) == [c EXCEPT !.options = {}]

SchemaContract(schema, mapped) ==
  [components |-> [id \in mapped \cap DOMAIN schema.components |-> Contract(schema.components[id])],
   missing |-> mapped \ DOMAIN schema.components,
   required |-> UnmappedRequired(schema, mapped)]

\* Faulty variant: only the components that are mapped have to stay the same.
SameMappedOnly(old, new, mapped) ==
  /\ old.code = new.code
  /\ SchemaContract(old, mapped).components = SchemaContract(new, mapped).components

\* Schemas that are alike but for options and other components.
CompatibleChange(old, new, mapped) ==
  old.code = new.code /\ SchemaContract(old, mapped) = SchemaContract(new, mapped)

\* The option as the form shows it now, found by its value.
CurrentOptions(schema, mapping, value) ==
  {o \in OptionsOf(schema, mapping) : o.value = value}
=============================================================================
