--------------------------- MODULE MCOaTemplates ---------------------------
(* A small instance of OaTemplates for TLC: one reimbursement form whose   *)
(* fields sit in a group, two travel forms, and a few editions of each.    *)
EXTENDS OaTemplates, TLC

CONSTANTS r1, r2, oa, trip, tour

Item(id, type, parent) ==
  [id |-> id, type |-> type, parent |-> parent, face |-> id, required |-> FALSE,
   disabled |-> FALSE, hidden |-> FALSE, format |-> "none", options |-> <<>>, templates |-> {}]
Date(id, parent) == [Item(id, "DDDateRangeField", parent) EXCEPT !.format = "yyyy-MM-dd"]
Select(id, parent, options) == [Item(id, "DDSelectField", parent) EXCEPT !.options = options]
Option(v, l) == [value |-> v, label |-> l, key |-> NoId]
Form(items) == [status |-> "PUBLISHED", items |-> items]

\* Whether the group is hidden, how "inland" is labelled, another required item.
Claim(hide, label, extra) == Form(
  << [Item(NoId, "FieldGroup", 0) EXCEPT !.hidden = hide], Select("co", 1, <<Option("a", "A")>>),
     Select("bu", 1, <<Option("b", "B")>>),
     Select("ty", 1, <<Option("in", label), Option("out", "Out")>>),
     Date("da", 1), Item("de", "TextField", 1), Item("am", "MoneyField", 1),
     [Item("re", "RelateField", 1) EXCEPT !.templates = {trip, tour}],
     Item("at", "DDAttachment", 1), Item("me", "TextField", 1),
     [Item("ex", "TextField", 0) EXCEPT !.required = extra] >>)

\* The kinds of trip, and whether another item is required.
Trip(kinds, extra) == Form(
  << Date("da", 0), Select("ki", 0, [i \in 1..kinds |-> Option(<<"k1", "k2">>[i], "K")]),
     [Item("ex", "TextField", 0) EXCEPT !.required = extra] >>)
Tour == Form(<< Item("tb", "DDTableField", 0), Date("da", 1) >>)

Editions == (oa :> <<Claim(FALSE, "In", FALSE), Claim(FALSE, "Inland", FALSE), Claim(TRUE, "In", FALSE)>>)
         @@ (trip :> <<Trip(1, FALSE), Trip(2, TRUE)>>)
         @@ (tour :> <<Tour>>)
Lists == {<<trip>>, <<tour>>}
Alike == Permutations({r1, r2})

ClaimMapping(text) ==
  [company |-> "co", budgetCode |-> "bu", travelType |-> "ty", startDate |-> "da",
   endDate |-> "da", durationDays |-> "da", description |-> text,
   reimbursementAmount |-> "am", relatedApprovals |-> "re", attachments |-> "at"]
Plain(id) == [startDate |-> id, endDate |-> id]
OnTour == [mapping |-> Plain("tb"), option |-> Option("out", "Out"), types |-> <<>>]

\* By the option of the approval's form, or one option for every trip.
PlanSet == <<
  [mapping |-> ClaimMapping("de"), travel |->
     (trip :> [mapping |-> Plain("da") @@ [travelType |-> "ki"], option |-> Option("in", "In"),
               types |-> ("k1" :> Option("in", "In"))]) @@ (tour :> OnTour)],
  [mapping |-> ClaimMapping("me"), travel |->
     (trip :> [mapping |-> Plain("da"), option |-> Option("out", "Out"), types |-> <<>>])
     @@ (tour :> OnTour)] >>
=============================================================================
