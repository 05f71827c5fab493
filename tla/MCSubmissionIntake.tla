---------------------------- MODULE MCSubmissionIntake ----------------------------
(***************************************************************************)
(* Two approvals with a gap between them, one of them naming its account   *)
(* by label and one by value; three editions of the form; contents with    *)
(* papers of every kind and some that break one rule.                      *)
(***************************************************************************)
EXTENDS SubmissionIntake

MCSays == [t \in {"trip", "short project"} |->
             IF t = "trip" THEN [place |-> "none", term |-> "none"]
             ELSE [place |-> "project", term |-> "short_term"]]
MCRate == [p \in {"short_term_project"} |-> 80]
MCMaintained == {}
MCMapping == [own \in {"trip"} |-> "t1"]

Option(v, l) == [value |-> v, label |-> l]
Types == {Option("t1", "short project"), Option("t2", "trip")}
Edition(shape, accounts) ==
  [shape |-> shape, travel |-> "travel", accounts |-> accounts, types |-> Types]

\* The form confirmed, two of its labels swapped, and another field in it.
Confirmed == Edition("form", {Option("v1", "alpha"), Option("v2", "beta")})
MCForms == <<
  Confirmed,
  Edition("form", {Option("v1", "beta"), Option("v2", "alpha")}),
  Edition("other", {Option("v1", "alpha"), Option("v2", "beta")})>>

Fact(first, last, text, state) ==
  [start |-> first, end |-> last, text |-> text, own |-> "trip", department |-> "d1",
   state |-> state]
MCFacts == <<
  <<Fact(0, 1, "alpha", "agree"), Fact(3, 4, "v1", "agree")>>,
  <<Fact(0, 1, "alpha", "terminated"), Fact(3, 5, "v1", "agree")>>>>
MCPicks == {<<>>, <<1>>, <<1, 2>>}

Claimed(n, first, last) ==
  [approval |-> n, purpose |-> "short_term_project", from |-> first, to |-> last,
   adjustments |-> {}, attended |-> NoDays, confirmed |-> FALSE, override |-> FALSE]
File(order, role, kind, evidence) ==
  [order |-> order, status |-> "ACTIVE", role |-> role, kind |-> kind,
   ocr |-> IF role = "EXPENSE_SOURCE" THEN "COMPLETE" ELSE "NOT_REQUESTED", sorted |-> TRUE,
   evidence |-> evidence]
Item(day, amount, source, paid) ==
  [day |-> day, amount |-> amount, category |-> "other", count |-> 2, source |-> source,
   rail |-> "unknown", ride |-> FALSE, foreign |-> FALSE, original |-> NoText, edited |-> FALSE,
   confirmed |-> TRUE,
   proofs |-> [k \in Kinds |-> IF k = "payment_proof" THEN paid ELSE <<>>]]
Input(items, claims) ==
  [items |-> items, trips |-> claims, single |-> <<>>, dismissed |-> {}, editing |-> {}]
NoFiles == <<>>

\* A ride, a ticket for a fast train and a hotel, paid abroad and without a receipt; one receipt
\* is dismissed.
Abroad == [foreign |-> TRUE, original |-> "usd", category |-> NoText, rail |-> "unknown"]
Train == [NoEvidence EXCEPT !.category = "rail_fare", !.rail = "high_speed"]
Receipt(order, evidence) == File(order, "EXPENSE_SOURCE", "other", evidence)
Paper(order, kind) == File(order, "ATTACHMENT_ONLY", kind, NoEvidence)
Papers ==
  [f \in {"ticket", "receipt", "spare", "map", "bill", "proof", "slip"} |->
     CASE f = "ticket" -> Receipt(1, Train)
       [] f = "receipt" -> Receipt(2, Abroad)
       [] f = "spare" -> Receipt(3, NoEvidence)
       [] f = "map" -> Paper(4, "itinerary")
       [] f = "bill" -> Paper(5, "hotel_bill")
       [] f = "proof" -> Paper(6, "payment_proof")
       [] f = "slip" -> Paper(7, "other")]
With(item, kind, f) == [item EXCEPT !.proofs[kind] = <<f>>]
Ride == With([Item(1, 10, NoFile, <<>>) EXCEPT !.ride = TRUE], "itinerary", "map")
Ticket == [Item(0, 60, "ticket", <<>>) EXCEPT !.category = "rail_fare"]
Dinner == Item(1, 60, "receipt", <<"proof">>)
Hotel ==
  With(With([Item(3, 60, NoFile, <<"proof">>) EXCEPT !.category = "lodging", !.count = 1],
            "hotel_bill", "bill"), "other", "slip")
Full ==
  [Input(<<Ride, Ticket, Dinner, Hotel>>, <<Claimed(1, 0, 2), Claimed(2, 7, 9)>>)
   EXCEPT !.dismissed = {"spare"}]

\* Three that can be submitted, one that can only be saved (it ignores a receipt), and three no
\* save accepts.
MCContents == <<
  [input |-> Input(<<>>, <<Claimed(1, 0, 3)>>), files |-> NoFiles],
  [input |-> Full, files |-> Papers],
  [input |-> [Full EXCEPT !.trips = <<>>], files |-> Papers],
  [input |-> [Full EXCEPT !.trips = <<>>, !.dismissed = {}], files |-> Papers],
  [input |-> [Full EXCEPT !.dismissed = {"ticket", "spare"}], files |-> Papers],
  [input |-> [Full EXCEPT !.items[1].source = "ticket"], files |-> Papers],
  [input |-> [Full EXCEPT !.items[2].proofs["other"] = <<"slip">>,
                          !.items[4].proofs["other"] = <<>>], files |-> Papers]>>
=============================================================================
