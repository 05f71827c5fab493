-------------------------- MODULE MCTravelApprovals --------------------------
(* A small instance of TravelApprovals for TLC: two templates, one with a  *)
(* table of legs and selects, one with plain dates and texts; seven        *)
(* approvals over three days of two instants each, and ranges of one day.  *)
EXTENDS TravelApprovals, TLC

Opt(v, l, k) == [value |-> v, label |-> l, key |-> k]
V(type, value) == [type |-> type, value |-> value]
None == [field \in {"company", "budgetCode"} |-> {}]

\* The keys k1 and k2 name other companies in the two forms.
Here == {Opt("c1", "North", "k1"), Opt("c2", "South", "k2")}
Money == {Opt("b1", "10 Office", NoId), Opt("b2", "100 Lab", NoId)}
Inland == Opt("in", "Inland", NoId)
Abroad == Opt("out", "Abroad", NoId)

TheTemplates ==
  ("trip" :> [startDate |-> "tb", endDate |-> "tb", company |-> "co", budgetCode |-> NoId,
              travelType |-> "ty", titled |-> [None EXCEPT !.budgetCode = {"bu"}],
              types |-> ("near" :> Inland) @@ ("far" :> Inland), option |-> Inland,
              options |-> ("co" :> {Opt("c2", "South", "k1"), Opt("c1", "North", "k2")})
                       @@ ("ty" :> {Opt("near", "Near", "t1"), Opt("far", "Far", "t2")})])
  @@ ("tour" :> [startDate |-> "d1", endDate |-> "d2", company |-> "co", budgetCode |-> "bu",
              travelType |-> NoId, titled |-> None, types |-> <<>>, option |-> Inland,
              options |-> <<>>])

Leg(s, e) == [startTime |-> <<s>>, endTime |-> <<e>>]
OnTrip(legs, company, type) ==
  ("tb" :> V("DDTableField", legs)) @@ ("co" :> V("DDSelectField", company))
  @@ ("bu" :> V("TextField", "10 Office")) @@ ("ty" :> V("DDSelectField", type))
OnTour(s, e, company) ==
  ("d1" :> V("DDDateField", s)) @@ ("d2" :> V("DDDateField", e))
  @@ ("co" :> V("TextField", company)) @@ ("bu" :> V("TextField", "10Office"))

A(code, owner, created, number, words, days, values) ==
  [code |-> code, owner |-> owner, created |-> created, number |-> number, words |-> words,
   department |-> "dep", days |-> days, values |-> values]

TheApprovals ==
  ("a6" :> A("trip", "ann", 7, <<7, 1>>, {"x"}, {3, 4, 5},
             OnTrip(<<Leg(5, 5), Leg(3, 4)>>, "k2", "near")))
  @@ ("a5" :> A("trip", "ann", 6, <<6, 1>>, {}, {6}, OnTrip(<<Leg(6, 6)>>, "Nowhere", "far")))
  @@ ("a4" :> A("tour", "ann", 6, <<6, 2>>, {"x"}, {2}, OnTour(2, 2, "North")))
  @@ ("a3" :> A("trip", "ann", 6, <<6, 2>>, {}, {2}, OnTrip(<<Leg(2, 2)>>, "North", "near")))
  @@ ("a2" :> A("tour", "ann", 4, <<NoDate, 1>>, {}, {}, OnTour(2, NoDate, "North")))
  @@ ("a1" :> A("trip", "bob", 4, <<4, 1>>, {}, {1}, OnTrip(<<Leg(1, 1)>>, "c2", "near")))
  @@ ("a0" :> A("else", "ann", 4, <<NoDate, 2>>, {}, {2}, OnTour(2, 2, "North")))
TheOrder == <<"a6", "a5", "a4", "a3", "a2", "a1", "a0">>
TheProfiles == <<"trip", "tour">>

W(from, to) == [from |-> from, to |-> to]
TheWindows == {W(2, 3), W(2, 4), W(0, 1), W(1, 3), W(1, 2)}
P(a, w) == [id |-> a, window |-> w, code |-> TheApprovals[a].code]
ThePicks ==
  {<<P("a6", W(3, 3))>>, <<P("a6", W(2, 3)), P("a3", W(3, 3))>>, <<P("a6", W(3, 3)), P("a5", W(3, 3))>>,
   <<P("a4", W(2, 3))>>, <<P("a6", W(2, 3)), P("a4", W(2, 3))>>,
   <<P("a1", W(2, 3))>>, <<P("a3", W(0, 2))>>}
Texts == {"c1", "c2", "North", "South", "k1", "k2", "b1", "b2", "10 Office", "100 Lab", "10Office",
          "Nowhere"}
Squeeze == [t \in Texts |-> CASE t = "10 Office" -> "10Office" [] t = "100 Lab" -> "100Lab"
                              [] OTHER -> t]
=============================================================================
