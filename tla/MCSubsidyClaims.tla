---------------------------- MODULE MCSubsidyClaims ----------------------------
(***************************************************************************)
(* Three approvals over four days, in every way they can overlap, with up  *)
(* to two adjustments; one of them may be within the city.                 *)
(***************************************************************************)
EXTENDS SubsidyClaims

MCSays == [t \in {"short project", "city"} |->
             IF t = "city" THEN [place |-> "same_city_project", term |-> "none"]
             ELSE [place |-> "project", term |-> "short_term"]]
MCRate == [p \in {"short_term_project", "same_city_project"} |->
             IF p = "same_city_project" THEN 50 ELSE 80]
MCMaintained == 0..2

Trip(n, p, first, last) ==
  [approval |-> n, purpose |-> p, from |-> first, to |-> last,
   adjustments |-> {}, attended |-> NoDays, confirmed |-> FALSE, override |-> FALSE]

Project == PurposeOf("short project", NoText)
City == PurposeOf("short project", "city")

MCTrips ==
  {Trip(1, Project, 0, last) : last \in {3, 7}}
  \cup {Trip(2, Project, 2, 2), Trip(2, Project, 3, 4), Trip(2, City, 1, 3)}
  \cup {Trip(3, Project, 4, 5), [Trip(3, Project, 4, 5) EXCEPT !.confirmed = TRUE], Trip(3, Project, 5, 7), Trip(3, City, 3, 4)}

MCAdjustments ==
  {[type |-> "late_departure", row |-> 1, from |-> 0, to |-> h] : h \in {1, 4}}
  \cup {[type |-> "early_end", row |-> 2, from |-> h, to |-> 0] : h \in {3, 5}}
  \cup {[type |-> "temporary_absence", row |-> r, from |-> 2, to |-> h] : r \in 3..4, h \in {4, 6}}
=============================================================================
