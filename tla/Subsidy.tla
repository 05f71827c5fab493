-------------------------------- MODULE Subsidy --------------------------------
(***************************************************************************)
(* What a reimbursement pays for the days of its trips.                    *)
(*                                                                         *)
(* Time is counted in half-days: 2 * day is a morning, 2 * day + 1 an      *)
(* afternoon.  A trip claims the half-days from..to of one approval; its   *)
(* adjustments say which of them were private, and a trip within the city  *)
(* is paid by the days attended instead.  A trip's approval is a number,   *)
(* 0 when the claim names none; confirmed is the old acknowledgement of    *)
(* the policy, override that days or amounts of its own were entered.      *)
(***************************************************************************)
EXTENDS Integers, Sequences, FiniteSets, SequencesExt

CONSTANTS
  Says,         \* what the name of a travel type says: where, and for how long
  Rate,         \* by purpose: the subsidy of a day
  Maintained,   \* the days of the years whose attendance calendar is complete
  MaxAttendance \* how many days a trip within the city may be attended

NoText == ""
NoDays == {-1}       \* no attendance was recorded

Day(h) == h \div 2
Days(t) == Day(t.from)..Day(t.to)
HalfDays(t) == t.from..t.to

-----------------------------------------------------------------------------
(* The purpose a travel type pays for *)

PurposeSaid(text) ==
  LET s == Says[text] IN
  IF s.place \in {"same_city_project", "business"} THEN s.place
  ELSE IF s.place = "none" \/ s.term = "none" THEN NoText
  ELSE s.term \o "_" \o s.place

\* The approval's own words go first: older mappings know one type for long and short.
PurposeOf(label, own) ==
  IF own # NoText /\ PurposeSaid(own) # NoText THEN PurposeSaid(own) ELSE PurposeSaid(label)

\* A trip is the record of one approval, whose dates are in their order.
Dated(t) ==
  /\ t = [approval |-> t.approval, purpose |-> t.purpose, from |-> t.from, to |-> t.to,
          adjustments |-> t.adjustments, attended |-> t.attended,
          confirmed |-> t.confirmed, override |-> t.override]
  /\ t.approval \in Int /\ t.from \in Int /\ t.to \in Int /\ t.from <= t.to

-----------------------------------------------------------------------------
(* Trips whose days overlap are paid as one *)

Before(t, u) ==
  \/ Day(t.from) < Day(u.from)
  \/ Day(t.from) = Day(u.from) /\ Day(t.to) < Day(u.to)
  \/ Day(t.from) = Day(u.from) /\ Day(t.to) = Day(u.to) /\ t.approval < u.approval

\* Faulty variant: a trip is compared with the trip before it only.
HeadsByLastTrip(S) ==
  {t \in S : \A u \in S :
     Before(u, t) /\ (\A v \in S : Before(v, t) => v = u \/ Before(v, u)) => Day(u.to) < Day(t.from)}

\* The trips that begin after all the trips before them have ended.
Heads(S) == {t \in S : \A u \in S : Before(u, t) => Day(u.to) < Day(t.from)}

Group(S, head) ==
  {t \in S : ~Before(t, head) /\ \A h \in Heads(S) : Before(head, h) => Before(t, h)}

MergedGroup(head, G) ==
  [head EXCEPT !.from = Min({t.from : t \in G}),
               !.to = Max({t.to : t \in G}),
               !.attended = IF \E t \in G : t.attended = NoDays THEN NoDays
                            ELSE UNION {t.attended : t \in G},
               !.adjustments = UNION {t.adjustments : t \in G},
               !.confirmed = \A t \in G : t.confirmed,
               !.override = \E t \in G : t.override]

\* merge_overlapping_subsidy_trips; adjacent trips and trips with a gap stay apart.
Merged(trips) ==
  UNION {LET S == {t \in trips : t.purpose = p}
         IN {MergedGroup(h, Group(S, h)) : h \in Heads(S)} : p \in {t.purpose : t \in trips}}

-----------------------------------------------------------------------------
(* The half-days of a trip that are not paid *)

Of(t, type) == {a \in t.adjustments : a.type = type}

\* What an adjustment leaves unpaid, and what it takes up, each from .. up to but without to.
Interval(t, a) ==
  CASE a.type = "late_departure" ->
         [start |-> t.from, end |-> a.to, unpaid |-> <<t.from, a.to>>, taken |-> <<t.from, a.to>>]
    [] a.type = "early_end" ->
         [start |-> a.from, end |-> t.to, unpaid |-> <<a.from + 1, t.to + 1>>,
          taken |-> <<a.from, t.to + 1>>]
    [] a.type = "temporary_absence" ->
         [start |-> a.from, end |-> a.to, unpaid |-> <<a.from + 1, a.to>>,
          taken |-> <<a.from, a.to + 1>>]

ValidAdjustments(t) ==
  /\ \A type \in {"late_departure", "early_end"} : Cardinality(Of(t, type)) <= 1
  /\ \A a \in t.adjustments :
       LET i == Interval(t, a) IN t.from <= i.start /\ i.start <= i.end /\ i.end <= t.to
  /\ \A a \in Of(t, "late_departure"), b \in Of(t, "early_end") : a.to <= b.from

\* One private half-day has one reason.
NoneOverlap(t) ==
  \A a, b \in t.adjustments :
    LET i == Interval(t, a).taken
        j == Interval(t, b).taken
    IN a # b /\ i[1] < i[2] /\ j[1] < j[2] => i[2] <= j[1] \/ j[2] <= i[1]

\* excluded_effective_days: the intervals in their order, nothing deducted twice.
Excluded(t) ==
  LET clipped == {<<Max({i[1], t.from}), Min({i[2], t.to + 1})>> :
                    i \in {Interval(t, a).unpaid : a \in t.adjustments}}
      ordered == SetToSortSeq({i \in clipped : i[1] < i[2]},
                              LAMBDA i, j : i[1] < j[1] \/ (i[1] = j[1] /\ i[2] < j[2]))
      Deduct(acc, i) ==
        [days |-> acc.days + Max({0, i[2] - Max({i[1], acc.covered})}),
         covered |-> Max({acc.covered, i[2]})]
  IN FoldLeft(Deduct, [days |-> 0, covered |-> 0], ordered).days

-----------------------------------------------------------------------------
(* What a merged trip is paid, in half-days *)

\* The days left to attend between the adjustments.
Attendable(t) ==
  LET late == {Day(a.to) : a \in Of(t, "late_departure")}
      early == {Day(a.from) : a \in Of(t, "early_end")}
  IN {d \in Days(t) : (\A l \in late : l <= d) /\ (\A e \in early : d <= e)}

ValidAttendance(t) ==
  /\ t.purpose = "same_city_project" /\ ~t.override
  /\ Of(t, "temporary_absence") = {}
  /\ \A type \in {"late_departure", "early_end"} : Cardinality(Of(t, type)) <= 1
  /\ \A a \in Of(t, "late_departure") : Day(a.to) \in Days(t)
  /\ \A a \in Of(t, "early_end") : Day(a.from) \in Days(t)
  /\ Attendable(t) # {} /\ Cardinality(Attendable(t)) <= MaxAttendance
  /\ t.attended \subseteq Attendable(t)

\* Faulty variant: a day away is deducted from its first half-day on.
PaidWithoutLegs(t) ==
  t.to - t.from + 1
    - Cardinality(UNION {Interval(t, a).taken[1]..(Interval(t, a).taken[2] - 1) : a \in t.adjustments})

Paid(t) == IF t.attended # NoDays THEN 2 * Cardinality(t.attended) ELSE t.to - t.from + 1 - Excluded(t)

Payable(t) ==
  IF t.attended # NoDays THEN ValidAttendance(t)
  ELSE /\ t.from <= t.to /\ ValidAdjustments(t) /\ NoneOverlap(t)
       /\ ~t.override /\ (t.confirmed => t.purpose = "same_city_project")

\* require_attendance_calendars.
CalendarComplete(t) ==
  t.purpose = "same_city_project" => Attendable(t) \subseteq Maintained

\* calculate_trip_subsidies: one line for every merged trip, or a refusal of them all.
Claimable(trips) ==
  /\ \A t \in trips : t.purpose = "same_city_project" =>
       t.attended # NoDays /\ t.attended \subseteq Days(t)
  /\ \A t \in Merged(trips) : Payable(t) /\ CalendarComplete(t)

Line(t) ==
  [purpose |-> t.purpose, approval |-> t.approval, from |-> t.from, to |-> t.to,
   paid |-> Paid(t), total |-> (Paid(t) * Rate[t.purpose]) \div 2]

Subsidies(trips) == {Line(t) : t \in Merged(trips)}

Total(lines) == MapThenSumSet(LAMBDA l : l.total, lines)
=============================================================================
