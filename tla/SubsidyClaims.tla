----------------------------- MODULE SubsidyClaims -----------------------------
(***************************************************************************)
(* A draft's claim for subsidies while its owner edits it: every save      *)
(* calculates the lines anew, or leaves none when the claim is refused.    *)
(***************************************************************************)
EXTENDS Subsidy

CONSTANTS
  Trips,         \* what may be claimed for an approval
  Adjustments,   \* the private time that may be entered
  MaxTrips, MaxAdjustments

\* The dates are those of the approval that a trip names.
ASSUME TripsAssumption == \A t \in Trips : Dated(t)

VARIABLES
  trips,   \* the claim
  lines    \* what it is paid

claimVars == <<trips, lines>>

ClaimInit == trips = {} /\ lines = {}

\* _calculate_input of a draft that may be unfinished.
Save(claim) ==
  /\ trips' = claim
  /\ lines' = IF Claimable(claim) THEN Subsidies(claim) ELSE {}

Claim(t) ==
  /\ Cardinality(trips) < MaxTrips /\ \A u \in trips : u.approval # t.approval
  /\ Save(trips \cup {t})

Adjust(t, a) ==
  /\ Cardinality(UNION {u.adjustments : u \in trips}) < MaxAdjustments
  /\ Save((trips \ {t}) \cup {[t EXCEPT !.adjustments = @ \cup {[a EXCEPT !.row = <<t.approval, @>>]}]})

Attend(t, days) ==
  /\ t.purpose = "same_city_project"
  /\ Save((trips \ {t}) \cup {[t EXCEPT !.attended = days]})

ClaimNext ==
  \/ \E t \in Trips : Claim(t)
  \/ \E t \in trips, a \in Adjustments : Adjust(t, a)
  \/ \E t \in trips : \E days \in SUBSET Days(t) : Attend(t, days)

ClaimSpec == ClaimInit /\ [][ClaimNext]_claimVars

-----------------------------------------------------------------------------
\* A half-day is private: before leaving late, after an early end, or strictly between the
\* two journeys of an absence.  Those who share a purpose and a day share their private time.
Private(t, h) ==
  \E m \in {u \in Merged(trips) : u.purpose = t.purpose /\ h \in u.from..u.to} :
    \/ \E a \in Of(m, "late_departure") : h < a.to
    \/ \E a \in Of(m, "early_end") : h > a.from
    \/ \E a \in Of(m, "temporary_absence") : a.from < h /\ h < a.to

\* Whatever the approvals overlap and however the private time is entered, each half-day of
\* travel is paid once, and each day attended once (merge_overlapping_subsidy_trips,
\* excluded_effective_days): half of them paid twice would show in no single approval.
EachHalfDayPaidOnce ==
  lines # {} =>
    \A p \in {t.purpose : t \in trips} :
      LET mine == {t \in trips : t.purpose = p}
          claimed == UNION {HalfDays(t) : t \in mine}
          days == UNION {t.attended : t \in mine}
      IN MapThenSumSet(LAMBDA l : l.paid, {l \in lines : l.purpose = p}) =
           IF p = "same_city_project" THEN 2 * Cardinality(days)
           ELSE Cardinality({h \in claimed : \A t \in mine : h \in HalfDays(t) => ~Private(t, h)})

\* Every claim is inside one line of its purpose, no two lines of a purpose share a day, and no
\* line reaches over a day nobody claimed (the gaps between approvals are not paid).
LinesAreApart ==
  lines # {} =>
    /\ \A t \in trips : Cardinality({l \in lines : l.purpose = t.purpose
                                                   /\ HalfDays(t) \subseteq l.from..l.to}) = 1
    /\ \A k, l \in lines : k # l /\ k.purpose = l.purpose => Days(k) \cap Days(l) = {}
    /\ \A l \in lines : \A d \in Days(l) :
         \E t \in trips : t.purpose = l.purpose /\ d \in Days(t)
=============================================================================
