------------------------- MODULE MCAttendanceCalendar -------------------------
(* Small instances of AttendanceCalendar for TLC. *)
EXTENDS AttendanceCalendar

CONSTANTS a, b   \* contents

TwoYears == {1, 2}

\* Two versions of the notice of the second year, which differ in a day before
\* it only, and one of the first year.
SomeNotices ==
  {[source |-> 2, days |-> <<None, a>>], [source |-> 2, days |-> <<b, a>>],
   [source |-> 1, days |-> <<a, None>>]}
=============================================================================
