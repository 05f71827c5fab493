----------------------- MODULE AttendanceCalendarProofs -----------------------
(***************************************************************************)
(* Theorems about AttendanceCalendar for any years, notices and requests:  *)
(* a year the job takes for done is there and a deleted one is not, no     *)
(* write loses what another source contributes, and the years together     *)
(* hold whole notices except those a request wrote after another one had   *)
(* written them behind its back.                                           *)
(***************************************************************************)
EXTENDS AttendanceCalendar, WellFoundedInduction, TLAPS

-----------------------------------------------------------------------------
(* The inductive invariant *)

Works == {"idle", "previewed", "saving", "removing", "fetching"}

\* Of a request's work: whether it is about to write, of which source and which days.
Writes(w) == w.at \in {"saving", "removing"}
Source(w) == IF w.at = "saving" THEN w.notice.source ELSE w.year
Days(w) == IF w.at = "saving" THEN w.notice.days ELSE NoDays

Fits(w) ==
  /\ w.at \in Works
  /\ w.at \in {"previewed", "saving"} => w.notice \in Notices
  /\ w.at \in {"removing", "fetching"} => w.year \in Years
  /\ Writes(w) => w.seen \in [Years -> Records]

\* Requests are administrators'; the scheduler only fetches.
OpInv ==
  /\ op = [a \in Actors |-> op[a]]
  /\ \A a \in Actors : Fits(op[a])
  /\ op[Scheduler].at \in {"idle", "fetching"}

\* A revision is of one content: what a request has read of a year it writes is what the row
\* holds if the revision still is the same.  Only a year that was there is deleted.
AsRead(w) ==
  /\ Writes(w) =>
       /\ \A y \in Years : w.seen[y].rev <= writes
       /\ \A y \in Years : w.seen[y].rev = 0 => w.seen[y] = NoRow
       /\ \A y \in Affected(Source(w), Days(w), w.seen) :
            w.seen[y].rev = records[y].rev => w.seen[y] = records[y]
  /\ w.at = "removing" => Complete(w.seen[w.year], w.year)

\* No revision is above the last commit's.
ReadInv ==
  /\ \A y \in Years : records[y].rev <= writes
  /\ \A a \in Actors : AsRead(op[a])

\* A deleted year is paused until somebody asks for it.
PausedInv == \A y \in removed : sync[y].status = "paused"

\* The invariant without what the history variables record.
SystemInv == SystemTypeOK /\ CompletedIsComplete /\ RemovedStaysRemoved

IInv == SystemInv /\ OpInv /\ ReadInv /\ PausedInv

\* The rows hold what the last saver of notice s was told is stored.
Whole(s) == \A y \in Years : records[y].parts[s] = inForce[s][y]

\* While a request is about to write a notice that no other request has written since, the rows
\* hold it as the request read it, or the job has filled in a year that was missing then and the
\* write will be refused.
Alone(r) ==
  /\ Writes(op[r]) =>
       LET s == Source(op[r])  seen == op[r].seen IN
       \/ \A y \in Years : records[y].parts[s] = seen[y].parts[s]
       \/ /\ op[r].at = "saving" /\ seen[s].parts[s] = None
          /\ records[s].rev # seen[s].rev /\ records[s].parts[s] # None
  /\ op[r].at = "removing" => IsComplete(op[r].year)

Remembered == overtaken \subseteq Requests /\ mixed \subseteq Years

WholeInv ==
  /\ \A s \in Years \ mixed : Whole(s)
  /\ \A r \in Requests \ overtaken : Alone(r)

-----------------------------------------------------------------------------
(* What one write does to the rows *)

LEMMA NoDaysSpan == NoDays \in Spans /\ NoRow \in Records /\ IsEmpty(NoRow)
  BY DEF NoDays, Spans, NoRow, Records, IsEmpty

LEMMA ReplacedRow ==
  ASSUME NEW recs \in [Years -> Records], NEW s \in Years, NEW days \in Spans, NEW y \in Years
  PROVE  /\ Replaced(recs, s, days, y) \in Records
         /\ Replaced(recs, s, days, y).rev = recs[y].rev
         /\ Replaced(recs, s, days, y).legacy <=> (recs[y].legacy /\ y # s)
         /\ Replaced(recs, s, days, y).parts = [recs[y].parts EXCEPT ![s] = days[y]]
  <1> DEFINE row == recs[y]
  <1>1. row \in Records /\ row.parts \in Spans /\ days[y] \in Contents \cup {None}
    BY DEF Records, Spans
  <1>2. [row.parts EXCEPT ![s] = days[y]] \in Spans
    BY <1>1 DEF Spans
  <1> HIDE DEF row
  <1>3. PICK r \in Records : r = row
    BY <1>1
  <1>4. PICK parts \in Spans : parts = [r.parts EXCEPT ![s] = days[y]]
    BY <1>2, <1>3 DEF row
  <1>5. PICK legacy \in BOOLEAN : legacy = (r.legacy /\ y # s)
    OBVIOUS
  <1>6. [[r EXCEPT !.parts = parts] EXCEPT !.legacy = legacy] =
          [rev |-> r.rev, legacy |-> legacy, parts |-> parts]
    <2>1. r = [rev |-> r.rev, legacy |-> r.legacy, parts |-> r.parts]
      BY DEF Records
    <2>2. PICK q : q = [rev |-> r.rev, legacy |-> r.legacy, parts |-> parts]
      OBVIOUS
    <2>3. [r EXCEPT !.parts = parts] = q
      BY <2>1, <2>2
    <2>4. [q EXCEPT !.legacy = legacy] = [rev |-> r.rev, legacy |-> legacy, parts |-> parts]
      BY <2>2
    <2> QED
      BY <2>3, <2>4
  <1>7. Replaced(recs, s, days, y) = [rev |-> r.rev, legacy |-> legacy, parts |-> parts]
    BY <1>3, <1>4, <1>5, <1>6 DEF Replaced, row
  <1> QED
    <2>1. r.rev \in Nat /\ r.legacy \in BOOLEAN
      BY DEF Records
    <2>2. [rev |-> r.rev, legacy |-> legacy, parts |-> parts] \in Records
      BY <2>1 DEF Records
    <2>3. /\ Replaced(recs, s, days, y).rev = r.rev
          /\ Replaced(recs, s, days, y).legacy = legacy
          /\ Replaced(recs, s, days, y).parts = parts
      BY <1>7
    <2> QED
      BY <1>3, <1>4, <1>5, <1>7, <2>2, <2>3 DEF row

\* The row of a year once source s has said days: as it was, or with these days and nothing else
\* changed, under a fresh revision or, if nothing is left, gone.
Rewritten(s, days, y) ==
  /\ records'[y].parts = [records[y].parts EXCEPT ![s] = days[y]]
  /\ records'[y].legacy <=> (records[y].legacy /\ y # s)
  /\ \/ records'[y] = NoRow /\ IsEmpty(NoRow)
     \/ records'[y].rev = writes + 1 /\ ~IsEmpty(records'[y])

LEMMA PlanWrites ==
  ASSUME records \in [Years -> Records], writes \in Nat,
         \A y \in Years : records[y].rev = 0 <=> IsEmpty(records[y]),
         \A y \in Years : records[y].rev <= writes,
         NEW s \in Years, NEW days \in Spans, NEW seen \in [Years -> Records],
         \A y \in Affected(s, days, seen) : seen[y].rev = records[y].rev => seen[y] = records[y],
         WritePlan(seen, s, days)
  PROVE  /\ writes' = writes + 1 /\ inForce' = [inForce EXCEPT ![s] = days]
         /\ \A y \in Years :
              /\ y \notin Changed(seen, s, days) => records'[y] = records[y]
              /\ y \in Changed(seen, s, days) => seen[y] = records[y] /\ Rewritten(s, days, y)
         /\ records' \in [Years -> Records]
         /\ \A y \in Years : records'[y].rev = 0 <=> IsEmpty(records'[y])
         /\ \A y \in Years : records'[y].rev <= writes + 1
  <1>1. writes' = writes + 1 /\ inForce' = [inForce EXCEPT ![s] = days]
    BY DEF WritePlan
  <1>2. Changed(seen, s, days) \subseteq Years /\ Changed(seen, s, days) \subseteq Affected(s, days, seen)
    BY DEF Changed, Affected
  <1>3. records' = [y \in Years |->
          IF y \notin Changed(seen, s, days) THEN records[y]
          ELSE LET new == Replaced(seen, s, days, y)
               IN IF IsEmpty(new) THEN NoRow ELSE [new EXCEPT !.rev = writes + 1]]
    BY DEF WritePlan
  <1>4. ASSUME NEW y \in Years, y \notin Changed(seen, s, days)
        PROVE  records'[y] = records[y] /\ records'[y].rev <= writes + 1
    BY <1>3, <1>4 DEF Records
  <1>5. ASSUME NEW y \in Years, y \in Changed(seen, s, days)
        PROVE  /\ seen[y] = records[y] /\ Rewritten(s, days, y)
               /\ records'[y] \in Records /\ records'[y].rev \in {0, writes + 1}
    <2>1. seen[y] = records[y]
      BY <1>2, <1>5 DEF WritePlan, Unraced
    <2>2. PICK new \in Records : new = Replaced(seen, s, days, y)
      BY ReplacedRow
    <2>3. /\ new.legacy <=> (records[y].legacy /\ y # s)
          /\ new.parts = [records[y].parts EXCEPT ![s] = days[y]]
      BY <2>1, <2>2, ReplacedRow
    <2>4. records'[y] = IF IsEmpty(new) THEN NoRow ELSE [new EXCEPT !.rev = writes + 1]
      BY <1>3, <1>5, <2>2
    <2>5. CASE IsEmpty(new)
      BY <2>1, <2>3, <2>4, <2>5, NoDaysSpan DEF Rewritten, IsEmpty, NoRow
    <2>6. CASE ~IsEmpty(new)
      <3>1. /\ records'[y].rev = writes + 1 /\ records'[y].parts = new.parts
            /\ records'[y].legacy = new.legacy /\ records'[y] \in Records
        BY <2>4, <2>6 DEF Records
      <3> QED
        BY <2>1, <2>3, <2>6, <3>1 DEF Rewritten, IsEmpty
    <2> QED
      BY <2>5, <2>6
  <1>6. records' \in [Years -> Records]
    BY <1>3, <1>4, <1>5
  <1>7. ASSUME NEW y \in Years
        PROVE  records'[y].rev = 0 <=> IsEmpty(records'[y])
    <2>1. CASE y \notin Changed(seen, s, days)
      BY <1>4, <2>1
    <2>2. CASE y \in Changed(seen, s, days) /\ records'[y] = NoRow
      BY <2>2, NoDaysSpan DEF NoRow
    <2>3. CASE y \in Changed(seen, s, days) /\ records'[y].rev = writes + 1 /\ ~IsEmpty(records'[y])
      BY <2>3
    <2> QED
      BY <1>5, <2>1, <2>2, <2>3 DEF Rewritten
  <1>8. \A y \in Years : records'[y].rev <= writes + 1
    BY <1>4, <1>5
  <1> QED
    BY <1>1, <1>4, <1>5, <1>6, <1>7, <1>8

-----------------------------------------------------------------------------
(* The initial states *)

LEMMA FirstYear == First \in Years
  <1>1. Years # {} /\ Years \subseteq Nat
    BY YearsAssumption
  <1>2. IsWellFoundedOn(OpToRel(<, Nat), Nat)
    BY NatLessThanWellFounded
  <1>3. \E y \in Years : \A z \in Years : <<z, y>> \notin OpToRel(<, Nat)
    BY <1>1, <1>2, WFMin
  <1>4. ASSUME NEW y \in Nat, NEW z \in Nat, <<z, y>> \notin OpToRel(<, Nat)
        PROVE  y <= z
    <2>1. <<z, y>> \in Nat \X Nat /\ <<z, y>>[1] = z /\ <<z, y>>[2] = y
      OBVIOUS
    <2> QED
      BY <1>4, <2>1 DEF OpToRel
  <1>5. \E y \in Years : \A z \in Years : y <= z
    BY <1>1, <1>3, <1>4
  <1> QED
    BY <1>5 DEF First

LEMMA IdleFits == Idle.at = "idle" /\ Fits(Idle) /\ AsRead(Idle) /\ ~Writes(Idle)
  BY DEF Idle, Fits, AsRead, Writes, Works

LEMMA InitIInv == Init => IInv
  <1> SUFFICES ASSUME Init
               PROVE  IInv
    OBVIOUS
  <1>1. OldYears \subseteq Years /\ Years \subseteq Nat
    BY YearsAssumption
  <1>2. NoRow.rev = 0 /\ NoRow.parts = NoDays /\ NoRow \in Records /\ IsEmpty(NoRow)
    BY NoDaysSpan DEF NoRow
  <1>3. PICK old : old = [NoRow EXCEPT !.rev = 1, !.legacy = TRUE]
    OBVIOUS
  <1>4. old \in Records /\ ~IsEmpty(old) /\ old.rev = 1
    BY <1>2, <1>3 DEF Records, IsEmpty
  <1>5. \A y \in Years : records[y] = IF y \in OldYears THEN old ELSE NoRow
    BY <1>3 DEF Init
  <1>6. records \in [Years -> Records] /\ \A y \in Years : records[y].rev = 0 <=> IsEmpty(records[y])
    BY <1>2, <1>3, <1>4 DEF Init
  <1>7. sync \in [Years -> Syncs] /\ \A y \in Years : sync[y] = NoSync
    BY DEF Init, NoSync, Syncs, SyncStatus
  <1>8. SystemTypeOK
    BY <1>6, <1>7, FirstYear, NoDaysSpan DEF Init, SystemTypeOK, NoSync
  <1>9. CompletedIsComplete /\ RemovedStaysRemoved /\ PausedInv
    BY <1>7 DEF Init, CompletedIsComplete, RemovedStaysRemoved, PausedInv, NoSync
  <1>10. op = [a \in Actors |-> Idle]
    BY DEF Init
  <1>11. \A a \in Actors : op[a] = Idle
    BY <1>10
  <1>12. OpInv
    BY <1>10, <1>11, IdleFits DEF OpInv, Actors
  <1>13. ReadInv
    BY <1>1, <1>2, <1>4, <1>5, <1>11, IdleFits DEF Init, ReadInv
  <1> QED
    BY <1>8, <1>9, <1>12, <1>13 DEF IInv, SystemInv

-----------------------------------------------------------------------------
(* What the actors are doing *)

\* One actor's work changes and the rows stay.
LEMMA OpMoves ==
  ASSUME OpInv, NEW a \in Actors, NEW w, op' = [op EXCEPT ![a] = w], Fits(w),
         a = Scheduler => w.at \in {"idle", "fetching"}
  PROVE  OpInv'
  <1>1. op' = [b \in Actors |-> op'[b]]
    BY DEF OpInv
  <1>2. \A b \in Actors : op'[b] = IF b = a THEN w ELSE op[b]
    BY DEF OpInv
  <1>3. Scheduler \in Actors
    BY DEF Actors
  <1> QED
    BY <1>1, <1>2, <1>3 DEF OpInv

LEMMA ReadMoves ==
  ASSUME OpInv, ReadInv, NEW a \in Actors, NEW w, op' = [op EXCEPT ![a] = w], AsRead(w),
         UNCHANGED <<records, writes>>
  PROVE  ReadInv'
  <1>1. \A b \in Actors : op'[b] = IF b = a THEN w ELSE op[b]
    BY DEF OpInv
  <1>2. ASSUME NEW b \in Actors
        PROVE  AsRead(op[b])'
    BY <1>1 DEF ReadInv, AsRead
  <1>3. (\A y \in Years : records[y].rev <= writes)'
    BY DEF ReadInv
  <1> QED
    BY <1>2, <1>3 DEF ReadInv

\* A request that has read the years it is about to write.
LEMMA ReadsWhatItWrites ==
  ASSUME records \in [Years -> Records], writes \in Nat,
         \A y \in Years : records[y].rev = 0 <=> IsEmpty(records[y]),
         \A y \in Years : records[y].rev <= writes,
         NEW s \in Years, NEW days \in Spans, NEW w,
         w.seen = Seen(Affected(s, days, records)), Source(w) = s, Days(w) = days,
         w.at = "removing" => w.year = s /\ IsComplete(s)
  PROVE  w.seen \in [Years -> Records] /\ AsRead(w)
  <1> DEFINE read == Affected(s, days, records)
  <1>1. read \subseteq Years /\ s \in read
    BY DEF Affected
  <1>2. NoRow \in Records /\ NoRow.rev = 0 /\ \A y \in Years : NoRow.parts[y] = None
    BY NoDaysSpan DEF NoRow, NoDays
  <1>3. w.seen \in [Years -> Records] /\ \A y \in Years : w.seen[y] = IF y \in read THEN records[y] ELSE NoRow
    BY <1>2 DEF Seen
  <1>4. ASSUME NEW y \in Years, records[y].rev = 0
        PROVE  records[y] = NoRow
    <2>1. PICK row \in Records : row = records[y]
      OBVIOUS
    <2>2. row = [rev |-> row.rev, legacy |-> row.legacy, parts |-> row.parts]
      BY DEF Records
    <2>3. row.rev = 0 /\ ~row.legacy /\ row.parts = NoDays /\ row.legacy \in BOOLEAN
      BY <1>4, <2>1 DEF IsEmpty, Records
    <2>4. row.legacy = FALSE
      BY <2>3
    <2> QED
      BY <2>1, <2>2, <2>3, <2>4 DEF NoRow
  <1>5. \A y \in Years : w.seen[y].rev <= writes /\ (w.seen[y].rev = 0 => w.seen[y] = NoRow)
    BY <1>2, <1>3, <1>4
  <1>6. \A y \in Affected(s, days, w.seen) : y \in read
    BY <1>1, <1>2, <1>3 DEF Affected
  <1>7. \A y \in Affected(s, days, w.seen) : w.seen[y] = records[y]
    BY <1>1, <1>3, <1>6
  <1>8. w.at = "removing" => Complete(w.seen[w.year], w.year)
    BY <1>1, <1>3 DEF IsComplete
  <1> QED
    BY <1>3, <1>5, <1>7, <1>8 DEF AsRead

-----------------------------------------------------------------------------
(* Steps that leave the rows and the job's state as they are *)

LEMMA RowsStay ==
  ASSUME IInv, UNCHANGED <<calendars, sync, today, removed>>, todo' \subseteq Years
  PROVE  SystemInv' /\ PausedInv'
  BY DEF IInv, SystemInv, SystemTypeOK, CompletedIsComplete, RemovedStaysRemoved, PausedInv, calendars, IsComplete

LEMMA RequestIsNotScheduler == \A r \in Requests : r \in Actors /\ r # Scheduler
  BY NamesAssumption DEF Actors

LEMMA AdministrationKeeps ==
  ASSUME IInv, NEW r \in Requests, Administration(r)
  PROVE  IInv'
  <1>1. r \in Actors /\ r # Scheduler /\ OpInv /\ ReadInv /\ Fits(op[r]) /\ AsRead(op[r])
    BY RequestIsNotScheduler DEF IInv, OpInv, ReadInv
  <1>2. todo \subseteq Years /\ SystemTypeOK
    BY DEF IInv, SystemInv, SystemTypeOK
  <1>3. \A n \in Notices : n.source \in Years /\ n.days \in Spans
    BY NoticesAssumption
  <1>4. CASE Leave(r) \/ ApplyUnchanged(r) \/ ApplyConflict(r)
    <2>1. op' = [op EXCEPT ![r] = Idle] /\ UNCHANGED <<calendars, sync, today, todo, removed>>
      BY <1>4 DEF Leave, ApplyUnchanged, ApplyConflict, Ends
    <2>2. UNCHANGED <<records, writes>>
      BY <2>1 DEF calendars
    <2>3. OpInv' /\ ReadInv'
      BY <1>1, <2>1, <2>2, IdleFits, OpMoves, ReadMoves
    <2> QED
      BY <1>2, <2>1, <2>3, RowsStay DEF IInv
  <1>5. ASSUME NEW n \in Notices, NEW edit \in BOOLEAN, Preview(r, n, edit)
        PROVE  IInv'
    <2>1. PICK w : w = [at |-> "previewed", notice |-> n, edit |-> edit, revs |-> Revs(Base(n, edit))]
      OBVIOUS
    <2>2. op' = [op EXCEPT ![r] = w] /\ UNCHANGED <<calendars, sync, today, todo, removed>>
      BY <1>5, <2>1 DEF Preview, Begins
    <2>3. Fits(w) /\ AsRead(w)
      BY <2>1 DEF Fits, AsRead, Writes, Works
    <2>4. UNCHANGED <<records, writes>>
      BY <2>2 DEF calendars
    <2>5. OpInv' /\ ReadInv'
      BY <1>1, <2>2, <2>3, <2>4, OpMoves, ReadMoves
    <2> QED
      BY <1>2, <2>2, <2>5, RowsStay DEF IInv
  <1>6. CASE ApplyRead(r)
    <2> DEFINE n == op[r].notice
    <2>1. n \in Notices
      BY <1>1, <1>6 DEF ApplyRead, Fits
    <2>2. PICK w : w = [at |-> "saving", notice |-> n, seen |-> Seen(Affected(n.source, n.days, records))]
      OBVIOUS
    <2>3. op' = [op EXCEPT ![r] = w] /\ UNCHANGED <<calendars, sync, today, todo, removed>>
      BY <1>6, <2>2 DEF ApplyRead
    <2>4. /\ w.seen = Seen(Affected(n.source, n.days, records)) /\ w.at = "saving" /\ w.notice = n
          /\ Source(w) = n.source /\ Days(w) = n.days
      BY <2>2 DEF Source, Days
    <2>5. w.seen \in [Years -> Records] /\ AsRead(w)
      BY <1>1, <1>2, <1>3, <2>1, <2>4, ReadsWhatItWrites DEF SystemTypeOK, ReadInv
    <2>6. Fits(w)
      BY <2>1, <2>4, <2>5 DEF Fits, Works
    <2>7. UNCHANGED <<records, writes>>
      BY <2>3 DEF calendars
    <2>8. OpInv' /\ ReadInv'
      BY <1>1, <2>3, <2>5, <2>6, <2>7, OpMoves, ReadMoves
    <2> QED
      BY <1>2, <2>3, <2>8, RowsStay DEF IInv
  <1>7. ASSUME NEW y \in Years, DeleteRead(r, y)
        PROVE  IInv'
    <2>1. PICK w : w = [at |-> "removing", year |-> y, seen |-> Seen(Affected(y, NoDays, records))]
      OBVIOUS
    <2>2. op' = [op EXCEPT ![r] = w] /\ UNCHANGED <<calendars, sync, today, todo, removed>> /\ IsComplete(y)
      BY <1>7, <2>1 DEF DeleteRead, Begins
    <2>3. /\ w.seen = Seen(Affected(y, NoDays, records)) /\ w.at = "removing" /\ w.year = y
          /\ Source(w) = y /\ Days(w) = NoDays
      BY <2>1 DEF Source, Days
    <2>4. w.seen \in [Years -> Records] /\ AsRead(w)
      BY <1>1, <1>2, <2>2, <2>3, ReadsWhatItWrites, NoDaysSpan DEF SystemTypeOK, ReadInv
    <2>5. Fits(w)
      BY <2>3, <2>4 DEF Fits, Works
    <2>6. UNCHANGED <<records, writes>>
      BY <2>2 DEF calendars
    <2>7. OpInv' /\ ReadInv'
      BY <1>1, <2>2, <2>4, <2>5, <2>6, OpMoves, ReadMoves
    <2> QED
      BY <1>2, <2>2, <2>7, RowsStay DEF IInv
  <1> QED
    BY <1>4, <1>5, <1>6, <1>7 DEF Administration

LEMMA IdlenessKeeps ==
  ASSUME IInv, \/ \E r \in Requests : WriteConflict(r)
               \/ \E a \in Actors : FinishDropped(a)
               \/ \E y \in Years : NotClaimed(y)
               \/ Restart
  PROVE  IInv'
  <1>1. OpInv /\ ReadInv /\ todo \subseteq Years
    BY DEF IInv, SystemInv, SystemTypeOK, OpInv
  <1>2. UNCHANGED <<calendars, sync, today, removed>> /\ todo' \subseteq Years
    BY <1>1 DEF WriteConflict, FinishDropped, NotClaimed, Restart
  <1>3. UNCHANGED <<records, writes>>
    BY <1>2 DEF calendars
  <1>4. ASSUME NEW a \in Actors, op' = [op EXCEPT ![a] = Idle]
        PROVE  OpInv' /\ ReadInv'
    BY <1>1, <1>3, <1>4, IdleFits, OpMoves, ReadMoves
  <1>5. ASSUME op' = op
        PROVE  OpInv' /\ ReadInv'
    BY <1>1, <1>3, <1>5 DEF OpInv, ReadInv, AsRead
  <1>6. ASSUME op' = [a \in Actors |-> Idle]
        PROVE  OpInv' /\ ReadInv'
    <2>1. op' = [a \in Actors |-> op'[a]] /\ \A a \in Actors : op'[a] = Idle
      BY <1>6
    <2>2. OpInv'
      BY <2>1, IdleFits DEF OpInv, Actors
    <2>3. \A a \in Actors : AsRead(op[a])'
      BY <2>1 DEF Idle, AsRead, Writes
    <2> QED
      BY <1>1, <1>3, <2>2, <2>3 DEF ReadInv
  <1>7. \/ \E a \in Actors : op' = [op EXCEPT ![a] = Idle]
        \/ op' = op
        \/ op' = [a \in Actors |-> Idle]
    BY RequestIsNotScheduler DEF WriteConflict, FinishDropped, NotClaimed, Restart, Ends
  <1>8. OpInv' /\ ReadInv'
    BY <1>4, <1>5, <1>6, <1>7
  <1> QED
    BY <1>2, <1>8, RowsStay DEF IInv

-----------------------------------------------------------------------------
(* Steps of the job and of time *)

LEMMA SyncForms ==
  ASSUME NEW s \in Syncs
  PROVE  /\ Paused(s) \in Syncs /\ Paused(s).status = "paused" /\ Paused(s).token = None
         /\ Completed(s) \in Syncs /\ Completed(s).status = "completed" /\ Completed(s).token = None
  BY DEF Syncs, SyncStatus, Paused, Completed

\* One year's row of the job changes and the calendars stay.
LEMMA SyncStep ==
  ASSUME IInv, NEW y \in Years, NEW s \in Syncs, sync' = [sync EXCEPT ![y] = s],
         s.token # None <=> s.status = "running",
         s.status = "completed" => IsComplete(y),
         y \in removed' => s.status = "paused",
         UNCHANGED <<calendars, today>>, todo' \subseteq todo, removed' \subseteq removed
  PROVE  SystemInv' /\ PausedInv'
  <1>1. \A z \in Years : sync'[z] = IF z = y THEN s ELSE sync[z]
    BY DEF IInv, SystemInv, SystemTypeOK
  <1>2. sync' \in [Years -> Syncs]
    BY DEF IInv, SystemInv, SystemTypeOK
  <1>3. SystemTypeOK'
    BY <1>1, <1>2 DEF IInv, SystemInv, SystemTypeOK, calendars
  <1>4. (\A z \in Years : IsComplete(z)' <=> IsComplete(z)) /\ removed \subseteq Years
    BY DEF IsComplete, calendars, IInv, SystemInv, SystemTypeOK
  <1>5. CompletedIsComplete' /\ RemovedStaysRemoved'
    BY <1>1, <1>4 DEF IInv, SystemInv, CompletedIsComplete, RemovedStaysRemoved
  <1>6. PausedInv'
    BY <1>1, <1>4 DEF IInv, PausedInv
  <1> QED
    BY <1>3, <1>5, <1>6 DEF SystemInv

\* What the job finds in the row of a year it may finish.
LEMMA Leased ==
  ASSUME IInv, NEW a \in Actors, op[a].at = "fetching", HoldsLease(a)
  PROVE  /\ op[a].year \in Years /\ sync[op[a].year] \in Syncs
         /\ sync[op[a].year].status = "running" /\ op[a].year \notin removed
  <1>1. op[a].year \in Years
    BY DEF IInv, OpInv, Fits
  <1>2. a # None
    BY NamesAssumption DEF Actors
  <1>3. sync[op[a].year] \in Syncs /\ sync[op[a].year].status = "running"
    BY <1>1, <1>2 DEF IInv, SystemInv, SystemTypeOK, HoldsLease
  <1> QED
    BY <1>1, <1>3 DEF IInv, PausedInv

LEMMA ChecksKeep ==
  ASSUME IInv, NEW a \in Actors, NEW y \in Years, Check(a, y)
  PROVE  IInv'
  <1>1. sync[y] \in Syncs /\ removed \subseteq Years /\ OpInv /\ ReadInv
    BY DEF IInv, SystemInv, SystemTypeOK
  <1>2. CASE ClaimComplete(a, y)
    <2>1. Completed(sync[y]) \in Syncs /\ sync' = [sync EXCEPT ![y] = Completed(sync[y])]
      BY <1>1, <1>2, SyncForms DEF ClaimComplete
    <2>2. IsComplete(y) /\ y \notin removed
      BY <1>2 DEF ClaimComplete, IInv, SystemInv, RemovedStaysRemoved
    <2>3. SystemInv' /\ PausedInv'
      BY <1>1, <1>2, <2>1, <2>2, SyncForms, SyncStep DEF ClaimComplete
    <2>4. OpInv' /\ ReadInv'
      BY <1>1, <1>2 DEF ClaimComplete, calendars, OpInv, ReadInv, AsRead
    <2> QED
      BY <2>3, <2>4 DEF IInv
  <1>3. CASE Claim(a, y)
    <2>1. PICK s : s = [status |-> "running", token |-> a, live |-> TRUE, next |-> "ahead"]
      OBVIOUS
    <2>2. s \in Syncs /\ s.token = a /\ s.status = "running" /\ a # None
      BY <2>1, NamesAssumption DEF Syncs, SyncStatus, Actors
    <2>3. sync' = [sync EXCEPT ![y] = s]
      BY <1>3, <2>1 DEF Claim
    <2>4. y \notin removed'
      BY <1>3 DEF Claim, Claimable, Due, IInv, PausedInv
    <2>5. SystemInv' /\ PausedInv'
      <3>1. UNCHANGED <<calendars, today>> /\ todo' \subseteq todo /\ removed' \subseteq removed
        BY <1>3 DEF Claim
      <3> QED
        BY <2>2, <2>3, <2>4, <3>1, SyncStep
    <2>6. PICK w : w = [at |-> "fetching", year |-> y]
      OBVIOUS
    <2>7. op' = [op EXCEPT ![a] = w] /\ UNCHANGED <<records, writes>>
      BY <1>3, <2>6 DEF Claim, Begins, calendars
    <2>8. Fits(w) /\ AsRead(w) /\ w.at = "fetching"
      BY <2>6 DEF Fits, AsRead, Writes, Works
    <2>9. OpInv' /\ ReadInv'
      BY <1>1, <2>7, <2>8, OpMoves, ReadMoves
    <2> QED
      BY <2>5, <2>9 DEF IInv
  <1> QED
    BY <1>2, <1>3 DEF Check

LEMMA FinishesKeep ==
  ASSUME IInv, NEW a \in Actors, FinishKeeps(a) \/ FinishWithout(a)
  PROVE  IInv'
  <1> DEFINE y == op[a].year
  <1>1. op[a].at = "fetching" /\ HoldsLease(a) /\ OpInv /\ ReadInv
    BY DEF FinishKeeps, FinishWithout, IInv
  <1>2. y \in Years /\ sync[y] \in Syncs /\ y \notin removed
    BY <1>1, Leased
  <1>3. op' = [op EXCEPT ![a] = Idle] /\ UNCHANGED <<calendars, today, todo, removed>>
    BY DEF FinishKeeps, FinishWithout, Ends
  <1>4. OpInv' /\ ReadInv'
    <2>1. UNCHANGED <<records, writes>>
      BY <1>3 DEF calendars
    <2> QED
      BY <1>1, <1>3, <2>1, IdleFits, OpMoves, ReadMoves
  <1>5. CASE FinishKeeps(a)
    <2>1. PICK s \in Syncs : s = Completed(sync[y]) /\ s.status = "completed" /\ s.token = None
      BY <1>2, SyncForms
    <2>2. sync' = [sync EXCEPT ![y] = s] /\ IsComplete(y)
      BY <1>5, <2>1 DEF FinishKeeps, Missing
    <2>3. SystemInv' /\ PausedInv'
      BY <1>2, <1>3, <2>1, <2>2, SyncStep
    <2> QED
      BY <1>4, <2>3 DEF IInv
  <1>6. CASE FinishWithout(a)
    <2>1. PICK s : s = [status |-> "retry", token |-> None, live |-> FALSE, next |-> "ahead"]
      OBVIOUS
    <2>2. s \in Syncs /\ s.status = "retry" /\ s.token = None /\ sync' = [sync EXCEPT ![y] = s]
      BY <1>6, <2>1 DEF FinishWithout, Syncs, SyncStatus
    <2>3. SystemInv' /\ PausedInv'
      BY <1>2, <1>3, <2>2, SyncStep
    <2> QED
      BY <1>4, <2>3 DEF IInv
  <1> QED
    BY <1>5, <1>6

LEMMA TimeKeeps ==
  ASSUME IInv, (\E y \in Years : LeaseExpires(y) \/ AttemptDue(y)) \/ MonthsPass \/ Prepare
  PROVE  IInv'
  <1>1. UNCHANGED <<records, writes, op>>
    BY DEF LeaseExpires, AttemptDue, MonthsPass, Prepare, calendars
  <1>2. OpInv' /\ ReadInv'
    BY <1>1 DEF IInv, OpInv, ReadInv, AsRead
  <1>3. ASSUME NEW y \in Years, LeaseExpires(y) \/ AttemptDue(y)
        PROVE  SystemInv' /\ PausedInv'
    <2>1. PICK s : s = IF LeaseExpires(y) THEN [sync[y] EXCEPT !.live = FALSE] ELSE [sync[y] EXCEPT !.next = "past"]
      OBVIOUS
    <2>2. sync[y] \in Syncs /\ sync' = [sync EXCEPT ![y] = s]
      BY <1>3, <2>1 DEF LeaseExpires, AttemptDue, IInv, SystemInv, SystemTypeOK
    <2>3. s \in Syncs /\ s.status = sync[y].status /\ s.token = sync[y].token
      BY <2>1, <2>2 DEF Syncs
    <2>4. UNCHANGED <<calendars, today, todo, removed>>
      BY <1>3 DEF LeaseExpires, AttemptDue
    <2>5. /\ s.token # None <=> s.status = "running"
          /\ s.status = "completed" => IsComplete(y)
          /\ y \in removed' => s.status = "paused"
      BY <2>3, <2>4 DEF IInv, SystemInv, SystemTypeOK, CompletedIsComplete, PausedInv
    <2> QED
      BY <2>2, <2>3, <2>4, <2>5, SyncStep
  <1>4. CASE MonthsPass
    <2>1. today' \in [year : Years, november : BOOLEAN]
      BY <1>4 DEF MonthsPass, IInv, SystemInv, SystemTypeOK
    <2> QED
      BY <1>2, <1>4, <2>1 DEF MonthsPass, IInv, SystemInv, SystemTypeOK, CompletedIsComplete,
        RemovedStaysRemoved, PausedInv, IsComplete, calendars
  <1>5. CASE Prepare
    <2>1. PICK s : s = [NoSync EXCEPT !.status = "pending"]
      OBVIOUS
    <2>2. s \in Syncs /\ s.status = "pending" /\ s.token = None
      BY <2>1 DEF NoSync, Syncs, SyncStatus
    <2>3. sync' = [y \in Years |-> IF y \in Targets /\ sync[y].status = "none" THEN s ELSE sync[y]]
      BY <1>5, <2>1 DEF Prepare
    <2>4. sync' \in [Years -> Syncs]
      BY <2>2, <2>3 DEF IInv, SystemInv, SystemTypeOK
    <2>5. todo' \subseteq Years /\ UNCHANGED <<calendars, today, removed>>
      <3>1. todo' = {y \in Years : sync'[y].status \notin {"none", "completed", "paused"} /\ WindowOpen(y)}
        BY <1>5 DEF Prepare
      <3>2. UNCHANGED <<calendars, today, removed>>
        BY <1>5 DEF Prepare
      <3> QED
        BY <3>1, <3>2
    <2>6. \A y \in Years : sync'[y] = sync[y] \/ (sync[y].status = "none" /\ sync'[y] = s)
      BY <2>3
    <2>7. SystemTypeOK'
      BY <2>2, <2>4, <2>5, <2>6 DEF IInv, SystemInv, SystemTypeOK, calendars
    <2>8. CompletedIsComplete' /\ RemovedStaysRemoved' /\ PausedInv'
      BY <2>2, <2>4, <2>5, <2>6 DEF IInv, SystemInv, SystemTypeOK, CompletedIsComplete, RemovedStaysRemoved,
        PausedInv, IsComplete, calendars
    <2> QED
      BY <1>2, <2>7, <2>8 DEF IInv, SystemInv
  <1> QED
    BY <1>2, <1>3, <1>4, <1>5 DEF IInv

-----------------------------------------------------------------------------
(* Steps that write the rows *)

\* Whoever has read the rows and now writes them, the job having read them this very moment.
Plans(a, seen, s, days) ==
  /\ WritePlan(seen, s, days) /\ op' = [op EXCEPT ![a] = Idle]
  /\ s \in Years /\ days \in Spans /\ seen \in [Years -> Records]
  /\ \A y \in Affected(s, days, seen) : seen[y].rev = records[y].rev => seen[y] = records[y]

LEMMA Wrote ==
  ASSUME IInv, NEW a \in Actors, NEW seen, NEW s, NEW days, Plans(a, seen, s, days)
  PROVE  /\ writes' = writes + 1 /\ inForce' = [inForce EXCEPT ![s] = days]
         /\ \A y \in Years :
              /\ y \notin Changed(seen, s, days) => records'[y] = records[y]
              /\ y \in Changed(seen, s, days) => seen[y] = records[y] /\ Rewritten(s, days, y)
         /\ records' \in [Years -> Records]
         /\ \A y \in Years : records'[y].rev = 0 <=> IsEmpty(records'[y])
         /\ \A y \in Years : records'[y].rev <= writes + 1
  <1>1. /\ records \in [Years -> Records] /\ writes \in Nat
        /\ \A y \in Years : records[y].rev = 0 <=> IsEmpty(records[y])
        /\ \A y \in Years : records[y].rev <= writes
    BY DEF IInv, SystemInv, SystemTypeOK, ReadInv
  <1>2. /\ WritePlan(seen, s, days) /\ s \in Years /\ days \in Spans /\ seen \in [Years -> Records]
        /\ \A y \in Affected(s, days, seen) : seen[y].rev = records[y].rev => seen[y] = records[y]
    BY DEF Plans
  <1> QED
    BY <1>1, <1>2, PlanWrites

\* A write leaves the other readers with what they have read or with a revision that is not theirs.
LEMMA WriteKeepsReads ==
  ASSUME IInv, NEW a \in Actors, NEW seen, NEW s, NEW days, Plans(a, seen, s, days)
  PROVE  OpInv' /\ ReadInv'
  <1>1. op' = [op EXCEPT ![a] = Idle] /\ OpInv /\ ReadInv /\ writes \in Nat /\ records \in [Years -> Records]
    BY DEF Plans, IInv, SystemInv, SystemTypeOK
  <1>2. OpInv'
    BY <1>1, IdleFits, OpMoves
  <1>3. writes' = writes + 1
    BY Wrote
  <1>4. \A y \in Years : records'[y].rev <= writes'
    BY <1>3, Wrote
  <1>5. \A y \in Years : records'[y] = records[y] \/ records'[y] = NoRow \/ records'[y].rev = writes + 1
    BY Wrote DEF Rewritten
  <1>6. NoRow.rev = 0
    BY DEF NoRow
  <1>7. ASSUME NEW b \in Actors
        PROVE  AsRead(op[b])'
    <2>1. CASE b = a
      BY <1>1, <2>1 DEF OpInv, AsRead, Writes, Idle
    <2>2. CASE b # a
      <3>1. op'[b] = op[b] /\ Fits(op[b]) /\ AsRead(op[b])
        BY <1>1, <2>2 DEF OpInv, ReadInv
      <3> DEFINE w == op[b]
      <3>2. ASSUME Writes(w)
            PROVE  /\ \A y \in Years : w.seen[y].rev <= writes'
                   /\ \A y \in Years : w.seen[y].rev = 0 => w.seen[y] = NoRow
                   /\ \A y \in Affected(Source(w), Days(w), w.seen) :
                        w.seen[y].rev = records'[y].rev => w.seen[y] = records'[y]
        <4>1. \A y \in Years : w.seen[y].rev \in Nat /\ w.seen[y].rev <= writes
          BY <3>1, <3>2 DEF Fits, AsRead, Records
        <4>2. \A y \in Years : w.seen[y].rev = 0 => w.seen[y] = NoRow
          BY <3>1, <3>2 DEF AsRead
        <4>3. Source(w) \in Years
          BY <3>1, <3>2, NoticesAssumption DEF Fits, Source, Writes
        <4>4. Affected(Source(w), Days(w), w.seen) \subseteq Years
          BY <4>3 DEF Affected
        <4>5. ASSUME NEW y \in Affected(Source(w), Days(w), w.seen), w.seen[y].rev = records'[y].rev
              PROVE  w.seen[y] = records'[y]
          <5>1. y \in Years
            BY <4>4
          <5>2. CASE records'[y] = records[y]
            BY <3>1, <3>2, <4>5, <5>2 DEF AsRead
          <5>3. CASE records'[y] = NoRow
            BY <1>6, <4>2, <4>5, <5>1, <5>3
          <5>4. CASE records'[y].rev = writes + 1
            BY <1>1, <4>1, <4>5, <5>1, <5>4
          <5> QED
            BY <1>5, <5>1, <5>2, <5>3, <5>4
        <4> QED
          BY <1>1, <1>3, <4>1, <4>2, <4>5
      <3>3. w.at = "removing" => Complete(w.seen[w.year], w.year)
        BY <3>1 DEF AsRead
      <3> QED
        BY <3>1, <3>2, <3>3 DEF AsRead
    <2> QED
      BY <2>1, <2>2
  <1> QED
    BY <1>2, <1>4, <1>7 DEF ReadInv

\* Of all years only the source's may become complete or lose its days.
LEMMA WriteKeepsOthers ==
  ASSUME IInv, NEW a \in Actors, NEW seen, NEW s, NEW days, Plans(a, seen, s, days)
  PROVE  /\ \A y \in Years : y # s => (IsComplete(y)' <=> IsComplete(y))
         /\ s \in Changed(seen, s, days) => (IsComplete(s)' <=> days[s] # None)
         /\ s \notin Changed(seen, s, days) =>
              /\ IsComplete(s)' <=> IsComplete(s)
              /\ ~seen[s].legacy /\ seen[s].parts[s] = days[s]
  <1>1. s \in Years /\ days \in Spans /\ seen \in [Years -> Records] /\ records \in [Years -> Records]
    BY DEF Plans, IInv, SystemInv, SystemTypeOK
  <1>2. \A y \in Years : records[y].parts \in [Years -> Contents \cup {None}]
    BY <1>1 DEF Records, Spans
  <1>3. \A y \in Years : y \notin Changed(seen, s, days) => records'[y] = records[y]
    BY Wrote
  <1>4. \A y \in Years : y \in Changed(seen, s, days) =>
          /\ records'[y].parts = [records[y].parts EXCEPT ![s] = days[y]]
          /\ records'[y].legacy <=> (records[y].legacy /\ y # s)
    BY Wrote DEF Rewritten
  <1>5. s \notin Changed(seen, s, days) => ~seen[s].legacy /\ seen[s].parts[s] = days[s]
    <2>1. s \in Affected(s, days, seen)
      BY DEF Affected
    <2>2. PICK new \in Records : new = Replaced(seen, s, days, s)
      BY <1>1, ReplacedRow
    <2>3. ~new.legacy /\ new.parts = [seen[s].parts EXCEPT ![s] = days[s]]
      BY <1>1, <2>2, ReplacedRow
    <2>4. seen[s].parts \in [Years -> Contents \cup {None}]
      BY <1>1 DEF Records, Spans
    <2>5. s \notin Changed(seen, s, days) => seen[s].legacy = new.legacy /\ seen[s].parts = new.parts
      BY <2>1, <2>2 DEF Changed, Same
    <2> QED
      BY <1>1, <2>3, <2>4, <2>5
  <1>6. ASSUME NEW y \in Years, y # s
        PROVE  IsComplete(y)' <=> IsComplete(y)
    <2>1. CASE y \notin Changed(seen, s, days)
      BY <1>3, <2>1 DEF IsComplete
    <2>2. CASE y \in Changed(seen, s, days)
      <3>1. records'[y].parts[y] = records[y].parts[y]
        BY <1>1, <1>2, <1>4, <1>6, <2>2
      <3>2. records'[y].legacy <=> records[y].legacy
        BY <1>4, <1>6, <2>2
      <3> QED
        BY <3>1, <3>2 DEF IsComplete, Complete
    <2> QED
      BY <2>1, <2>2
  <1>7. ASSUME s \in Changed(seen, s, days)
        PROVE  IsComplete(s)' <=> days[s] # None
    <2>1. records'[s].parts[s] = days[s] /\ ~records'[s].legacy
      BY <1>1, <1>2, <1>4, <1>7
    <2> QED
      BY <2>1 DEF IsComplete, Complete
  <1>8. s \notin Changed(seen, s, days) => (IsComplete(s)' <=> IsComplete(s))
    BY <1>1, <1>3 DEF IsComplete
  <1> QED
    BY <1>5, <1>6, <1>7, <1>8

\* What the rows' own conjuncts of the invariant become.
LEMMA WriteKeepsTypes ==
  ASSUME IInv, NEW a \in Actors, NEW seen, NEW s, NEW days, Plans(a, seen, s, days),
         sync' \in [Years -> Syncs],
         \A y \in Years : (sync'[y].token # None) <=> (sync'[y].status = "running"),
         UNCHANGED <<today, todo>>, removed' \subseteq Years
  PROVE  SystemTypeOK'
  <1>1. writes \in Nat /\ inForce \in [Years -> Spans] /\ s \in Years /\ days \in Spans
    BY DEF IInv, SystemInv, SystemTypeOK, Plans
  <1>2. writes' \in Nat /\ inForce' \in [Years -> Spans]
    BY <1>1, Wrote
  <1>3. records' \in [Years -> Records] /\ \A y \in Years : records'[y].rev = 0 <=> IsEmpty(records'[y])
    BY Wrote
  <1> QED
    BY <1>2, <1>3 DEF IInv, SystemInv, SystemTypeOK

LEMMA ApplyPlans ==
  ASSUME IInv, NEW r \in Requests, ApplyWrite(r)
  PROVE  /\ op[r].notice \in Notices /\ r \in Actors
         /\ Plans(r, op[r].seen, op[r].notice.source, op[r].notice.days)
  <1>1. r \in Actors /\ op[r].at = "saving" /\ Fits(op[r]) /\ AsRead(op[r])
    BY RequestIsNotScheduler DEF ApplyWrite, IInv, OpInv, ReadInv
  <1>2. op[r].notice \in Notices /\ op[r].seen \in [Years -> Records]
    BY <1>1 DEF Fits, Writes
  <1>3. \A y \in Affected(op[r].notice.source, op[r].notice.days, op[r].seen) :
          op[r].seen[y].rev = records[y].rev => op[r].seen[y] = records[y]
    BY <1>1 DEF AsRead, Writes, Source, Days
  <1> QED
    BY <1>1, <1>2, <1>3, NoticesAssumption DEF ApplyWrite, Plans, Ends

LEMMA DeletePlans ==
  ASSUME IInv, NEW r \in Requests, DeleteWrite(r)
  PROVE  /\ r \in Actors /\ op[r].at = "removing" /\ Complete(op[r].seen[op[r].year], op[r].year)
         /\ Plans(r, op[r].seen, op[r].year, NoDays)
  <1>1. r \in Actors /\ op[r].at = "removing" /\ Fits(op[r]) /\ AsRead(op[r])
    BY RequestIsNotScheduler DEF DeleteWrite, IInv, OpInv, ReadInv
  <1>2. op[r].year \in Years /\ op[r].seen \in [Years -> Records]
    BY <1>1 DEF Fits, Writes
  <1>3. \A y \in Affected(op[r].year, NoDays, op[r].seen) :
          op[r].seen[y].rev = records[y].rev => op[r].seen[y] = records[y]
    BY <1>1 DEF AsRead, Writes, Source, Days
  <1>4. Complete(op[r].seen[op[r].year], op[r].year)
    BY <1>1 DEF AsRead
  <1> QED
    BY <1>1, <1>2, <1>3, <1>4, NoDaysSpan DEF DeleteWrite, Plans, Ends

LEMMA FinishPlans ==
  ASSUME IInv, NEW a \in Actors, NEW n \in Notices, FinishSaves(a, n)
  PROVE  /\ Plans(a, records, n.source, n.days) /\ ~IsComplete(n.source)
         /\ op[a].at = "fetching" /\ op[a].year = n.source
  BY NoticesAssumption DEF FinishSaves, Plans, Ends, Missing, IInv, SystemInv, SystemTypeOK

LEMMA ApplyKeeps ==
  ASSUME IInv, NEW r \in Requests, ApplyWrite(r)
  PROVE  IInv'
  <1>1. PICK s, days, seen :
          s = op[r].notice.source /\ days = op[r].notice.days /\ seen = op[r].seen
    OBVIOUS
  <1>2. r \in Actors /\ Plans(r, seen, s, days) /\ days[s] # None
    BY <1>1, ApplyPlans, NoticesAssumption
  <1>3. UNCHANGED <<sync, today, todo>> /\ removed' = removed \ {s} /\ removed \subseteq Years
    BY <1>1 DEF ApplyWrite, IInv, SystemInv, SystemTypeOK
  <1>4. OpInv' /\ ReadInv'
    BY <1>2, WriteKeepsReads
  <1>5. /\ \A y \in Years : y # s => (IsComplete(y)' <=> IsComplete(y))
        /\ IsComplete(s) => IsComplete(s)'
    BY <1>2, WriteKeepsOthers
  <1>6. SystemTypeOK'
    BY <1>2, <1>3, WriteKeepsTypes DEF IInv, SystemInv, SystemTypeOK
  <1>7. CompletedIsComplete'
    BY <1>3, <1>5 DEF IInv, SystemInv, CompletedIsComplete
  <1>8. RemovedStaysRemoved' /\ PausedInv'
    BY <1>3, <1>5 DEF IInv, SystemInv, RemovedStaysRemoved, PausedInv
  <1> QED
    BY <1>4, <1>6, <1>7, <1>8 DEF IInv, SystemInv

LEMMA DeleteKeeps ==
  ASSUME IInv, NEW r \in Requests, DeleteWrite(r)
  PROVE  IInv'
  <1>0. PICK s, seen : s = op[r].year /\ seen = op[r].seen
    OBVIOUS
  <1>1. r \in Actors /\ Plans(r, seen, s, NoDays) /\ Complete(seen[s], s)
    BY <1>0, DeletePlans
  <1>2. s \in Years /\ NoDays[s] = None
    BY <1>1 DEF Plans, NoDays
  <1>3. UNCHANGED <<today, todo>> /\ removed' = removed \cup {s} /\ removed \subseteq Years
    BY <1>0 DEF DeleteWrite, IInv, SystemInv, SystemTypeOK
  <1>4. PICK p \in Syncs : p = Paused(sync[s]) /\ p.status = "paused" /\ p.token = None
    BY <1>2, SyncForms DEF IInv, SystemInv, SystemTypeOK
  <1>5. sync' = [sync EXCEPT ![s] = p]
    BY <1>0, <1>4 DEF DeleteWrite
  <1>6. OpInv' /\ ReadInv'
    BY <1>1, WriteKeepsReads
  <1>7. ~IsComplete(s)' /\ \A y \in Years : y # s => (IsComplete(y)' <=> IsComplete(y))
    BY <1>1, <1>2, WriteKeepsOthers DEF Complete
  <1>8. sync' \in [Years -> Syncs] /\ \A y \in Years : sync'[y] = IF y = s THEN p ELSE sync[y]
    BY <1>2, <1>5 DEF IInv, SystemInv, SystemTypeOK
  <1>9. \A y \in Years : (sync'[y].token # None) <=> (sync'[y].status = "running")
    BY <1>4, <1>8 DEF IInv, SystemInv, SystemTypeOK
  <1>10. SystemTypeOK'
    BY <1>1, <1>2, <1>3, <1>8, <1>9, WriteKeepsTypes
  <1>11. CompletedIsComplete'
    BY <1>4, <1>7, <1>8 DEF IInv, SystemInv, CompletedIsComplete
  <1>12. RemovedStaysRemoved'
    BY <1>2, <1>3, <1>7 DEF IInv, SystemInv, RemovedStaysRemoved
  <1>13. PausedInv'
    BY <1>2, <1>3, <1>4, <1>8 DEF IInv, PausedInv
  <1> QED
    BY <1>6, <1>10, <1>11, <1>12, <1>13 DEF IInv, SystemInv

LEMMA FinishSavesKeeps ==
  ASSUME IInv, NEW a \in Actors, NEW n \in Notices, FinishSaves(a, n)
  PROVE  IInv'
  <1> DEFINE s == n.source
  <1>1. Plans(a, records, s, n.days) /\ ~IsComplete(s) /\ op[a].at = "fetching" /\ op[a].year = s
    BY FinishPlans
  <1>2. s \in Years /\ n.days[s] # None
    BY NoticesAssumption
  <1>3. UNCHANGED <<today, todo, removed>> /\ removed \subseteq Years /\ HoldsLease(a)
    BY DEF FinishSaves, IInv, SystemInv, SystemTypeOK
  <1>4. s \notin removed
    BY <1>1, <1>3, Leased
  <1>5. PICK p \in Syncs : p = Completed(sync[s]) /\ p.status = "completed" /\ p.token = None
    BY <1>2, SyncForms DEF IInv, SystemInv, SystemTypeOK
  <1>6. sync' = [sync EXCEPT ![s] = p]
    BY <1>5 DEF FinishSaves
  <1> HIDE DEF s
  <1>7. OpInv' /\ ReadInv'
    BY <1>1, WriteKeepsReads
  <1>8. IsComplete(s)' /\ \A y \in Years : y # s => (IsComplete(y)' <=> IsComplete(y))
    BY <1>1, <1>2, WriteKeepsOthers DEF IsComplete, Complete
  <1>9. sync' \in [Years -> Syncs] /\ \A y \in Years : sync'[y] = IF y = s THEN p ELSE sync[y]
    BY <1>2, <1>6 DEF IInv, SystemInv, SystemTypeOK
  <1>10. \A y \in Years : (sync'[y].token # None) <=> (sync'[y].status = "running")
    BY <1>5, <1>9 DEF IInv, SystemInv, SystemTypeOK
  <1>11. SystemTypeOK'
    BY <1>1, <1>3, <1>9, <1>10, WriteKeepsTypes
  <1>12. CompletedIsComplete'
    BY <1>8, <1>9 DEF IInv, SystemInv, CompletedIsComplete
  <1>13. RemovedStaysRemoved' /\ PausedInv'
    BY <1>3, <1>4, <1>8, <1>9 DEF IInv, SystemInv, RemovedStaysRemoved, PausedInv
  <1> QED
    BY <1>7, <1>11, <1>12, <1>13 DEF IInv, SystemInv

-----------------------------------------------------------------------------
(* Every step *)

LEMMA NextKeeps ==
  ASSUME IInv, [Step]_system
  PROVE  IInv'
  <1>1. CASE UNCHANGED system
    BY <1>1 DEF system, IInv, SystemInv, SystemTypeOK, CompletedIsComplete, RemovedStaysRemoved, IsComplete,
      OpInv, ReadInv, AsRead, PausedInv
  <1>2. ASSUME NEW r \in Requests, Administration(r) \/ Writing(r)
        PROVE  IInv'
    BY <1>2, AdministrationKeeps, ApplyKeeps, DeleteKeeps, IdlenessKeeps DEF Writing
  <1>3. ASSUME NEW a \in Actors, Finish(a)
        PROVE  IInv'
    BY <1>3, FinishSavesKeeps, FinishesKeep, IdlenessKeeps DEF Finish
  <1>4. ASSUME NEW a \in Actors, NEW y \in Years, Check(a, y)
        PROVE  IInv'
    BY <1>4, ChecksKeep
  <1>5. ASSUME NEW y \in Years, NotClaimed(y) \/ LeaseExpires(y) \/ AttemptDue(y)
        PROVE  IInv'
    BY <1>5, TimeKeeps, IdlenessKeeps
  <1>6. CASE MonthsPass \/ Prepare
    BY <1>6, TimeKeeps
  <1>7. CASE Restart
    BY <1>7, IdlenessKeeps
  <1> QED
    BY <1>1, <1>2, <1>3, <1>4, <1>5, <1>6, <1>7 DEF Step

LEMMA NextSteps == [Next]_vars => [Step]_system
  BY DEF Next, vars

\* The inductive invariant, which the results below rest on: what a request has read of a row it is
\* about to write is what the row holds as long as the revision is the same.
THEOREM CalendarInvariant == Spec => []IInv
  <1>1. IInv /\ [Next]_vars => IInv'
    BY NextKeeps, NextSteps
  <1> QED
    BY <1>1, InitIInv, PTL DEF Spec

\* A year the job takes for done is there, and a year an administrator deleted does not come
\* back by an answer that was on its way, for any number of years, notices and requests at once.
THEOREM DoneAndDeletedStay == Spec => []Inv
  <1>1. Init => Remembered
    BY DEF Init, Remembered
  <1>2. Remembered /\ [Next]_vars => Remembered'
    BY DEF Remembered, Next, Recorded, vars
  <1>3. IInv /\ Remembered => Inv
    BY DEF IInv, Inv, SystemInv, TypeOK, Remembered
  <1> QED
    BY <1>1, <1>2, <1>3, CalendarInvariant, PTL DEF Spec

-----------------------------------------------------------------------------
(* No write loses what another source contributes *)

LEMMA WriteKeepsSources ==
  ASSUME IInv, NEW a \in Actors, NEW seen, NEW s, NEW days, Plans(a, seen, s, days)
  PROVE  /\ \A y, z \in Years : z # s => records'[y].parts[z] = records[y].parts[z]
         /\ \A y \in Years : y \in Changed(seen, s, days) => records'[y].parts[s] = days[y]
  <1>1. s \in Years /\ records \in [Years -> Records]
    BY DEF Plans, IInv, SystemInv, SystemTypeOK
  <1>2. \A y \in Years : records[y].parts \in [Years -> Contents \cup {None}]
    BY <1>1 DEF Records, Spans
  <1>3. \A y \in Years : y \notin Changed(seen, s, days) => records'[y] = records[y]
    BY Wrote
  <1>4. \A y \in Years : y \in Changed(seen, s, days) =>
          records'[y].parts = [records[y].parts EXCEPT ![s] = days[y]]
    BY Wrote DEF Rewritten
  <1> QED
    BY <1>1, <1>2, <1>3, <1>4

\* Which steps write the rows at all.
LEMMA OnlyPlansWrite ==
  ASSUME IInv, [Step]_system, ~UNCHANGED calendars
  PROVE  \/ \E r \in Requests : ApplyWrite(r) \/ DeleteWrite(r)
         \/ \E a \in Actors, n \in Notices : FinishSaves(a, n)
  <1>1. ~UNCHANGED system
    BY DEF system, calendars
  <1>2. \A r \in Requests : ~Administration(r) /\ ~WriteConflict(r)
    BY DEF Administration, Preview, Leave, ApplyUnchanged, ApplyConflict, ApplyRead, DeleteRead,
      WriteConflict, calendars
  <1>3. \A a \in Actors : ~FinishKeeps(a) /\ ~FinishWithout(a) /\ ~FinishDropped(a)
    BY DEF FinishKeeps, FinishWithout, FinishDropped, calendars
  <1>4. \A a \in Actors, y \in Years : ~Check(a, y)
    BY DEF Check, ClaimComplete, Claim, calendars
  <1>5. \A y \in Years : ~NotClaimed(y) /\ ~LeaseExpires(y) /\ ~AttemptDue(y)
    BY DEF NotClaimed, LeaseExpires, AttemptDue, calendars
  <1>6. ~Prepare /\ ~MonthsPass /\ ~Restart
    BY DEF Prepare, MonthsPass, Restart, calendars
  <1> QED
    BY <1>1, <1>2, <1>3, <1>4, <1>5, <1>6 DEF Step, Writing, Finish

\* What NothingOverwritten says of one step.
KeepsOthersDays ==
  \A y, s \in Years : records'[y].parts[s] # records[y].parts[s] =>
    /\ \E a \in Actors : WorksOn(a, s) /\ op'[a] # op[a]
    /\ IsComplete(s) =>
         \E r \in Requests : op[r].at \in {"saving", "removing"} /\ op'[r] # op[r]

LEMMA StepKeepsOthersDays ==
  ASSUME IInv, [Step]_system
  PROVE  KeepsOthersDays
  <1> SUFFICES ASSUME NEW y \in Years, NEW s \in Years, records'[y].parts[s] # records[y].parts[s]
               PROVE  /\ \E a \in Actors : WorksOn(a, s) /\ op'[a] # op[a]
                      /\ IsComplete(s) =>
                           \E r \in Requests : op[r].at \in {"saving", "removing"} /\ op'[r] # op[r]
    BY DEF KeepsOthersDays
  <1>1. ASSUME NEW a \in Actors, NEW seen, NEW z, NEW days, Plans(a, seen, z, days), op[a].at # "idle"
        PROVE  z = s /\ op'[a] # op[a]
    <2>1. z = s
      BY <1>1, WriteKeepsSources
    <2>2. op'[a] = Idle
      BY <1>1 DEF Plans, IInv, OpInv
    <2> QED
      BY <1>1, <2>1, <2>2, IdleFits
  <1>2. ASSUME NEW r \in Requests, ApplyWrite(r)
        PROVE  WorksOn(r, s) /\ op'[r] # op[r] /\ op[r].at = "saving" /\ r \in Actors
    <2>1. op[r].at = "saving"
      BY <1>2 DEF ApplyWrite
    <2> QED
      BY <1>1, <1>2, <2>1, ApplyPlans DEF WorksOn, IsWriting
  <1>3. ASSUME NEW r \in Requests, DeleteWrite(r)
        PROVE  WorksOn(r, s) /\ op'[r] # op[r] /\ op[r].at = "removing" /\ r \in Actors
    BY <1>1, <1>3, DeletePlans DEF WorksOn, IsWriting
  <1>4. ASSUME NEW a \in Actors, NEW n \in Notices, FinishSaves(a, n)
        PROVE  WorksOn(a, s) /\ op'[a] # op[a] /\ ~IsComplete(s)
    <2>1. op[a].at = "fetching" /\ op[a].year = n.source /\ ~IsComplete(n.source)
      BY <1>4, FinishPlans
    <2>2. n.source = s /\ op'[a] # op[a]
      BY <1>1, <1>4, <2>1, FinishPlans
    <2> QED
      BY <2>1, <2>2 DEF WorksOn
  <1> QED
    BY <1>2, <1>3, <1>4, OnlyPlansWrite DEF calendars

\* Saving or deleting a notice, or a late answer, never loses what another source contributes,
\* also when two writes of one row rest on reads that precede both.
THEOREM NothingLost == Spec => NothingOverwritten
  <1>1. IInv /\ [Next]_vars => [KeepsOthersDays]_vars
    BY StepKeepsOthersDays, NextSteps
  <1> QED
    BY <1>1, CalendarInvariant, PTL DEF Spec, NothingOverwritten, KeepsOthersDays

-----------------------------------------------------------------------------
(* Whole notices *)

\* What a write leaves alone already says what it would have written.
LEMMA UnchangedSays ==
  ASSUME NEW s \in Years, NEW days \in Spans, NEW seen \in [Years -> Records],
         NEW y \in Years, y \notin Changed(seen, s, days)
  PROVE  seen[y].parts[s] = days[y]
  <1>1. seen[y].parts \in [Years -> Contents \cup {None}]
    BY DEF Records, Spans
  <1>2. CASE y \in Affected(s, days, seen)
    <2>1. seen[y].parts = Replaced(seen, s, days, y).parts
      BY <1>2 DEF Changed, Same
    <2>2. seen[y].parts = [seen[y].parts EXCEPT ![s] = days[y]]
      BY <2>1, ReplacedRow
    <2> QED
      BY <1>1, <2>2
  <1>3. CASE y \notin Affected(s, days, seen)
    BY <1>3 DEF Affected
  <1> QED
    BY <1>2, <1>3

\* A write on top of rows that hold the source's days as they were read makes the notice whole.
LEMMA WholeAgain ==
  ASSUME IInv, NEW a \in Actors, NEW seen, NEW s, NEW days, Plans(a, seen, s, days),
         \A y \in Years : records[y].parts[s] = seen[y].parts[s]
  PROVE  Whole(s)'
  <1>1. /\ s \in Years /\ days \in Spans /\ seen \in [Years -> Records]
        /\ inForce \in [Years -> Spans]
    BY DEF Plans, IInv, SystemInv, SystemTypeOK
  <1>2. \A y \in Years : records'[y].parts[s] = days[y]
    <2>1. \A y \in Years : y \notin Changed(seen, s, days) => records'[y] = records[y]
      BY Wrote
    <2> QED
      BY <1>1, <2>1, UnchangedSays, WriteKeepsSources
  <1>3. inForce'[s] = days
    BY <1>1, Wrote
  <1> QED
    BY <1>2, <1>3 DEF Whole

\* The other notices stay as whole as they were.
LEMMA OthersStayWhole ==
  ASSUME IInv, NEW a \in Actors, NEW seen, NEW s, NEW days, Plans(a, seen, s, days),
         NEW z \in Years, z # s, Whole(z)
  PROVE  Whole(z)'
  <1>1. \A y \in Years : records'[y].parts[z] = records[y].parts[z]
    BY WriteKeepsSources
  <1>2. inForce'[z] = inForce[z]
    BY Wrote DEF IInv, SystemInv, SystemTypeOK
  <1> QED
    BY <1>1, <1>2 DEF Whole

\* A request that nobody overtook never mixes its notice with one it has not read.
LEMMA ApplyMakesWhole ==
  ASSUME IInv, NEW r \in Requests, Alone(r), ApplyWrite(r), NEW s, s = op[r].notice.source
  PROVE  Whole(s)'
  <1>1. PICK days, seen : days = op[r].notice.days /\ seen = op[r].seen
    OBVIOUS
  <1>2. r \in Actors /\ Plans(r, seen, s, days) /\ op[r].at = "saving" /\ days[s] # None
    BY <1>1, ApplyPlans, NoticesAssumption DEF ApplyWrite
  <1>3. s \in Years /\ days \in Spans /\ seen \in [Years -> Records]
    BY <1>2 DEF Plans
  <1>4. \A y \in Changed(seen, s, days) : records[y].rev = seen[y].rev
    BY <1>2 DEF Plans, WritePlan, Unraced
  <1>5. seen[s].parts[s] = None => s \in Changed(seen, s, days)
    BY <1>2, <1>3, UnchangedSays
  <1>6. \A y \in Years : records[y].parts[s] = seen[y].parts[s]
    BY <1>1, <1>2, <1>4, <1>5 DEF Alone, Writes, Source
  <1> QED
    BY <1>2, <1>6, WholeAgain

LEMMA DeleteMakesWhole ==
  ASSUME IInv, NEW r \in Requests, Alone(r), DeleteWrite(r), NEW s, s = op[r].year
  PROVE  Whole(s)'
  <1>1. PICK seen : seen = op[r].seen
    OBVIOUS
  <1>2. r \in Actors /\ Plans(r, seen, s, NoDays) /\ op[r].at = "removing"
    BY <1>1, DeletePlans
  <1>3. \A y \in Years : records[y].parts[s] = seen[y].parts[s]
    BY <1>1, <1>2 DEF Alone, Writes, Source
  <1> QED
    BY <1>2, <1>3, WholeAgain

\* A write of another notice leaves a request alone: the rows it read keep the contributions of
\* its own notice, and a row that got a revision of its own since does not get the old one back.
LEMMA OtherNoticeLeavesAlone ==
  ASSUME IInv, NEW a \in Actors, NEW seen, NEW s, NEW days, Plans(a, seen, s, days),
         NEW r \in Requests, r # a, Alone(r), Writes(op[r]) => Source(op[r]) # s
  PROVE  Alone(r)'
  <1>1. s \in Years /\ records \in [Years -> Records] /\ writes \in Nat
    BY DEF Plans, IInv, SystemInv, SystemTypeOK
  <1>2. r \in Actors /\ op'[r] = op[r] /\ Fits(op[r]) /\ AsRead(op[r])
    BY RequestIsNotScheduler DEF Plans, IInv, OpInv, ReadInv
  <1>3. \A y, z \in Years : z # s => records'[y].parts[z] = records[y].parts[z]
    BY WriteKeepsSources
  <1>4. \A y \in Years : y # s => (IsComplete(y)' <=> IsComplete(y))
    BY WriteKeepsOthers
  <1>5. \A y \in Years : records'[y] = records[y] \/ records'[y].rev = writes + 1 \/ records'[y] = NoRow
    BY Wrote DEF Rewritten
  <1>6. PICK w : w = op[r]
    OBVIOUS
  <1>7. ASSUME Writes(w)
        PROVE  \/ \A y \in Years : records'[y].parts[Source(w)] = w.seen[y].parts[Source(w)]
               \/ /\ w.at = "saving" /\ w.seen[Source(w)].parts[Source(w)] = None
                  /\ records'[Source(w)].rev # w.seen[Source(w)].rev
                  /\ records'[Source(w)].parts[Source(w)] # None
    <2>1. PICK z, read : z = Source(w) /\ read = w.seen
      OBVIOUS
    <2>2. z \in Years /\ z # s /\ read \in [Years -> Records]
      BY <1>2, <1>6, <1>7, <2>1, NoticesAssumption DEF Fits, Writes, Source
    <2>3. \A y \in Years : read[y].rev \in Nat /\ read[y].rev <= writes
      BY <1>2, <1>6, <1>7, <2>1, <2>2 DEF AsRead, Records
    <2>4. \/ \A y \in Years : records[y].parts[z] = read[y].parts[z]
          \/ /\ w.at = "saving" /\ read[z].parts[z] = None
             /\ records[z].rev # read[z].rev /\ records[z].parts[z] # None
      BY <1>6, <1>7, <2>1 DEF Alone
    <2>5. \A y \in Years : NoRow.parts[y] = None
      BY DEF NoRow, NoDays
    <2>6. ASSUME records'[z].parts[z] # None, records[z] # records'[z]
          PROVE  records'[z].rev # read[z].rev
      <3>1. records'[z].rev = writes + 1
        BY <1>5, <2>2, <2>5, <2>6
      <3> QED
        BY <1>1, <2>2, <2>3, <3>1
    <2> QED
      BY <1>3, <2>1, <2>2, <2>4, <2>6
  <1>8. ASSUME w.at = "removing"
        PROVE  IsComplete(w.year)'
    <2>1. w.year \in Years /\ w.year # s /\ IsComplete(w.year)
      BY <1>2, <1>6, <1>8 DEF Fits, Alone, Writes, Source
    <2> QED
      BY <1>4, <2>1
  <1>9. op'[r] = w
    BY <1>2, <1>6
  <1>10. w.at = "removing" => Complete(records'[w.year], w.year)
    BY <1>8 DEF IsComplete
  <1> QED
    BY <1>7, <1>9, <1>10 DEF Alone, IsComplete

\* The job's answer while a request is about to write: another source's, or the year the request
\* is about to save for the first time, whose row is a new one from now on.
LEMMA FinishLeavesAlone ==
  ASSUME IInv, NEW a \in Actors, NEW n \in Notices, FinishSaves(a, n),
         NEW r \in Requests, r # a, Alone(r)
  PROVE  Alone(r)'
  <1>1. PICK s, days : s = n.source /\ days = n.days
    OBVIOUS
  <1>2. Plans(a, records, s, days) /\ ~IsComplete(s) /\ days[s] # None
    BY <1>1, FinishPlans, NoticesAssumption
  <1>3. /\ s \in Years /\ days \in Spans /\ records \in [Years -> Records] /\ writes \in Nat
        /\ records[s].parts[s] = None
    BY <1>2 DEF Plans, IInv, SystemInv, SystemTypeOK, IsComplete, Complete
  <1>4. r \in Actors /\ op'[r] = op[r] /\ Fits(op[r]) /\ AsRead(op[r])
    BY <1>2, RequestIsNotScheduler DEF Plans, IInv, OpInv, ReadInv
  <1>5. CASE Writes(op[r]) => Source(op[r]) # s
    BY <1>2, <1>5, OtherNoticeLeavesAlone
  <1>6. CASE Writes(op[r]) /\ Source(op[r]) = s
    <2>1. PICK w, seen : w = op[r] /\ seen = w.seen
      OBVIOUS
    <2>2. w.at = "saving" /\ Source(w) = s /\ seen[s].parts[s] = None
      BY <1>2, <1>3, <1>6, <2>1 DEF Alone, Writes, Source
    <2>3. seen \in [Years -> Records] /\ \A y \in Years : seen[y].rev \in Nat /\ seen[y].rev <= writes
      BY <1>4, <1>6, <2>1 DEF Fits, AsRead, Records
    <2>4. s \in Changed(records, s, days) /\ \A y \in Years : NoRow.parts[y] = None
      BY <1>2, <1>3, UnchangedSays DEF NoRow, NoDays
    <2>5. records'[s].parts[s] = days[s]
      BY <1>2, <1>3, <2>4, WriteKeepsSources
    <2>6. records'[s].rev = writes + 1
      <3>1. records'[s] # NoRow
        BY <1>2, <1>3, <2>4, <2>5
      <3>2. Rewritten(s, days, s)
        BY <1>2, <1>3, <2>4, Wrote
      <3> QED
        BY <3>1, <3>2 DEF Rewritten
    <2>7. records'[s].rev # seen[s].rev
      BY <1>3, <2>3, <2>6
    <2>8. op'[r] = w
      BY <1>4, <2>1
    <2> QED
      BY <1>2, <2>1, <2>2, <2>5, <2>7, <2>8 DEF Alone
  <1> QED
    BY <1>5, <1>6

\* What a request does next if nobody writes.
LEMMA RequestMoves ==
  ASSUME IInv, [Step]_system, UNCHANGED <<records, inForce>>, NEW r \in Requests
  PROVE  \/ op'[r] = op[r] \/ op'[r].at \in {"idle", "previewed", "fetching"}
         \/ ApplyRead(r) \/ \E y \in Years : DeleteRead(r, y)
  <1>1. op = [a \in Actors |-> op[a]] /\ r \in Actors /\ \A a \in Requests : a \in Actors
    BY RequestIsNotScheduler DEF IInv, OpInv
  <1>2. ASSUME NEW a \in Actors, op' = [op EXCEPT ![a] = Idle]
        PROVE  op'[r] = op[r] \/ op'[r].at = "idle"
    BY <1>1, <1>2, IdleFits
  <1>3. ASSUME NEW q \in Requests, Administration(q) \/ Writing(q)
        PROVE  \/ op'[r] = op[r] \/ op'[r].at \in {"idle", "previewed"}
               \/ ApplyRead(r) \/ \E y \in Years : DeleteRead(r, y)
    <2>1. CASE Leave(q) \/ ApplyUnchanged(q) \/ ApplyConflict(q) \/ Writing(q)
      BY <1>1, <1>2, <2>1 DEF Leave, ApplyUnchanged, ApplyConflict, Writing, ApplyWrite,
        DeleteWrite, WriteConflict, Ends
    <2>2. ASSUME NEW n \in Notices, NEW edit \in BOOLEAN, Preview(q, n, edit)
          PROVE  op'[r] = op[r] \/ op'[r].at = "previewed"
      BY <1>1, <2>2 DEF Preview, Begins
    <2>3. CASE ApplyRead(q)
      BY <1>1, <2>3 DEF ApplyRead
    <2>4. ASSUME NEW y \in Years, DeleteRead(q, y)
          PROVE  op'[r] = op[r] \/ q = r
      BY <1>1, <2>4 DEF DeleteRead, Begins
    <2> QED
      BY <1>3, <2>1, <2>2, <2>3, <2>4 DEF Administration
  <1>4. ASSUME NEW a \in Actors, Finish(a)
        PROVE  op'[r] = op[r] \/ op'[r].at = "idle"
    BY <1>2, <1>4 DEF Finish, FinishSaves, FinishKeeps, FinishWithout, FinishDropped, Ends
  <1>5. ASSUME NEW a \in Actors, NEW y \in Years, Check(a, y)
        PROVE  op'[r] = op[r] \/ op'[r].at = "fetching"
    BY <1>1, <1>5 DEF Check, ClaimComplete, Claim, Begins
  <1>6. CASE Restart
    BY <1>1, <1>6, IdleFits DEF Restart
  <1>7. ASSUME NEW y \in Years, NotClaimed(y) \/ LeaseExpires(y) \/ AttemptDue(y)
        PROVE  op' = op
    BY <1>7 DEF NotClaimed, LeaseExpires, AttemptDue
  <1>8. CASE MonthsPass \/ Prepare \/ UNCHANGED system
    BY <1>8 DEF MonthsPass, Prepare, system
  <1> QED
    BY <1>3, <1>4, <1>5, <1>6, <1>7, <1>8 DEF Step

LEMMA ReadingStaysAlone ==
  ASSUME IInv, [Step]_system, UNCHANGED <<records, inForce>>, NEW r \in Requests,
         op'[r] = op[r] => Alone(r)
  PROVE  Alone(r)'
  <1>1. op = [a \in Actors |-> op[a]] /\ r \in Actors /\ Fits(op[r])
    BY RequestIsNotScheduler DEF IInv, OpInv
  <1>2. \A n \in Notices : n.source \in Years
    BY NoticesAssumption
  <1>3. CASE op'[r] = op[r]
    BY <1>3 DEF Alone, IsComplete
  <1>4. CASE op'[r].at \in {"idle", "previewed", "fetching"}
    BY <1>4 DEF Alone, Writes
  <1>5. ASSUME NEW s \in Years, NEW days, NEW w, op'[r] = w, Source(w) = s,
               w.seen = Seen(Affected(s, days, records)),
               w.at = "removing" => w.year = s /\ IsComplete(s)
        PROVE  Alone(r)'
    <2>1. \A y \in Years : NoRow.parts[y] = None
      BY DEF NoRow, NoDays
    <2>2. \A y \in Years : records[y].parts[s] = w.seen[y].parts[s]
      BY <1>5, <2>1 DEF Seen, Affected
    <2>3. \A y \in Years : records'[y].parts[s] = w.seen[y].parts[s]
      BY <2>2
    <2>4. w.at = "removing" => Complete(records'[w.year], w.year)
      BY <1>5 DEF IsComplete
    <2> QED
      BY <1>5, <2>3, <2>4 DEF Alone, IsComplete
  <1>6. CASE ApplyRead(r)
    <2> DEFINE n == op[r].notice
    <2>1. n \in Notices
      BY <1>1, <1>6 DEF ApplyRead, Fits
    <2>2. PICK w : w = [at |-> "saving", notice |-> n, seen |-> Seen(Affected(n.source, n.days, records))]
      OBVIOUS
    <2>3. op'[r] = w
      BY <1>1, <1>6, <2>2 DEF ApplyRead
    <2>4. w.seen = Seen(Affected(n.source, n.days, records)) /\ w.at = "saving" /\ Source(w) = n.source
      BY <2>2 DEF Source
    <2> QED
      BY <1>2, <1>5, <2>1, <2>3, <2>4
  <1>7. ASSUME NEW y \in Years, DeleteRead(r, y)
        PROVE  Alone(r)'
    <2>1. PICK w : w = [at |-> "removing", year |-> y, seen |-> Seen(Affected(y, NoDays, records))]
      OBVIOUS
    <2>2. op'[r] = w /\ IsComplete(y)
      BY <1>1, <1>7, <2>1 DEF DeleteRead, Begins
    <2>3. w.seen = Seen(Affected(y, NoDays, records)) /\ w.year = y /\ Source(w) = y
      BY <2>1 DEF Source
    <2> QED
      BY <1>5, <2>2, <2>3
  <1> QED
    BY <1>3, <1>4, <1>6, <1>7, RequestMoves

\* What Recorded makes of a step in which one actor writes a notice.
LEMMA OneCommits ==
  ASSUME IInv, NEW a \in Actors, NEW seen, NEW s, NEW days, Plans(a, seen, s, days), WorksOn(a, s)
  PROVE  /\ op'[a] = Idle
         /\ \A b \in Actors, z \in Years : Commits(b, z) <=> b = a /\ z = s
  <1>1. writes' # writes
    BY Wrote DEF IInv, SystemInv, SystemTypeOK
  <1>2. op'[a] = Idle /\ op'[a] # op[a] /\ \A b \in Actors : b # a => op'[b] = op[b]
    BY IdleFits DEF Plans, IInv, OpInv, WorksOn, IsWriting
  <1>3. \A z \in Years : WorksOn(a, z) => z = s
    BY DEF WorksOn, IsWriting
  <1> QED
    BY <1>1, <1>2, <1>3 DEF Commits

\* A request that writes what it has read.
LEMMA RequestStaysWhole ==
  ASSUME IInv, Remembered, WholeInv, Recorded,
         NEW q \in Requests, NEW seen, NEW s, NEW days, Plans(q, seen, s, days), IsWriting(q, s),
         Alone(q) => Whole(s)'
  PROVE  WholeInv'
  <1>1. q \in Actors /\ s \in Years /\ WorksOn(q, s) /\ \A r \in Requests : r \in Actors
    BY RequestIsNotScheduler DEF Plans, WorksOn
  <1>2. op'[q] = Idle /\ \A b \in Actors, z \in Years : Commits(b, z) <=> b = q /\ z = s
    BY <1>1, OneCommits
  <1>3. ASSUME NEW z \in Years, z \notin mixed'
        PROVE  Whole(z)'
    <2>1. CASE z = s
      <3>1. q \notin overtaken
        BY <1>1, <1>2, <1>3, <2>1 DEF Recorded
      <3> QED
        BY <2>1, <3>1 DEF WholeInv
    <2>2. CASE z # s
      <3>1. z \notin mixed
        BY <1>2, <1>3, <2>2 DEF Recorded
      <3> QED
        BY <1>1, <2>2, <3>1, OthersStayWhole DEF WholeInv
    <2> QED
      BY <2>1, <2>2
  <1>4. ASSUME NEW r \in Requests, r \notin overtaken'
        PROVE  Alone(r)'
    <2>1. CASE r = q
      BY <1>2, <2>1 DEF Alone, Writes, Idle
    <2>2. CASE r # q
      <3>1. op'[r] = op[r]
        BY <1>1, <2>2 DEF Plans, IInv, OpInv
      <3>2. r \notin overtaken /\ ~Overtakes(q, r)
        BY <1>4, <3>1 DEF Recorded
      <3>3. ~IsWriting(r, s)
        BY <1>1, <1>2, <3>2 DEF Overtakes
      <3>4. Writes(op[r]) => Source(op[r]) # s
        BY <3>3 DEF IsWriting, Writes, Source
      <3> QED
        BY <1>1, <2>2, <3>2, <3>4, OtherNoticeLeavesAlone DEF WholeInv
    <2> QED
      BY <2>1, <2>2
  <1> QED
    BY <1>3, <1>4 DEF WholeInv

\* The job's answer, written on what it reads in the same transaction.
LEMMA FinishStaysWhole ==
  ASSUME IInv, Remembered, WholeInv, Recorded, NEW a \in Actors, NEW n \in Notices, FinishSaves(a, n)
  PROVE  WholeInv'
  <1>1. PICK s, days : s = n.source /\ days = n.days
    OBVIOUS
  <1>2. Plans(a, records, s, days) /\ s \in Years /\ WorksOn(a, s) /\ op[a].at = "fetching"
    BY <1>1, FinishPlans DEF Plans, WorksOn
  <1>3. op'[a] = Idle /\ \A b \in Actors, z \in Years : Commits(b, z) <=> b = a /\ z = s
    BY <1>2, OneCommits
  <1>4. ASSUME NEW z \in Years, z \notin mixed'
        PROVE  Whole(z)'
    <2>1. CASE z = s
      BY <1>2, <2>1, WholeAgain
    <2>2. CASE z # s
      <3>1. z \notin mixed
        BY <1>3, <1>4, <2>2 DEF Recorded
      <3> QED
        BY <1>2, <2>2, <3>1, OthersStayWhole DEF WholeInv
    <2> QED
      BY <2>1, <2>2
  <1>5. ASSUME NEW r \in Requests, r \notin overtaken'
        PROVE  Alone(r)'
    <2>1. CASE r = a
      BY <1>3, <2>1 DEF Alone, Writes, Idle
    <2>2. CASE r # a
      <3>1. op'[r] = op[r]
        BY <1>2, <2>2, RequestIsNotScheduler DEF Plans, IInv, OpInv
      <3>2. Alone(r)
        BY <1>5, <3>1 DEF Recorded, WholeInv
      <3> QED
        BY <2>2, <3>2, FinishLeavesAlone
    <2> QED
      BY <2>1, <2>2
  <1> QED
    BY <1>4, <1>5 DEF WholeInv

\* Nobody writes.
LEMMA OthersStepsStayWhole ==
  ASSUME IInv, WholeInv, [Step]_system, UNCHANGED calendars, Recorded
  PROVE  WholeInv'
  <1>1. UNCHANGED <<records, inForce>> /\ \A a \in Actors, z \in Years : ~Commits(a, z)
    BY DEF calendars, Commits
  <1>2. \A z \in Years : z \notin mixed' => z \notin mixed
    BY <1>1 DEF Recorded
  <1>3. \A z \in Years : z \notin mixed' => Whole(z)'
    BY <1>1, <1>2 DEF WholeInv, Whole
  <1>4. ASSUME NEW r \in Requests, r \notin overtaken'
        PROVE  Alone(r)'
    <2>1. op'[r] = op[r] => Alone(r)
      BY <1>4 DEF Recorded, WholeInv
    <2> QED
      BY <1>1, <2>1, ReadingStaysAlone
  <1> QED
    BY <1>3, <1>4 DEF WholeInv

LEMMA NextStaysWhole ==
  ASSUME IInv, Remembered, WholeInv, [Next]_vars
  PROVE  WholeInv'
  <1>1. CASE UNCHANGED vars
    BY <1>1 DEF vars, system, WholeInv, Whole, Alone, IsComplete
  <1>2. CASE Step /\ Recorded
    <2>1. ASSUME NEW r \in Requests, ApplyWrite(r)
          PROVE  WholeInv'
      <3>1. PICK s, days, seen :
              s = op[r].notice.source /\ days = op[r].notice.days /\ seen = op[r].seen
        OBVIOUS
      <3>2. Plans(r, seen, s, days) /\ IsWriting(r, s)
        BY <2>1, <3>1, ApplyPlans DEF ApplyWrite, IsWriting
      <3>3. Alone(r) => Whole(s)'
        BY <2>1, <3>1, ApplyMakesWhole
      <3> QED
        BY <1>2, <3>2, <3>3, RequestStaysWhole
    <2>2. ASSUME NEW r \in Requests, DeleteWrite(r)
          PROVE  WholeInv'
      <3>1. PICK s, seen : s = op[r].year /\ seen = op[r].seen
        OBVIOUS
      <3>2. Plans(r, seen, s, NoDays) /\ IsWriting(r, s)
        BY <2>2, <3>1, DeletePlans DEF IsWriting
      <3>3. Alone(r) => Whole(s)'
        BY <2>2, <3>1, DeleteMakesWhole
      <3>4. PICK days : days = NoDays
        OBVIOUS
      <3> QED
        BY <1>2, <3>2, <3>3, <3>4, RequestStaysWhole
    <2>3. ASSUME NEW a \in Actors, NEW n \in Notices, FinishSaves(a, n)
          PROVE  WholeInv'
      BY <1>2, <2>3, FinishStaysWhole
    <2>4. CASE UNCHANGED calendars
      BY <1>2, <2>4, OthersStepsStayWhole
    <2> QED
      BY <1>2, <2>1, <2>2, <2>3, <2>4, OnlyPlansWrite
  <1> QED
    BY <1>1, <1>2 DEF Next

LEMMA InitWhole == Init => WholeInv
  <1> SUFFICES ASSUME Init
               PROVE  WholeInv
    OBVIOUS
  <1>1. \A y, s \in Years : NoRow.parts[s] = None /\ NoDays[s] = None
    BY DEF NoRow, NoDays
  <1>2. \A y \in Years : records[y].parts = NoDays
    <2>1. NoRow.parts = NoDays /\ NoRow \in Records
      BY NoDaysSpan DEF NoRow
    <2>2. [NoRow EXCEPT !.rev = 1, !.legacy = TRUE].parts = NoRow.parts
      BY <2>1 DEF Records
    <2> QED
      BY <2>1, <2>2 DEF Init
  <1>3. \A s \in Years : Whole(s)
    BY <1>1, <1>2 DEF Init, Whole
  <1>4. \A r \in Requests : Alone(r)
    BY IdleFits DEF Init, Actors, Alone
  <1> QED
    BY <1>3, <1>4 DEF WholeInv

\* The years together hold one notice of a source, the one its last saver was told is stored, or
\* nothing of it, whatever the job answers in between and whoever saves other notices; only a
\* request that read the notice before another request wrote it can mix the two, and the next
\* request to write what it has read makes it whole again.
THEOREM NoticesAreWhole == Spec => []WholeNotice
  <1>1. Init => Remembered /\ WholeInv
    BY InitWhole DEF Init, Remembered
  <1>2. IInv /\ Remembered /\ WholeInv /\ [Next]_vars => Remembered' /\ WholeInv'
    BY NextStaysWhole DEF Remembered, Next, Recorded, vars
  <1>3. Remembered /\ WholeInv => WholeNotice
    BY DEF WholeInv, Whole, WholeNotice
  <1> QED
    BY <1>1, <1>2, <1>3, CalendarInvariant, PTL DEF Spec

=============================================================================
