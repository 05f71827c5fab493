-------------------------- MODULE AttendanceCalendar --------------------------
(***************************************************************************)
(* The attendance calendars of some years and the job that fetches missing *)
(* ones.  An annual notice contributes days to its own year and to the     *)
(* adjacent ones; each year's row keeps the contributions apart by source. *)
(*                                                                         *)
(* Administrators preview, save and delete notices in requests that check  *)
(* revisions in Python and write with a compare-and-swap per row.  The job *)
(* claims a year under a lease, fetches without a transaction, and saves   *)
(* under BEGIN IMMEDIATE; an administrator may start the same check.       *)
(***************************************************************************)
EXTENDS Integers, FiniteSets

CONSTANTS
  Years,        \* consecutive years
  Contents,     \* what a notice may say of the days of one year
  OldYears,     \* years saved before notices were told apart
  Notices,      \* annual notices that exist
  None,         \* no contribution; nobody's lease
  Requests,     \* administrators' requests
  Scheduler,    \* the job's own loop
  MaxWrites     \* bound on the commits after which an administrator begins another

Spans == [Years -> Contents \cup {None}]

ASSUME YearsAssumption ==
  Years \subseteq Nat /\ IsFiniteSet(Years) /\ Years # {} /\ OldYears \subseteq Years
ASSUME NoticesAssumption ==
  \A n \in Notices :
    /\ n.source \in Years /\ n.days \in Spans
    /\ n.days[n.source] # None
    /\ \A y \in Years : n.days[y] # None => y - n.source \in -1..1
ASSUME NamesAssumption ==
  None \notin Contents \cup Requests \cup {Scheduler} /\ Scheduler \notin Requests
ASSUME BoundAssumption == MaxWrites \in Nat \ {0}

VARIABLES
  records,   \* the attendance_calendar:{year} rows
  sync,      \* the attendance_calendar_sync:{year} rows
  today,     \* the current year, and whether November has come
  todo,      \* years the scheduler's round has yet to check
  op,        \* what each request and the scheduler are doing
  writes,    \* commits so far; a fresh revision is their number
  inForce,   \* what the last saver of each notice was told is stored
  removed,   \* years an administrator deleted and nobody asked for since
  overtaken, \* requests about to write a notice another request has written since they read
  mixed      \* notices last written by such a request

system == <<records, sync, today, todo, op, writes, inForce, removed>>
vars == <<system, overtaken, mixed>>
calendars == <<records, writes, inForce>>

Actors == Requests \cup {Scheduler}
NoDays == [y \in Years |-> None]
Near(y) == Years \cap {y - 1, y, y + 1}

\* legacy: days saved before notices were told apart.  Revision 0: no row.
Records == [rev : Nat, legacy : BOOLEAN, parts : Spans]
NoRow == [rev |-> 0, legacy |-> FALSE, parts |-> NoDays]

SyncStatus == {"none", "pending", "running", "retry", "completed", "paused"}

\* live: leaseUntil has not passed; next: nextAttemptAt is null, ahead or past.
Syncs == [status : SyncStatus, token : Actors \cup {None}, live : BOOLEAN,
          next : {"null", "ahead", "past"}]
NoSync == [status |-> "none", token |-> None, live |-> FALSE, next |-> "null"]

Idle == [at |-> "idle"]

First == CHOOSE y \in Years : \A z \in Years : y <= z

Init ==
  /\ records = [y \in Years |-> IF y \in OldYears THEN [NoRow EXCEPT !.rev = 1, !.legacy = TRUE]
                                ELSE NoRow]
  /\ writes = IF OldYears = {} THEN 0 ELSE 1
  /\ sync = [y \in Years |-> NoSync]
  /\ today = [year |-> First, november |-> FALSE]
  /\ todo = {}
  /\ op = [a \in Actors |-> Idle]
  /\ inForce = [s \in Years |-> NoDays]
  /\ removed = {}
  /\ overtaken = {} /\ mixed = {}

-----------------------------------------------------------------------------
(* Composition of a year from its sources *)

Complete(rec, y) == rec.legacy \/ rec.parts[y] # None
IsComplete(y) == Complete(records[y], y)

\* Faulty variant: years the source used to speak of are forgotten.
AffectedNow(s, days, recs) == {s} \cup {y \in DOMAIN recs : days[y] # None}

\* Years a notice of source s with these days changes or leaves.
Affected(s, days, recs) ==
  {s} \cup {y \in Years : days[y] # None} \cup {y \in Years : recs[y].parts[s] # None}

\* The row of year y once source s says days and nothing else of it; the
\* contributions of other sources stay.
Replaced(recs, s, days, y) ==
  [recs[y] EXCEPT !.parts[s] = days[y], !.legacy = @ /\ y # s]

Same(old, new) == old.legacy = new.legacy /\ old.parts = new.parts

IsEmpty(rec) == ~rec.legacy /\ rec.parts = NoDays

Changed(recs, s, days) ==
  {y \in Affected(s, days, recs) : ~Same(recs[y], Replaced(recs, s, days, y))}

\* Faulty variant: rows are written without looking at what they hold by now.
WritePlanBlindly(seen, s, days) ==
  /\ records' = [y \in Years |->
       IF y \notin Changed(seen, s, days) THEN records[y]
       ELSE LET new == Replaced(seen, s, days, y)
            IN IF IsEmpty(new) THEN NoRow ELSE [new EXCEPT !.rev = writes + 1]]
  /\ writes' = writes + 1
  /\ inForce' = [inForce EXCEPT ![s] = days]

\* Each changed row is inserted, updated or deleted if it still is what was
\* read; otherwise the whole plan is rolled back.
Unraced(seen, s, days) ==
  \A y \in Changed(seen, s, days) : records[y].rev = seen[y].rev

WritePlan(seen, s, days) ==
  /\ Unraced(seen, s, days)
  /\ records' = [y \in Years |->
       IF y \notin Changed(seen, s, days) THEN records[y]
       ELSE LET new == Replaced(seen, s, days, y)
            IN IF IsEmpty(new) THEN NoRow ELSE [new EXCEPT !.rev = writes + 1]]
  /\ writes' = writes + 1
  /\ inForce' = [inForce EXCEPT ![s] = days]

-----------------------------------------------------------------------------
(* Administrators *)

Begins(a, what) == op[a] = Idle /\ op' = [op EXCEPT ![a] = what]
Ends(a) == op' = [op EXCEPT ![a] = Idle]

\* Years a preview rests on: an editor looks at all adjacent ones too.
Base(n, edit) ==
  Affected(n.source, n.days, records) \cup (IF edit THEN Near(n.source) ELSE {})

\* The part of the rows a request remembers.
Seen(years) == [y \in Years |-> IF y \in years THEN records[y] ELSE NoRow]
Revs(years) == [y \in years |-> records[y].rev]

\* preview_notice: the page gets the plan and the revisions it rests on.
Preview(r, n, edit) ==
  /\ edit => IsComplete(n.source)
  /\ Begins(r, [at |-> "previewed", notice |-> n, edit |-> edit, revs |-> Revs(Base(n, edit))])
  /\ UNCHANGED <<calendars, sync, today, todo, removed>>

Leave(r) ==
  /\ op[r].at = "previewed"
  /\ Ends(r)
  /\ UNCHANGED <<calendars, sync, today, todo, removed>>

\* The years the plan rests on, and their revisions, are those of the preview.
ExpectedBase(r) == op[r].revs = Revs(Base(op[r].notice, op[r].edit))

\* apply_notice up to _write_plan.  A repeated save finds nothing to change.
ApplyUnchanged(r) ==
  /\ op[r].at = "previewed"
  /\ Changed(records, op[r].notice.source, op[r].notice.days) = {}
  /\ Ends(r)
  /\ UNCHANGED <<calendars, sync, today, todo, removed>>

ApplyConflict(r) ==
  /\ op[r].at = "previewed"
  /\ Changed(records, op[r].notice.source, op[r].notice.days) # {}
  /\ ~ExpectedBase(r)
  /\ Ends(r)
  /\ UNCHANGED <<calendars, sync, today, todo, removed>>

ApplyRead(r) ==
  /\ op[r].at = "previewed"
  /\ Changed(records, op[r].notice.source, op[r].notice.days) # {}
  /\ ExpectedBase(r)
  /\ writes < MaxWrites
  /\ op' = [op EXCEPT ![r] = [at |-> "saving", notice |-> op[r].notice,
       seen |-> Seen(Affected(op[r].notice.source, op[r].notice.days, records))]]
  /\ UNCHANGED <<calendars, sync, today, todo, removed>>

ApplyWrite(r) ==
  /\ op[r].at = "saving"
  /\ WritePlan(op[r].seen, op[r].notice.source, op[r].notice.days)
  /\ removed' = removed \ {op[r].notice.source}
  /\ Ends(r)
  /\ UNCHANGED <<sync, today, todo>>

DeleteRead(r, y) ==
  /\ IsComplete(y)
  /\ writes < MaxWrites
  /\ Begins(r, [at |-> "removing", year |-> y, seen |-> Seen(Affected(y, NoDays, records))])
  /\ UNCHANGED <<calendars, sync, today, todo, removed>>

\* pause_year
Paused(s) == [s EXCEPT !.status = "paused", !.next = "null", !.token = None, !.live = FALSE]

\* The deletion and the pause are one transaction.
DeleteWrite(r) ==
  /\ op[r].at = "removing"
  /\ LET y == op[r].year
     IN /\ WritePlan(op[r].seen, y, NoDays)
        /\ sync' = [sync EXCEPT ![y] = Paused(@)]
        /\ removed' = removed \cup {y}
  /\ Ends(r)
  /\ UNCHANGED <<today, todo>>

\* A row has changed since it was read: roll back and answer 409.
WriteConflict(r) ==
  /\ \/ op[r].at = "saving" /\ ~Unraced(op[r].seen, op[r].notice.source, op[r].notice.days)
     \/ op[r].at = "removing" /\ ~Unraced(op[r].seen, op[r].year, NoDays)
  /\ Ends(r)
  /\ UNCHANGED <<calendars, sync, today, todo, removed>>

-----------------------------------------------------------------------------
(* The job *)

Targets == Years \cap ({today.year} \cup (IF today.november THEN {today.year + 1} ELSE {}))

\* Automatic polling of a year starts in November of the year before.
WindowOpen(y) == y <= today.year + (IF today.november THEN 1 ELSE 0)

\* A round of the scheduler: rows for the targets, then every open year in turn.
Prepare ==
  /\ op[Scheduler] = Idle /\ todo = {}
  /\ sync' = [y \in Years |-> IF y \in Targets /\ sync[y].status = "none"
                              THEN [NoSync EXCEPT !.status = "pending"] ELSE sync[y]]
  /\ todo' = {y \in Years : sync'[y].status \notin {"none", "completed", "paused"}
                              /\ WindowOpen(y)}
  /\ UNCHANGED <<calendars, today, op, removed>>

IsNext(y) == y \in todo /\ \A z \in todo : y <= z

\* Who checks y: the scheduler in its turn, or a request that insists.
Checks(a, y) == IF a = Scheduler THEN IsNext(y) ELSE TRUE

Forced(a) == a # Scheduler

Completed(s) == [s EXCEPT !.status = "completed", !.next = "null", !.token = None, !.live = FALSE]

\* Faulty variant: a running year waits for whoever runs it.
DueUnlessRunning(y) ==
  /\ WindowOpen(y)
  /\ sync[y].status \notin {"completed", "paused", "running"}
  /\ sync[y].next # "ahead"

\* When the scheduler takes a year: an expired lease is taken over at once.
Due(y) ==
  /\ WindowOpen(y)
  /\ sync[y].status \notin {"completed", "paused"}
  /\ sync[y].status # "running" => sync[y].next # "ahead"

Claimable(a, y) == ~sync[y].live /\ (Forced(a) \/ Due(y))

ClaimComplete(a, y) ==
  /\ op[a] = Idle /\ Checks(a, y)
  /\ IsComplete(y)
  /\ sync' = [sync EXCEPT ![y] = Completed(@)]
  /\ todo' = IF Forced(a) THEN todo ELSE todo \ {y}
  /\ UNCHANGED <<calendars, today, op, removed>>

Claim(a, y) ==
  /\ Checks(a, y)
  /\ ~IsComplete(y)
  /\ Claimable(a, y)
  /\ sync' = [sync EXCEPT ![y] =
       [status |-> "running", token |-> a, live |-> TRUE, next |-> "ahead"]]
  /\ Begins(a, [at |-> "fetching", year |-> y])
  /\ todo' = IF Forced(a) THEN todo ELSE todo \ {y}
  /\ removed' = IF Forced(a) THEN removed \ {y} ELSE removed
  /\ UNCHANGED <<calendars, today>>

\* Only the scheduler notices: a refused request just returns the status.
NotClaimed(y) ==
  /\ op[Scheduler] = Idle /\ IsNext(y)
  /\ ~IsComplete(y) /\ ~Claimable(Scheduler, y)
  /\ todo' = todo \ {y}
  /\ UNCHANGED <<calendars, sync, today, op, removed>>

\* Faulty variant: a year whose lease was taken away is saved all the same.
HoldsAnything(a) == op[a].at = "fetching"

HoldsLease(a) == sync[op[a].year].token = a /\ sync[op[a].year].live

Missing(y) == ~IsComplete(y)

\* _finish with content that is a valid notice of the year.
FinishSaves(a, n) ==
  /\ op[a].at = "fetching" /\ HoldsLease(a)
  /\ n.source = op[a].year
  /\ Missing(op[a].year)
  /\ WritePlan(records, n.source, n.days)
  /\ sync' = [sync EXCEPT ![n.source] = Completed(@)]
  /\ Ends(a)
  /\ UNCHANGED <<today, todo, removed>>

\* _finish of a year that an administrator has saved meanwhile.
FinishKeeps(a) ==
  /\ op[a].at = "fetching" /\ HoldsLease(a)
  /\ ~Missing(op[a].year)
  /\ sync' = [sync EXCEPT ![op[a].year] = Completed(@)]
  /\ Ends(a)
  /\ UNCHANGED <<calendars, today, todo, removed>>

\* Nothing usable was fetched.
FinishWithout(a) ==
  /\ op[a].at = "fetching" /\ HoldsLease(a)
  /\ Missing(op[a].year)
  /\ sync' = [sync EXCEPT ![op[a].year] =
       [status |-> "retry", token |-> None, live |-> FALSE, next |-> "ahead"]]
  /\ Ends(a)
  /\ UNCHANGED <<calendars, today, todo, removed>>

\* The lease is gone, or the transaction fails: the row is left as it is.
FinishDropped(a) ==
  /\ op[a].at = "fetching"
  /\ Ends(a)
  /\ UNCHANGED <<calendars, sync, today, todo, removed>>

-----------------------------------------------------------------------------
(* Time and restarts *)

LeaseExpires(y) ==
  /\ sync[y].live
  /\ sync' = [sync EXCEPT ![y].live = FALSE]
  /\ UNCHANGED <<calendars, today, todo, op, removed>>

\* The interval is days, the lease minutes.
AttemptDue(y) ==
  /\ sync[y].next = "ahead" /\ ~sync[y].live
  /\ sync' = [sync EXCEPT ![y].next = "past"]
  /\ UNCHANGED <<calendars, today, todo, op, removed>>

MonthsPass ==
  /\ today' = IF today.november THEN [year |-> today.year + 1, november |-> FALSE]
              ELSE [today EXCEPT !.november = TRUE]
  /\ today'.year \in Years
  /\ UNCHANGED <<calendars, sync, todo, op, removed>>

Restart ==
  /\ op' = [a \in Actors |-> Idle]
  /\ todo' = {}
  /\ UNCHANGED <<calendars, sync, today, removed>>

-----------------------------------------------------------------------------
Administration(r) ==
  \/ \E n \in Notices, edit \in BOOLEAN : Preview(r, n, edit)
  \/ Leave(r) \/ ApplyUnchanged(r) \/ ApplyConflict(r) \/ ApplyRead(r)
  \/ \E y \in Years : DeleteRead(r, y)

Writing(r) == ApplyWrite(r) \/ DeleteWrite(r) \/ WriteConflict(r)

Finish(a) ==
  \/ \E n \in Notices : FinishSaves(a, n)
  \/ FinishKeeps(a) \/ FinishWithout(a) \/ FinishDropped(a)

Check(a, y) == ClaimComplete(a, y) \/ Claim(a, y)

Step ==
  \/ \E r \in Requests : Administration(r) \/ Writing(r)
  \/ Prepare
  \/ \E a \in Actors : Finish(a) \/ \E y \in Years : Check(a, y)
  \/ \E y \in Years : NotClaimed(y) \/ LeaseExpires(y) \/ AttemptDue(y)
  \/ MonthsPass \/ Restart

\* Who is at work on the notice of year s: a request about to save or delete what
\* it has read, or a check on its way to an answer.
IsWriting(a, s) ==
  \/ op[a].at = "saving" /\ op[a].notice.source = s
  \/ op[a].at = "removing" /\ op[a].year = s
WorksOn(a, s) == IsWriting(a, s) \/ (op[a].at = "fetching" /\ op[a].year = s)

Commits(a, s) == WorksOn(a, s) /\ op'[a] # op[a] /\ writes' # writes

\* What the code does not remember: which requests read a notice before another
\* request wrote it, and which notices such a request was the last to write.
Overtakes(q, r) == \E s \in Years : IsWriting(q, s) /\ Commits(q, s) /\ IsWriting(r, s)

Recorded ==
  /\ overtaken' = {r \in Requests :
       op'[r] = op[r] /\ (r \in overtaken \/ \E q \in Requests : Overtakes(q, r))}
  /\ mixed' = {s \in Years : IF \E a \in Actors : Commits(a, s)
                             THEN \E r \in overtaken : Commits(r, s) ELSE s \in mixed}

Next == Step /\ Recorded

Spec == Init /\ [][Next]_vars

\* The loop runs, time passes and requests end; restarts do not hit every round,
\* and a claimed year is answered with a valid notice again and again.
Fairness ==
  /\ WF_system(Prepare)
  /\ \A y \in Years :
       /\ SF_system(Check(Scheduler, y) \/ NotClaimed(y))
       /\ WF_system(LeaseExpires(y)) /\ WF_system(AttemptDue(y))
       /\ SF_system(\E a \in Actors, n \in Notices : n.source = y /\ FinishSaves(a, n))
  /\ \A a \in Actors : WF_system(Finish(a))
  /\ \A r \in Requests : WF_system(Writing(r))

FairSpec == Spec /\ Fairness

-----------------------------------------------------------------------------
(* Properties *)

SystemTypeOK ==
  /\ records \in [Years -> Records]
  /\ \A y \in Years : records[y].rev = 0 <=> IsEmpty(records[y])
  /\ sync \in [Years -> Syncs]
  /\ \A y \in Years : (sync[y].token # None) <=> (sync[y].status = "running")
  /\ today \in [year : Years, november : BOOLEAN]
  /\ todo \subseteq Years /\ removed \subseteq Years
  /\ writes \in Nat
  /\ inForce \in [Years -> Spans]

\* Type invariant; a row exists exactly if it says something.
TypeOK == SystemTypeOK /\ overtaken \subseteq Requests /\ mixed \subseteq Years

\* Saving or deleting one notice never loses what another contributes, also when
\* two writes of one row rest on reads that precede both; and a late answer never
\* replaces an annual arrangement that is there (_write_plan, _finish).
NothingOverwritten ==
  [][\A y, s \in Years : records'[y].parts[s] # records[y].parts[s] =>
       /\ \E a \in Actors : WorksOn(a, s) /\ op'[a] # op[a]
       /\ IsComplete(s) =>
            \E r \in Requests : op[r].at \in {"saving", "removing"} /\ op'[r] # op[r]]_vars

\* The years together hold one notice of a source, the one its last saver was
\* told is stored, or nothing of it (apply_notice, delete_calendar), whatever the
\* job and the savers of other notices did in between.  Only a request that read
\* the notice before another request wrote it can mix the two, because a row it
\* has nothing to change in is not compared; the next request to write the notice
\* on what it reads makes it whole again.
WholeNotice == \A s \in Years \ mixed, y \in Years : records[y].parts[s] = inForce[s][y]

\* A deleted year does not come back by an answer that was on its way or by the
\* scheduler; someone has to ask for it (delete_calendar, pause_year, _finish).
RemovedStaysRemoved == \A y \in removed : ~IsComplete(y)

\* The job takes a year for done only while it has its arrangement, so that no
\* missing year is left out of the rounds.
CompletedIsComplete == \A y \in Years : sync[y].status = "completed" => IsComplete(y)

\* The module's invariant: a year the job takes for done is there, and a year an
\* administrator deleted is not, whatever answers are still on their way.
Inv == TypeOK /\ CompletedIsComplete /\ RemovedStaysRemoved

\* A year in its window that is neither there nor paused is fetched in the end,
\* whichever checks died holding its lease.
Wanted(y) == y \in Targets /\ ~IsComplete(y) /\ sync[y].status \notin {"none", "paused"}

YearArrives == \A y \in Years : Wanted(y) ~> ~Wanted(y)
=============================================================================
