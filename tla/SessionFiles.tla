------------------------------ MODULE SessionFiles ------------------------------
(***************************************************************************)
(* Temporary files of login sessions in the backend's single process.      *)
(*                                                                         *)
(* Uploads to drafts and receipt diagnoses run under a lease on the global *)
(* upload admission and one on their session; logout retires the session's *)
(* namespace and removes its row and files under the same lease; a thread  *)
(* sweeps aged files under leases it never waits for.  A lease is an       *)
(* asyncio lock (the gate) around a threading lock, both with a deadline,  *)
(* kept in an entry of a registry that lives while somebody refers to it.  *)
(*                                                                         *)
(* Requests run on one event loop, so what they do between two awaits is   *)
(* one step here.  Every file has one unit of bytes.                       *)
(***************************************************************************)
EXTENDS Integers, FiniteSets

CONSTANTS
  Sessions,
  Uploads, Diagnoses, Logouts,   \* requests under way, by what they ask for
  Cookies,                       \* the sessions each request may come with
  Sweeper,                       \* the clean-up thread
  Files,                         \* names of files, a set of naturals
  Spool,                         \* the directory of multipart spools
  SessionMaxFiles, Capacity,     \* session_max_files, temp_storage_max_bytes
  None

Requests == Uploads \cup Diagnoses \cup Logouts
Actors == Requests \cup {Sweeper}
Ids == 1..Cardinality(Actors)

ASSUME RequestsAssumption ==
  /\ IsFiniteSet(Requests) /\ Sweeper \notin Requests /\ None \notin Actors \cup Ids
  /\ Uploads \cap Diagnoses = {} /\ (Uploads \cup Diagnoses) \cap Logouts = {}
ASSUME FilesAssumption ==
  Files \subseteq Nat /\ IsFiniteSet(Files) /\ None \notin Sessions \cup {Spool} /\ Spool \notin Sessions
ASSUME CookiesAssumption == Cookies \in [Requests -> SUBSET Sessions]
ASSUME LimitsAssumption == SessionMaxFiles \in Nat /\ Capacity \in Nat

VARIABLES
  row,        \* the session's row: live, logged out, or expired or replaced
  registry,   \* _states: the entry of each session
  states,     \* the _SessionState objects
  gate,       \* _upload_async_gate: who holds it
  guard,      \* _upload_guard: who holds it
  disk,       \* the files below the temporary directory
  op          \* what each request and the sweeper are doing

vars == <<row, registry, states, gate, guard, disk, op>>

NoState == [refs |-> 0, retired |-> FALSE, gate |-> None, lock |-> None]
NoFile == [home |-> None, by |-> None]
Idle == [at |-> "idle", session |-> None, state |-> None, second |-> FALSE, budget |-> 0]

Init ==
  /\ row = [s \in Sessions |-> "live"]
  /\ registry = [s \in Sessions |-> None]
  /\ states = [i \in Ids |-> NoState]
  /\ gate = None /\ guard = None
  /\ disk = [f \in Files |-> NoFile]
  /\ op = [a \in Actors |-> Idle]

-----------------------------------------------------------------------------
(* The registry of session entries *)

FreeId == CHOOSE i \in Ids : states[i].refs = 0
StateOf(s) == IF registry[s] # None THEN registry[s] ELSE FreeId

\* _reserve_state: the entry of s with one more reference to it.
Referenced(s) == [states[StateOf(s)] EXCEPT !.refs = @ + 1]

\* Faulty variant: retirement is not published.
NeverRetires(a) == FALSE

\* A logout publishes retirement when it queues.
Retires(a) == a \in Logouts

Reserve(a, s) ==
  /\ states' = [states EXCEPT ![StateOf(s)] =
       [Referenced(s) EXCEPT !.retired = @ \/ Retires(a)]]
  /\ registry' = [registry EXCEPT ![s] = StateOf(s)]

\* Faulty variant: whoever releases an entry takes it off the registry.
AnyReference(i) == i \in Ids

LastReference(i) == states[i].refs = 1

\* Both locks are freed if held, then the reference is given back.
Unlocked(state, a) ==
  [state EXCEPT !.refs = @ - 1,
                !.gate = IF @ = a THEN None ELSE @,
                !.lock = IF @ = a THEN None ELSE @]

Release(a) ==
  LET i == op[a].state  s == op[a].session
  IN /\ states' = [states EXCEPT ![i] =
            IF @.refs = 1 THEN NoState ELSE Unlocked(@, a)]
     /\ registry' = [registry EXCEPT ![s] = IF LastReference(i) /\ @ = i THEN None ELSE @]

-----------------------------------------------------------------------------
(* The temporary directory *)

On(home) == {f \in Files : disk[f].home = home}
Kept == {f \in Files : disk[f] # NoFile}

\* Faulty variant: spools are not counted.
SessionBytes == Cardinality(Kept \ On(Spool))

RetainedBytes == Cardinality(Kept)

Create(home, a) ==
  /\ Kept # Files
  /\ disk' = [disk EXCEPT ![CHOOSE f \in Files \ Kept : \A g \in Files \ Kept : f <= g] =
       [home |-> home, by |-> a]]

Without(files) == [f \in Files |-> IF f \in files THEN NoFile ELSE disk[f]]
Of(a) == {f \in Files : disk[f].by = a}

\* Spools are closed and the diagnosed file deleted on every way out, and the
\* upload admission is given back.
Ends(a) ==
  /\ op' = [op EXCEPT ![a] = Idle]
  /\ disk' = Without(Of(a))
  /\ gate' = IF gate = a THEN None ELSE gate
  /\ guard' = IF guard = a THEN None ELSE guard

-----------------------------------------------------------------------------
(* Waiting for leases *)

Moves(a, where) == op' = [op EXCEPT ![a].at = where]

\* get_current_session finds the row; the handler runs later.
Authenticate(q, s) ==
  /\ op[q] = Idle
  /\ row[s] = "live"
  /\ op' = [op EXCEPT ![q] = [Idle EXCEPT !.at = "authenticated", !.session = s]]
  /\ UNCHANGED <<row, registry, states, gate, guard, disk>>

TakeUploadGate(q) ==
  /\ op[q].at = "authenticated" /\ q \notin Logouts
  /\ gate = None
  /\ gate' = q
  /\ Moves(q, "guard")
  /\ UNCHANGED <<row, registry, states, guard, disk>>

\* With the admission in hand the request refers to its session at once.
TakeUploadGuard(q) ==
  /\ op[q].at = "guard"
  /\ guard = None
  /\ guard' = q
  /\ Reserve(q, op[q].session)
  /\ op' = [op EXCEPT ![q].at = "gate", ![q].state = StateOf(op[q].session)]
  /\ UNCHANGED <<row, gate, disk>>

\* UploadBusy, or the client went away.
UploadGivenUp(q) ==
  /\ op[q].at \in {"authenticated", "guard"} /\ q \notin Logouts
  /\ Ends(q)
  /\ UNCHANGED <<row, registry, states>>

QueueLogout(q) ==
  /\ op[q].at = "authenticated" /\ q \in Logouts
  /\ Reserve(q, op[q].session)
  /\ op' = [op EXCEPT ![q].at = "gate", ![q].state = StateOf(op[q].session)]
  /\ UNCHANGED <<row, gate, guard, disk>>

TakeGate(q) ==
  /\ op[q].at = "gate"
  /\ states[op[q].state].gate = None
  /\ states' = [states EXCEPT ![op[q].state].gate = q]
  /\ Moves(q, "lock")
  /\ UNCHANGED <<row, registry, gate, guard, disk>>

MayEnter(q) == ~states[op[q].state].retired \/ q \in Logouts

TakeLock(q) ==
  /\ op[q].at = "lock"
  /\ states[op[q].state].lock = None
  /\ MayEnter(q)
  /\ states' = [states EXCEPT ![op[q].state].lock = q]
  /\ Moves(q, "leased")
  /\ UNCHANGED <<row, registry, gate, guard, disk>>

\* SessionFilesRetired
Refused(q) ==
  /\ op[q].at = "lock"
  /\ states[op[q].state].lock = None
  /\ ~MayEnter(q)
  /\ Release(q) /\ Ends(q)
  /\ UNCHANGED row

\* FileOperationBusy, or the client went away.
GivenUp(q) ==
  /\ op[q].at \in {"gate", "lock"}
  /\ Release(q) /\ Ends(q)
  /\ UNCHANGED row

-----------------------------------------------------------------------------
(* Work under a lease *)

\* Faulty variant: the session that was found before the wait is trusted.
OnceActive(q) == q \in Requests

\* require_fresh_active_file_session
FreshActive(q) == row[op[q].session] = "live"

\* new_upload_budget
HasRoom(s) == Cardinality(On(s)) + 1 <= SessionMaxFiles /\ RetainedBytes < Capacity

Admit(q) ==
  /\ op[q].at = "leased" /\ q \notin Logouts /\ ~op[q].second
  /\ FreshActive(q) /\ HasRoom(op[q].session)
  /\ op' = [op EXCEPT ![q].at = "parsing", ![q].budget = RetainedBytes]
  /\ UNCHANGED <<row, registry, states, gate, guard, disk>>

\* Bytes are charged before they are written, to disk or to memory.
Charge(q, where) ==
  /\ op[q].budget < Capacity
  /\ op' = [op EXCEPT ![q].at = where, ![q].budget = @ + 1]

\* parse_upload_files; a small part stays in memory.
Parse(q) ==
  /\ op[q].at = "parsing"
  /\ Charge(q, "parsed")
  /\ Create(Spool, q) \/ UNCHANGED disk
  /\ UNCHANGED <<row, registry, states, gate, guard>>

\* store_upload up to the check of the content in a worker
Store(q) ==
  /\ op[q].at = "parsed" /\ q \in Diagnoses
  /\ Charge(q, "storing")
  /\ Create(op[q].session, q)
  /\ UNCHANGED <<row, registry, states, gate, guard>>

\* The file is stored and both leases end; the request queues for its session
\* again, in the same entry if others refer to it and in a new one otherwise.
Stored(q) ==
  /\ op[q].at = "storing"
  /\ disk' = Without(Of(q) \cap On(Spool))
  /\ gate' = None /\ guard' = None
  /\ states' = [states EXCEPT ![op[q].state] =
       IF LastReference(op[q].state) THEN [NoState EXCEPT !.refs = 1]
       ELSE [@ EXCEPT !.gate = None, !.lock = None]]
  /\ op' = [op EXCEPT ![q].at = "gate", ![q].second = TRUE]
  /\ UNCHANGED <<row, registry>>

Recognize(q) ==
  /\ op[q].at = "leased" /\ op[q].second
  /\ FreshActive(q)
  /\ Moves(q, "recognizing")
  /\ UNCHANGED <<row, registry, states, gate, guard, disk>>

\* The answer, an error or the client's leaving, at any point of the work.
Done(q) ==
  /\ op[q].at \in {"leased", "parsing", "parsed", "storing", "recognizing"}
  /\ q \notin Logouts
  /\ Release(q) /\ Ends(q)
  /\ UNCHANGED row

\* logout; files that cannot be removed are left to the sweep.
Logout(q) ==
  /\ op[q].at = "leased" /\ q \in Logouts
  /\ row' = [row EXCEPT ![op[q].session] = "out"]
  /\ \E removed \in {On(op[q].session), {}} : disk' = Without(removed)
  /\ Release(q)
  /\ op' = [op EXCEPT ![q] = Idle]
  /\ UNCHANGED <<gate, guard>>

-----------------------------------------------------------------------------
(* Rows, time and restarts *)

\* The row expires or the employee logs in again; neither takes a lease.
RowGoes(s) ==
  /\ row[s] = "live"
  /\ row' = [row EXCEPT ![s] = "over"]
  /\ UNCHANGED <<registry, states, gate, guard, disk, op>>

\* A login makes a session nobody has heard of: the name of a forgotten one.
Login(s) ==
  /\ row[s] # "live" /\ registry[s] = None /\ On(s) = {}
  /\ \A a \in Actors : op[a].session # s
  /\ row' = [row EXCEPT ![s] = "live"]
  /\ UNCHANGED <<registry, states, gate, guard, disk, op>>

\* Faulty variant: the sweep goes through sessions instead of directories.
SweptLive == {s \in Sessions : row[s] = "live" /\ On(s) # {}}

Swept == {s \in Sessions : On(s) # {}}

NotBusy(s) == states[StateOf(s)].lock = None

Sweep(s) ==
  /\ op[Sweeper] = Idle /\ s \in Swept
  /\ NotBusy(s)
  /\ states' = [states EXCEPT ![StateOf(s)] = [Referenced(s) EXCEPT !.lock = Sweeper]]
  /\ registry' = [registry EXCEPT ![s] = StateOf(s)]
  /\ op' = [op EXCEPT ![Sweeper] =
       [Idle EXCEPT !.at = "sweeping", !.session = s, !.state = StateOf(s)]]
  /\ UNCHANGED <<row, gate, guard, disk>>

SweepSpool ==
  /\ op[Sweeper] = Idle /\ On(Spool) # {}
  /\ guard = None
  /\ guard' = Sweeper
  /\ op' = [op EXCEPT ![Sweeper] = [Idle EXCEPT !.at = "sweeping", !.session = Spool]]
  /\ UNCHANGED <<row, registry, states, gate, disk>>

\* upload_ttl_minutes is beyond the deadlines of waits and checks, but a client
\* may take its time and a clock may be set.
MayBeAged(home) ==
  {f \in On(home) : disk[f].by # None => op[disk[f].by].at \in {"parsed", "recognizing"}}

SweepEnds(aged) ==
  /\ op[Sweeper] # Idle
  /\ disk' = Without(aged)
  /\ IF op[Sweeper].session = Spool
     THEN guard' = None /\ UNCHANGED <<registry, states>>
     ELSE Release(Sweeper) /\ UNCHANGED guard
  /\ op' = [op EXCEPT ![Sweeper] = Idle]
  /\ UNCHANGED <<row, gate>>

\* The process dies and starts again with a sweep; files lose their requests.
Restart(aged) ==
  /\ registry' = [s \in Sessions |-> None]
  /\ states' = [i \in Ids |-> NoState]
  /\ gate' = None /\ guard' = None
  /\ disk' = [f \in Files |-> IF f \in aged THEN NoFile ELSE [disk[f] EXCEPT !.by = None]]
  /\ op' = [a \in Actors |-> Idle]
  /\ UNCHANGED row

-----------------------------------------------------------------------------
Wait(q) ==
  \/ TakeUploadGate(q) \/ TakeUploadGuard(q) \/ UploadGivenUp(q) \/ QueueLogout(q)
  \/ TakeGate(q) \/ TakeLock(q) \/ Refused(q) \/ GivenUp(q)

Work(q) ==
  \/ Admit(q) \/ Parse(q) \/ Store(q) \/ Stored(q) \/ Recognize(q) \/ Done(q)
  \/ Logout(q)

Next ==
  \/ \E q \in Requests : Wait(q) \/ Work(q) \/ \E s \in Cookies[q] : Authenticate(q, s)
  \/ \E s \in Sessions : RowGoes(s) \/ Login(s) \/ Sweep(s)
  \/ SweepSpool
  \/ \E aged \in SUBSET MayBeAged(op[Sweeper].session) : SweepEnds(aged)
  \/ \E aged \in SUBSET Kept : Restart(aged)

Spec == Init /\ [][Next]_vars

\* Requests end by their deadlines, restarts do not hit every sweep, the sweep
\* finds a session between two of its requests now and then, and files age.
Fairness ==
  /\ \A q \in Requests : WF_vars(Wait(q)) /\ WF_vars(Done(q) \/ Logout(q))
  /\ \A s \in Sessions : SF_vars(Sweep(s))
  /\ SF_vars(SweepSpool)
  /\ \A h \in Sessions \cup {Spool} :
       SF_vars(op[Sweeper].session = h /\ SweepEnds(MayBeAged(h)))

FairSpec == Spec /\ Fairness

-----------------------------------------------------------------------------
(* Properties *)

Entries == [refs : 0..Cardinality(Actors), retired : BOOLEAN,
            gate : Requests \cup {None}, lock : Actors \cup {None}]

Ats == {"idle", "authenticated", "guard", "gate", "lock", "leased", "parsing", "parsed",
        "storing", "recognizing", "sweeping"}

\* Type invariant; an entry is registered exactly while somebody refers to it.
TypeOK ==
  /\ row \in [Sessions -> {"live", "out", "over"}]
  /\ registry \in [Sessions -> Ids \cup {None}]
  /\ states \in [Ids -> Entries]
  /\ \A i \in Ids : states[i].refs > 0 <=> \E s \in Sessions : registry[s] = i
  /\ gate \in Requests \cup {None} /\ guard \in Actors \cup {None}
  /\ disk \in [Files -> [home : Sessions \cup {Spool, None}, by : Requests \cup {None}]]
  /\ op \in [Actors -> [at : Ats, session : Sessions \cup {Spool, None},
                        state : Ids \cup {None}, second : BOOLEAN, budget : 0..Capacity]]

Busy == {"parsing", "parsed", "storing", "recognizing"}
Leased(a, s) == op[a].at \in Busy \cup {"leased", "sweeping"} /\ op[a].session = s

\* Files of a session are in the hands of one request or the sweep at a time,
\* whichever entries of the registry have come and gone (file_coordination.py).
OneAtATime ==
  \A a, b \in Actors, s \in Sessions : Leased(a, s) /\ Leased(b, s) => a = b

\* Nobody gets ahead of a logout that has queued (_reserve_state).
NobodyGetsAhead ==
  [][\A l \in Logouts, q \in Requests \ Logouts :
       op[l].at \in {"gate", "lock"} /\ Leased(q, op[l].session)' => Leased(q, op[l].session)]_vars

\* Once an employee has logged out nothing works on the session's files any
\* more, also not what was let in before and had to wait (logout,
\* require_fresh_active_file_session).
OutMeansOut ==
  \A q \in Requests, s \in Sessions : row[s] = "out" /\ op[q].at \in Busy => op[q].session # s

\* What is on disk, left-overs of a crash included, respects the limits
\* (new_upload_budget, charge_upload_bytes).
WithinLimits ==
  /\ Cardinality(Kept) <= Capacity
  /\ \A s \in Sessions : Cardinality(On(s)) <= SessionMaxFiles

\* With no request under way no entry, lock or admission is left
\* (_release_reference, _release_async_session).
NothingLeaks ==
  (\A a \in Actors : op[a] = Idle) =>
    /\ gate = None /\ guard = None
    /\ \A s \in Sessions : registry[s] = None

\* The module's invariant: whichever waiters gave up between two of the four
\* locks, leases exclude each other and everything that was taken is given back.
Inv == TypeOK /\ OneAtATime /\ NothingLeaks

\* What a crash or a failed removal left on disk goes in the end.
OrphanGoes ==
  \A f \in Files : (f \in Kept /\ disk[f].by = None) ~> (f \notin Kept \/ disk[f].by # None)
=============================================================================
