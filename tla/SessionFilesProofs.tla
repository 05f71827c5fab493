-------------------------- MODULE SessionFilesProofs --------------------------
(***************************************************************************)
(* Theorems about SessionFiles for any sessions, requests, files and       *)
(* limits: leases exclude each other and everything that was taken is      *)
(* given back, nothing works on the files of a session that has logged     *)
(* out, nobody gets ahead of a queued logout, and what is on disk respects *)
(* the limits.                                                             *)
(***************************************************************************)
EXTENDS SessionFiles, FiniteSetTheorems, WellFoundedInduction, TLAPS

-----------------------------------------------------------------------------
(* The inductive invariant *)

\* Whoever refers to entry i.
Refs(i) == {a \in Actors : op[a].state = i}

\* A request that refers to an entry, and one that holds the entry's lock.
Referring == {"gate", "lock", "leased"} \cup Busy
Holding == {"leased"} \cup Busy

\* Where a request has come: an upload is done when its file is, a diagnosis goes on to its
\* second lease, a logout takes one lease and no admission.
RequestFits(q, w) ==
  /\ w.at = "idle" => w = Idle
  /\ w.at # "sweeping"
  /\ w.at # "idle" => w.session \in Sessions
  /\ w.state # None <=> w.at \in Referring
  /\ q \in Logouts => w.at \in {"idle", "authenticated", "gate", "lock", "leased"}
  /\ w.second => w.at \in {"gate", "lock", "leased", "recognizing"} /\ q \notin Logouts
  /\ w.at = "recognizing" => w.second

SweeperFits(w) ==
  /\ w.at \in {"idle", "sweeping"}
  /\ w.at = "idle" => w = Idle
  /\ w.state # None <=> w.at = "sweeping" /\ w.session # Spool
  /\ w.at = "sweeping" => w.session \in Sessions \cup {Spool}

ActorFits(a, w) == IF a = Sweeper THEN SweeperFits(w) ELSE RequestFits(a, w)

WorkInv == op = [a \in Actors |-> op[a]] /\ \A a \in Actors : ActorFits(a, op[a])

\* An entry counts those that refer to it, is registered for their session and no other, and is
\* as new when nobody does.
RefInv ==
  /\ \A a \in Actors : op[a].state # None =>
       op[a].session \in Sessions /\ registry[op[a].session] = op[a].state
  /\ \A s, t \in Sessions : registry[s] # None /\ registry[s] = registry[t] => s = t
  /\ \A i \in Ids : states[i].refs = Cardinality(Refs(i))
  /\ \A i \in Ids : states[i].refs = 0 => states[i] = NoState

\* Whoever works under a lease holds the lock of its entry, and a queued logout has retired it.
LockInv ==
  /\ \A q \in Requests : op[q].at \in Holding => states[op[q].state].lock = q
  /\ op[Sweeper].state # None => states[op[Sweeper].state].lock = Sweeper
  /\ \A q \in Logouts : op[q].at \in {"gate", "lock"} => states[op[q].state].retired

\* Requests that have been let in to upload, and those that also hold the upload guard.
Admitted(q, w) ==
  /\ q \notin Logouts /\ ~w.second
  /\ w.at \in {"guard", "gate", "lock", "leased", "parsing", "parsed", "storing"}
Guarded(q, w) == Admitted(q, w) /\ w.at # "guard"

AdmissionInv ==
  /\ \A q \in Requests : gate = q <=> Admitted(q, op[q])
  /\ \A q \in Requests : guard = q <=> Guarded(q, op[q])
  /\ guard = Sweeper <=> op[Sweeper].session = Spool

\* A request that may still write has been charged for all there is, and has room for its file.
LimitInv ==
  /\ WithinLimits
  /\ \A q \in Requests : op[q].at \in {"parsing", "parsed", "storing"} =>
       Cardinality(Kept) <= op[q].budget
  /\ \A q \in Requests : op[q].at \in {"parsing", "parsed"} =>
       Cardinality(On(op[q].session)) + 1 <= SessionMaxFiles

IInv == TypeOK /\ WorkInv /\ RefInv /\ LockInv /\ AdmissionInv /\ OutMeansOut /\ LimitInv

-----------------------------------------------------------------------------
(* Sets of numbers and of actors *)

LEMMA Least ==
  ASSUME NEW S, S \subseteq Nat, S # {}
  PROVE  \E f \in S : \A g \in S : f <= g
  <1>1. IsWellFoundedOn(OpToRel(<, Nat), Nat)
    BY NatLessThanWellFounded
  <1>2. \E f \in S : \A g \in S : <<g, f>> \notin OpToRel(<, Nat)
    BY <1>1, WFMin
  <1>3. ASSUME NEW f \in Nat, NEW g \in Nat, <<g, f>> \notin OpToRel(<, Nat)
        PROVE  f <= g
    <2>1. <<g, f>> \in Nat \X Nat /\ <<g, f>>[1] = g /\ <<g, f>>[2] = f
      OBVIOUS
    <2> QED
      BY <1>3, <2>1 DEF OpToRel
  <1> QED
    BY <1>2, <1>3

LEMMA ActorsFinite ==
  /\ IsFiniteSet(Actors) /\ Cardinality(Actors) \in Nat \ {0}
  /\ Sweeper \in Actors /\ Sweeper \notin Requests /\ Requests \subseteq Actors
  /\ IsFiniteSet(Ids) /\ Cardinality(Ids) = Cardinality(Actors) /\ None \notin Actors \cup Ids
  <1>1. IsFiniteSet(Requests) /\ Sweeper \notin Requests /\ None \notin Actors \cup Ids
    BY RequestsAssumption
  <1>2. IsFiniteSet(Actors) /\ Cardinality(Actors) \in Nat
    BY <1>1, FS_AddElement, FS_CardinalityType DEF Actors
  <1>3. Sweeper \in Actors /\ Requests \subseteq Actors
    BY DEF Actors
  <1>4. Cardinality(Actors) # 0
    BY <1>2, <1>3, FS_EmptySet
  <1>5. IsFiniteSet(Ids) /\ Cardinality(Ids) = Cardinality(Actors)
    BY <1>2, <1>4, FS_Interval DEF Ids
  <1> QED
    BY <1>1, <1>2, <1>3, <1>4, <1>5

LEMMA RefsFinite == \A i : IsFiniteSet(Refs(i)) /\ Cardinality(Refs(i)) \in Nat
  BY ActorsFinite, FS_Subset, FS_CardinalityType DEF Refs

\* There are as many entries as actors, so that one is free for whoever has none.
LEMMA FreeEntry ==
  ASSUME RefInv, NEW a \in Actors, op[a].state = None
  PROVE  FreeId \in Ids /\ states[FreeId].refs = 0
  <1>1. SUFFICES ASSUME \A i \in Ids : states[i].refs # 0
                 PROVE  FALSE
    BY DEF FreeId
  <1>2. \A i \in Ids : Refs(i) # {}
    BY <1>1, FS_EmptySet DEF RefInv
  <1> DEFINE f == [i \in Ids |-> CHOOSE b \in Actors : op[b].state = i]
  <1>3. \A i \in Ids : f[i] \in Actors \ {a} /\ op[f[i]].state = i
    <2>1. \A i \in Ids : \E b \in Actors : op[b].state = i
      BY <1>2 DEF Refs
    <2>2. \A i \in Ids : f[i] \in Actors /\ op[f[i]].state = i
      BY <2>1
    <2> QED
      BY <2>2, ActorsFinite
  <1>4. f \in Injection(Ids, Actors \ {a})
    BY <1>3 DEF Injection, IsInjective
  <1>5. IsFiniteSet(Actors \ {a}) /\ Cardinality(Actors \ {a}) = Cardinality(Actors) - 1
    BY ActorsFinite, FS_RemoveElement
  <1>6. Cardinality(Ids) <= Cardinality(Actors \ {a})
    BY <1>4, <1>5, FS_Injection
  <1> QED
    BY <1>5, <1>6, ActorsFinite

-----------------------------------------------------------------------------
(* One actor's work *)

Works == [at : Ats, session : Sessions \cup {Spool, None}, state : Ids \cup {None},
          second : BOOLEAN, budget : 0..Capacity]

LEMMA WorkMoves ==
  ASSUME WorkInv, op \in [Actors -> Works],
         NEW a \in Actors, NEW w \in Works, ActorFits(a, w), op' = [op EXCEPT ![a] = w]
  PROVE  /\ WorkInv' /\ op' \in [Actors -> Works]
         /\ \A b \in Actors : op'[b] = IF b = a THEN w ELSE op[b]
  <1>1. op' = [b \in Actors |-> op'[b]] /\ \A b \in Actors : op'[b] = IF b = a THEN w ELSE op[b]
    BY DEF WorkInv
  <1>2. op' \in [Actors -> Works]
    BY <1>1
  <1> QED
    BY <1>1, <1>2 DEF WorkInv

LEMMA IdleFits == Idle \in Works /\ \A a \in Actors : ActorFits(a, Idle)
  BY LimitsAssumption DEF Idle, Works, Ats, ActorFits, RequestFits, SweeperFits, Referring, Busy

LEMMA IdleFields == Idle.at = "idle" /\ Idle.session = None /\ Idle.state = None /\ Idle.second = FALSE
  BY DEF Idle

\* An actor that gets on, with the same session, entry and budget.
LEMMA MovesOn ==
  ASSUME op \in [Actors -> Works], NEW a \in Actors, NEW at \in Ats, Moves(a, at)
  PROVE  \E w \in Works :
           /\ op' = [op EXCEPT ![a] = w] /\ w.at = at
           /\ w.session = op[a].session /\ w.state = op[a].state /\ w.second = op[a].second
           /\ w.budget = op[a].budget
  <1>1. PICK w : w = [op[a] EXCEPT !.at = at]
    OBVIOUS
  <1>2. op' = [op EXCEPT ![a] = w]
    BY <1>1 DEF Moves
  <1>3. w \in Works
    BY <1>1 DEF Works
  <1> QED
    BY <1>1, <1>2, <1>3 DEF Works

-----------------------------------------------------------------------------
(* Entries of the registry *)

EntryTypes ==
  /\ registry \in [Sessions -> Ids \cup {None}] /\ states \in [Ids -> Entries]
  /\ \A i \in Ids : states[i].refs > 0 <=> \E s \in Sessions : registry[s] = i

\* The entry a newcomer of session s gets: the session's, or one that is as new and nobody's.
LEMMA EntryFound ==
  ASSUME EntryTypes, RefInv, NEW a \in Actors, op[a].state = None, NEW s \in Sessions
  PROVE  /\ StateOf(s) \in Ids /\ states[StateOf(s)].refs + 1 \in 0..Cardinality(Actors)
         /\ registry[s] # None => StateOf(s) = registry[s]
         /\ registry[s] = None =>
              /\ states[StateOf(s)] = NoState
              /\ \A t \in Sessions : registry[t] # StateOf(s)
              /\ \A b \in Actors : op[b].state # StateOf(s)
  <1>1. FreeId \in Ids /\ states[FreeId].refs = 0
    BY FreeEntry
  <1>2. StateOf(s) \in Ids /\ (registry[s] # None => StateOf(s) = registry[s])
        /\ (registry[s] = None => StateOf(s) = FreeId)
    BY <1>1 DEF StateOf, EntryTypes
  <1> DEFINE i == StateOf(s)
  <1>3. Cardinality(Refs(i)) + 1 <= Cardinality(Actors)
    <2>1. Refs(i) \subseteq Actors \ {a}
      BY <1>2, ActorsFinite DEF Refs
    <2>2. IsFiniteSet(Actors \ {a}) /\ Cardinality(Actors \ {a}) = Cardinality(Actors) - 1
      BY ActorsFinite, FS_RemoveElement
    <2>3. Cardinality(Refs(i)) <= Cardinality(Actors \ {a})
      BY <2>1, <2>2, FS_Subset
    <2> QED
      BY <2>2, <2>3, ActorsFinite, RefsFinite
  <1>4. states[i].refs = Cardinality(Refs(i)) /\ Cardinality(Refs(i)) \in Nat
    BY <1>2, RefsFinite DEF RefInv
  <1>5. ASSUME registry[s] = None
        PROVE  /\ states[i] = NoState
               /\ \A t \in Sessions : registry[t] # i
               /\ \A b \in Actors : op[b].state # i
    <2>1. states[i].refs = 0
      BY <1>1, <1>2, <1>5
    <2>2. states[i] = NoState /\ \A t \in Sessions : registry[t] # i
      BY <1>2, <2>1 DEF RefInv, EntryTypes
    <2>3. Refs(i) = {}
      BY <1>4, <2>1, RefsFinite, FS_EmptySet
    <2> QED
      BY <2>2, <2>3 DEF Refs
  <1> QED
    BY <1>2, <1>3, <1>4, <1>5, ActorsFinite

\* One more actor refers to the entry of its session.
LEMMA RefersToo ==
  ASSUME EntryTypes, RefInv, NEW a \in Actors, op[a].state = None, NEW s \in Sessions,
         NEW e \in Entries, e.refs = states[StateOf(s)].refs + 1,
         states' = [states EXCEPT ![StateOf(s)] = e], registry' = [registry EXCEPT ![s] = StateOf(s)],
         NEW w, w.state = StateOf(s), w.session = s,
         \A b \in Actors : op'[b] = IF b = a THEN w ELSE op[b]
  PROVE  EntryTypes' /\ RefInv'
  <1>1. PICK i : i = StateOf(s)
    OBVIOUS
  <1>2. /\ i \in Ids /\ i # None
        /\ registry[s] # None => i = registry[s]
        /\ registry[s] = None => \A t \in Sessions : registry[t] # i
        /\ registry[s] = None => \A b \in Actors : op[b].state # i
    BY <1>1, EntryFound, ActorsFinite
  <1>3. /\ registry \in [Sessions -> Ids \cup {None}] /\ states \in [Ids -> Entries]
        /\ \A j \in Ids : states[j].refs \in Nat
    BY DEF EntryTypes, Entries
  <1>4. /\ registry' \in [Sessions -> Ids \cup {None}] /\ states' \in [Ids -> Entries]
        /\ \A t \in Sessions : registry'[t] = IF t = s THEN i ELSE registry[t]
        /\ \A j \in Ids : states'[j] = IF j = i THEN e ELSE states[j]
    BY <1>1, <1>2, <1>3
  <1>5. EntryTypes'
    <2>1. \A j \in Ids : j # i =>
            ((\E t \in Sessions : registry'[t] = j) <=> \E t \in Sessions : registry[t] = j)
      BY <1>2, <1>4, ActorsFinite
    <2>2. e.refs > 0 /\ registry'[s] = i
      BY <1>1, <1>2, <1>3, <1>4
    <2>3. \A j \in Ids : states'[j].refs > 0 <=> \E t \in Sessions : registry'[t] = j
      BY <1>4, <2>1, <2>2 DEF EntryTypes
    <2> QED
      BY <1>4, <2>3 DEF EntryTypes
  <1>6. \A b \in Actors : op'[b].state # None =>
          op'[b].session \in Sessions /\ registry'[op'[b].session] = op'[b].state
    BY <1>1, <1>2, <1>4 DEF RefInv
  <1>7. \A t, u \in Sessions : registry'[t] # None /\ registry'[t] = registry'[u] => t = u
    BY <1>2, <1>4 DEF RefInv
  <1>8. ASSUME NEW j \in Ids
        PROVE  states'[j].refs = Cardinality(Refs(j)')
    <2>1. CASE j = i
      <3>1. Refs(j)' = Refs(i) \cup {a} /\ a \notin Refs(i)
        BY <1>1, <1>2, <2>1, ActorsFinite DEF Refs
      <3>2. Cardinality(Refs(i) \cup {a}) = Cardinality(Refs(i)) + 1
        BY <3>1, RefsFinite, FS_AddElement
      <3> QED
        BY <1>1, <1>2, <1>4, <2>1, <3>1, <3>2 DEF RefInv
    <2>2. CASE j # i
      <3>1. Refs(j)' = Refs(j)
        BY <1>1, <2>2, ActorsFinite DEF Refs
      <3> QED
        BY <1>4, <2>2, <3>1 DEF RefInv
    <2> QED
      BY <2>1, <2>2
  <1>9. \A j \in Ids : states'[j].refs = 0 => states'[j] = NoState
    BY <1>1, <1>2, <1>3, <1>4 DEF RefInv
  <1> QED
    BY <1>5, <1>6, <1>7, <1>8, <1>9 DEF RefInv

\* An actor gives its reference back: the entry is forgotten with the last one.
LEMMA UnlockedForm ==
  ASSUME NEW e \in Entries, e.refs > 0, NEW a \in Actors
  PROVE  /\ Unlocked(e, a) \in Entries /\ Unlocked(e, a).refs = e.refs - 1
         /\ Unlocked(e, a).retired = e.retired
         /\ Unlocked(e, a).lock = IF e.lock = a THEN None ELSE e.lock
  <1>1. PICK d : d = [e EXCEPT !.refs = e.refs - 1]
    OBVIOUS
  <1>2. /\ d \in Entries /\ d.refs = e.refs - 1 /\ d.retired = e.retired
        /\ d.gate = e.gate /\ d.lock = e.lock
    BY <1>1, ActorsFinite DEF Entries
  <1>3. PICK g : g = IF e.gate = a THEN None ELSE e.gate
    OBVIOUS
  <1>4. PICK l : l = IF e.lock = a THEN None ELSE e.lock
    OBVIOUS
  <1>5. g \in Requests \cup {None} /\ l \in Actors \cup {None}
    BY <1>3, <1>4 DEF Entries
  <1>6. Unlocked(e, a) = [[d EXCEPT !.gate = g] EXCEPT !.lock = l]
    BY <1>1, <1>2, <1>3, <1>4 DEF Unlocked
  <1> QED
    BY <1>2, <1>4, <1>5, <1>6 DEF Entries

LEMMA NoStateEntry == NoState \in Entries /\ NoState.refs = 0 /\ NoState.lock = None
  BY ActorsFinite DEF NoState, Entries

\* The others keep their locks and the signs of logouts.
OthersKeep(a) ==
  \A b \in Actors : b # a /\ op[b].state \in Ids =>
    /\ states[op[b].state].retired => states'[op[b].state].retired
    /\ states[op[b].state].lock = b => states'[op[b].state].lock = b

LEMMA GivesBack ==
  ASSUME EntryTypes, RefInv, NEW a \in Actors, op[a].state \in Ids, Release(a),
         \A b \in Actors : op'[b] = IF b = a THEN Idle ELSE op[b]
  PROVE  EntryTypes' /\ RefInv' /\ OthersKeep(a)
  <1>1. PICK i, s : i = op[a].state /\ s = op[a].session
    OBVIOUS
  <1>2. i \in Ids /\ i # None /\ s \in Sessions /\ registry[s] = i /\ states[i].refs > 0
    BY <1>1, ActorsFinite DEF EntryTypes, RefInv
  <1>3. registry \in [Sessions -> Ids \cup {None}] /\ states \in [Ids -> Entries]
        /\ \A j \in Ids : states[j].refs \in Nat
    BY DEF EntryTypes, Entries
  <1>4. PICK e : e = IF states[i].refs = 1 THEN NoState ELSE Unlocked(states[i], a)
    OBVIOUS
  <1>5. /\ e \in Entries /\ e.refs = states[i].refs - 1
        /\ states[i].refs # 1 => e.retired = states[i].retired
        /\ states[i].refs # 1 /\ states[i].lock # a => e.lock = states[i].lock
        /\ states[i].refs = 1 => e = NoState
    BY <1>2, <1>3, <1>4, UnlockedForm, NoStateEntry
  <1>6. states' = [states EXCEPT ![i] = e]
    BY <1>1, <1>2, <1>3, <1>4 DEF Release
  <1>7. registry' = [registry EXCEPT ![s] = IF states[i].refs = 1 THEN None ELSE i]
    BY <1>1, <1>2, <1>3 DEF Release, LastReference
  <1>8. /\ registry' \in [Sessions -> Ids \cup {None}] /\ states' \in [Ids -> Entries]
        /\ \A t \in Sessions : registry'[t] = IF t = s /\ states[i].refs = 1 THEN None ELSE registry[t]
        /\ \A j \in Ids : states'[j] = IF j = i THEN e ELSE states[j]
    BY <1>2, <1>3, <1>5, <1>6, <1>7
  <1>9. \A t \in Sessions : registry[t] = i => t = s
    BY <1>2 DEF RefInv
  <1>10. EntryTypes'
    <2>1. \A j \in Ids : j # i =>
            ((\E t \in Sessions : registry'[t] = j) <=> \E t \in Sessions : registry[t] = j)
      BY <1>2, <1>8, ActorsFinite
    <2>2. e.refs > 0 <=> \E t \in Sessions : registry'[t] = i
      BY <1>2, <1>3, <1>5, <1>8, <1>9
    <2>3. \A j \in Ids : states'[j].refs > 0 <=> \E t \in Sessions : registry'[t] = j
      BY <1>8, <2>1, <2>2 DEF EntryTypes
    <2> QED
      BY <1>8, <2>3 DEF EntryTypes
  <1>11. \A b \in Actors : op'[b] = IF b = a THEN Idle ELSE op[b]
    OBVIOUS
  <1>12. Refs(i)' = Refs(i) \ {a} /\ a \in Refs(i)
    BY <1>1, <1>2, <1>11 DEF Refs, Idle
  <1>13. /\ states[i].refs = Cardinality(Refs(i)) /\ Cardinality(Refs(i)') = states[i].refs - 1
         /\ states[i].refs = 1 => Refs(i)' = {}
    <2>1. PICK old : old = Refs(i)
      OBVIOUS
    <2>2. IsFiniteSet(old) /\ a \in old /\ Refs(i)' = old \ {a} /\ states[i].refs = Cardinality(old)
      BY <1>2, <1>12, <2>1, RefsFinite DEF RefInv
    <2>3. IsFiniteSet(old \ {a}) /\ Cardinality(old \ {a}) = states[i].refs - 1
      BY <2>2, FS_RemoveElement
    <2>4. states[i].refs = 1 => old \ {a} = {}
      BY <2>3, FS_EmptySet
    <2> QED
      BY <2>1, <2>2, <2>3, <2>4
  <1>14. ASSUME NEW j \in Ids
        PROVE  states'[j].refs = Cardinality(Refs(j)')
    <2>1. CASE j = i
      BY <1>5, <1>8, <1>13, <2>1
    <2>2. CASE j # i
      <3>1. Refs(j)' = Refs(j)
        BY <1>1, <1>11, <2>2, ActorsFinite DEF Refs, Idle
      <3> QED
        BY <1>8, <2>2, <3>1 DEF RefInv
    <2> QED
      BY <2>1, <2>2
  <1>15. states[i].refs = 1 => \A b \in Actors : b # a => op[b].state # i
    BY <1>12, <1>13 DEF Refs
  <1>16. \A b \in Actors : op'[b].state # None =>
          op'[b].session \in Sessions /\ registry'[op'[b].session] = op'[b].state
    <2>1. \A b \in Actors : b # a /\ op[b].state # None =>
            op[b].session \in Sessions /\ registry'[op[b].session] = op[b].state
      BY <1>2, <1>8, <1>15 DEF RefInv
    <2> QED
      BY <1>11, <2>1 DEF Idle
  <1>17. \A t, u \in Sessions : registry'[t] # None /\ registry'[t] = registry'[u] => t = u
    BY <1>8 DEF RefInv
  <1>18. \A j \in Ids : states'[j].refs = 0 => states'[j] = NoState
    BY <1>2, <1>3, <1>5, <1>8 DEF RefInv
  <1>19. OthersKeep(a)
    BY <1>5, <1>8, <1>15 DEF OthersKeep
  <1> QED
    BY <1>10, <1>14, <1>16, <1>17, <1>18, <1>19 DEF RefInv

\* The entry of an actor changes in something else than who refers to it.
LEMMA EntryChanges ==
  ASSUME EntryTypes, RefInv, NEW i \in Ids, states[i].refs > 0, NEW e \in Entries, e.refs = states[i].refs,
         states' = [states EXCEPT ![i] = e], UNCHANGED registry,
         \A b \in Actors : op'[b].state = op[b].state /\ op'[b].session = op[b].session
  PROVE  EntryTypes' /\ RefInv'
  <1>1. \A j \in Ids : states'[j] = IF j = i THEN e ELSE states[j]
    BY DEF EntryTypes
  <1>2. EntryTypes'
    BY <1>1 DEF EntryTypes
  <1>3. \A j \in Ids : Refs(j)' = Refs(j)
    BY DEF Refs
  <1> QED
    BY <1>1, <1>2, <1>3 DEF RefInv

LEMMA EntriesStay ==
  ASSUME EntryTypes, RefInv, UNCHANGED <<states, registry>>,
         \A b \in Actors : op'[b].state = op[b].state
                           /\ (op[b].state # None => op'[b].session = op[b].session)
  PROVE  EntryTypes' /\ RefInv'
  <1>1. \A j \in Ids : Refs(j)' = Refs(j)
    BY DEF Refs
  <1> QED
    BY <1>1 DEF EntryTypes, RefInv

-----------------------------------------------------------------------------
(* The directory *)

FileRecords == [home : Sessions \cup {Spool, None}, by : Requests \cup {None}]
Homes == Sessions \cup {Spool}

LEMMA FewerFiles ==
  ASSUME NEW S, NEW T, IsFiniteSet(S), T \subseteq S
  PROVE  Cardinality(T) <= Cardinality(S) /\ Cardinality(T) \in Nat /\ Cardinality(S) \in Nat
  BY FS_Subset, FS_CardinalityType

LEMMA DiskFinite ==
  /\ IsFiniteSet(Kept) /\ Cardinality(Kept) \in Nat
  /\ \A h : IsFiniteSet(On(h)) /\ Cardinality(On(h)) \in Nat
  BY FilesAssumption, FS_Subset, FS_CardinalityType DEF Kept, On

LEMMA NoFileRecord == NoFile \in FileRecords /\ NoFile.home = None /\ NoFile.by = None
  BY DEF NoFile, FileRecords

\* Fewer files than before.
Shrinks == Kept' \subseteq Kept /\ \A h \in Homes : On(h)' \subseteq On(h)

LEMMA Removes ==
  ASSUME disk \in [Files -> FileRecords], NEW X, disk' = Without(X)
  PROVE  disk' \in [Files -> FileRecords] /\ Shrinks
  <1>1. \A f \in Files : disk'[f] = IF f \in X THEN NoFile ELSE disk[f]
    BY DEF Without
  <1>2. disk' \in [Files -> FileRecords]
    BY NoFileRecord DEF Without
  <1>3. None \notin Homes
    BY FilesAssumption DEF Homes
  <1> QED
    BY <1>1, <1>2, <1>3, NoFileRecord DEF Shrinks, Kept, On

LEMMA Creates ==
  ASSUME disk \in [Files -> FileRecords], NEW home \in Homes, NEW a \in Requests, Create(home, a)
  PROVE  /\ disk' \in [Files -> FileRecords]
         /\ Cardinality(Kept') = Cardinality(Kept) + 1
         /\ Cardinality(On(home)') = Cardinality(On(home)) + 1
         /\ \A h \in Homes : h # home => On(h)' = On(h)
  <1> DEFINE free == Files \ Kept
  <1>1. free # {} /\ free \subseteq Nat
    BY FilesAssumption DEF Create, Kept
  <1>2. \E f \in free : \A g \in free : f <= g
    BY <1>1, Least
  <1>3. PICK new : new = [home |-> home, by |-> a]
    OBVIOUS
  <1>4. PICK f \in free : disk' = [disk EXCEPT ![f] = new]
    BY <1>2, <1>3 DEF Create
  <1>5. new \in FileRecords /\ new.home = home /\ home # None
    BY <1>3, FilesAssumption DEF FileRecords, Homes
  <1>6. disk[f] = NoFile /\ f \in Files /\ new # NoFile
    BY <1>4, <1>5, NoFileRecord DEF Kept
  <1>7. disk' \in [Files -> FileRecords] /\ \A g \in Files : disk'[g] = IF g = f THEN new ELSE disk[g]
    BY <1>4, <1>5, <1>6
  <1>8. Kept' = Kept \cup {f} /\ f \notin Kept
    BY <1>6, <1>7 DEF Kept
  <1>9. On(home)' = On(home) \cup {f} /\ f \notin On(home)
    BY <1>5, <1>6, <1>7, NoFileRecord DEF On
  <1>10. \A h \in Homes : h # home => On(h)' = On(h)
    BY <1>5, <1>6, <1>7, NoFileRecord, FilesAssumption DEF On, Homes
  <1>11. Cardinality(Kept \cup {f}) = Cardinality(Kept) + 1
    BY <1>8, DiskFinite, FS_AddElement
  <1>12. Cardinality(On(home) \cup {f}) = Cardinality(On(home)) + 1
    BY <1>9, DiskFinite, FS_AddElement
  <1> QED
    BY <1>7, <1>8, <1>9, <1>10, <1>11, <1>12

Writing == {"parsing", "parsed", "storing"}

\* No request begins to write and no file is added.
LEMMA LimitsStay ==
  ASSUME LimitInv, op \in [Actors -> Works], disk \in [Files -> FileRecords], Shrinks,
         \A q \in Requests : \/ op'[q].at \notin Writing
                             \/ /\ op'[q].at = op[q].at /\ op'[q].session = op[q].session
                                /\ op'[q].budget = op[q].budget
                                /\ op[q].session \in Sessions
  PROVE  LimitInv'
  <1>1. \A q \in Requests : q \in Actors
    BY DEF Actors
  <1>2. Cardinality(Kept') <= Cardinality(Kept) /\ Cardinality(Kept') \in Nat /\ Cardinality(Kept) \in Nat
    BY DiskFinite, FewerFiles DEF Shrinks
  <1>3. \A s \in Sessions : /\ Cardinality(On(s)') <= Cardinality(On(s))
                            /\ Cardinality(On(s)') \in Nat /\ Cardinality(On(s)) \in Nat
    BY DiskFinite, FewerFiles DEF Shrinks, Homes
  <1>4. Capacity \in Nat /\ SessionMaxFiles \in Nat
    BY LimitsAssumption
  <1>5. WithinLimits'
    BY <1>2, <1>3, <1>4 DEF LimitInv, WithinLimits
  <1>6. ASSUME NEW q \in Requests, op'[q].at \in Writing
        PROVE  Cardinality(Kept') <= op'[q].budget
    <2>1. op[q].at \in Writing /\ op'[q].budget = op[q].budget /\ op[q].budget \in Nat
      BY <1>1, <1>6, LimitsAssumption DEF Works
    <2> QED
      BY <1>2, <2>1 DEF LimitInv, Writing
  <1>7. ASSUME NEW q \in Requests, op'[q].at \in {"parsing", "parsed"}
        PROVE  Cardinality(On(op[q].session)') + 1 <= SessionMaxFiles
    <2>1. PICK s \in Sessions : s = op[q].session
      BY <1>7 DEF Writing
    <2>2. op[q].at \in {"parsing", "parsed"} /\ op'[q].session = s
      BY <1>7, <2>1 DEF Writing
    <2>3. Cardinality(On(s)) + 1 <= SessionMaxFiles
      BY <2>1, <2>2 DEF LimitInv
    <2>4. Cardinality(On(s)') + 1 <= SessionMaxFiles
      BY <1>3, <1>4, <2>3
    <2>5. On(op[q].session)' = On(s)'
      BY <2>2 DEF On
    <2> QED
      BY <2>4, <2>5
  <1> QED
    BY <1>5, <1>6, <1>7 DEF LimitInv, Writing

-----------------------------------------------------------------------------
(* One actor's step *)

\* The others keep what they have, and the actor has what its work needs.
LocksFit(a, w) ==
  /\ OthersKeep(a)
  /\ (a \in Requests /\ w.at \in Holding) \/ (a = Sweeper /\ w.state # None) =>
       states'[w.state].lock = a
  /\ a \in Logouts /\ w.at \in {"gate", "lock"} => states'[w.state].retired

AdmissionFits(a, w) ==
  /\ \A q \in Requests : q # a => (gate' = q <=> gate = q) /\ (guard' = q <=> guard = q)
  /\ a \in Requests =>
       /\ gate' = a <=> Admitted(a, w)
       /\ guard' = a <=> Guarded(a, w)
       /\ guard' = Sweeper <=> guard = Sweeper
  /\ a = Sweeper => (guard' = Sweeper <=> w.session = Spool)

OutFits(a, w) ==
  /\ \A q \in Requests : q # a /\ op[q].at \in Busy => row'[op[q].session] # "out"
  /\ w.at \in Busy => row'[w.session] # "out"

LEMMA LocksMove ==
  ASSUME WorkInv, op \in [Actors -> Works], LockInv, NEW a \in Actors, NEW w \in Works, LocksFit(a, w),
         \A b \in Actors : op'[b] = IF b = a THEN w ELSE op[b]
  PROVE  LockInv'
  <1>1. Requests \subseteq Actors /\ Logouts \subseteq Requests /\ Sweeper \in Actors /\ Sweeper \notin Requests
    BY ActorsFinite DEF Requests
  <1>2. \A q \in Requests : op[q].at \in Holding \cup {"gate", "lock"} => op[q].state \in Ids
    BY <1>1 DEF WorkInv, ActorFits, RequestFits, Works, Referring, Holding
  <1>3. op[Sweeper].state # None => op[Sweeper].state \in Ids
    BY <1>1 DEF Works
  <1>4. ASSUME NEW q \in Requests, op'[q].at \in Holding
        PROVE  states'[op'[q].state].lock = q
    BY <1>1, <1>2, <1>4 DEF LocksFit, OthersKeep, LockInv
  <1>5. ASSUME op'[Sweeper].state # None
        PROVE  states'[op'[Sweeper].state].lock = Sweeper
    BY <1>1, <1>3, <1>5 DEF LocksFit, OthersKeep, LockInv
  <1>6. ASSUME NEW q \in Logouts, op'[q].at \in {"gate", "lock"}
        PROVE  states'[op'[q].state].retired
    BY <1>1, <1>2, <1>6 DEF LocksFit, OthersKeep, LockInv
  <1> QED
    BY <1>4, <1>5, <1>6 DEF LockInv

LEMMA AdmissionMoves ==
  ASSUME AdmissionInv, NEW a \in Actors, NEW w, AdmissionFits(a, w),
         \A b \in Actors : op'[b] = IF b = a THEN w ELSE op[b]
  PROVE  AdmissionInv'
  <1>1. Requests \subseteq Actors /\ Sweeper \in Actors /\ Sweeper \notin Requests /\ Actors = Requests \cup {Sweeper}
    BY ActorsFinite DEF Actors
  <1>2. ASSUME NEW q \in Requests
        PROVE  (gate' = q <=> Admitted(q, op'[q])) /\ (guard' = q <=> Guarded(q, op'[q]))
    BY <1>1 DEF AdmissionFits, AdmissionInv
  <1>3. guard' = Sweeper <=> op'[Sweeper].session = Spool
    BY <1>1 DEF AdmissionFits, AdmissionInv
  <1> QED
    BY <1>2, <1>3 DEF AdmissionInv

LEMMA OutMoves ==
  ASSUME NEW a \in Actors, NEW w, OutFits(a, w),
         \A b \in Actors : op'[b] = IF b = a THEN w ELSE op[b]
  PROVE  OutMeansOut'
  <1>1. Requests \subseteq Actors
    BY ActorsFinite
  <1> QED
    BY <1>1 DEF OutFits, OutMeansOut

\* Whoever moves, the invariant holds again if what it touched fits.
LEMMA Step ==
  ASSUME IInv, NEW a \in Actors, NEW w \in Works, ActorFits(a, w), op' = [op EXCEPT ![a] = w],
         row' \in [Sessions -> {"live", "out", "over"}], EntryTypes' /\ RefInv',
         gate' \in Requests \cup {None} /\ guard' \in Actors \cup {None},
         disk' \in [Files -> FileRecords] /\ LimitInv',
         LocksFit(a, w), AdmissionFits(a, w), OutFits(a, w)
  PROVE  IInv'
  <1>1. WorkInv /\ op \in [Actors -> Works] /\ LockInv /\ AdmissionInv
    BY DEF IInv, TypeOK, Works
  <1>2. WorkInv' /\ op' \in [Actors -> Works] /\ \A b \in Actors : op'[b] = IF b = a THEN w ELSE op[b]
    BY <1>1, WorkMoves
  <1>3. LockInv' /\ AdmissionInv' /\ OutMeansOut'
    BY <1>1, <1>2, LocksMove, AdmissionMoves, OutMoves
  <1>4. TypeOK'
    BY <1>2 DEF TypeOK, EntryTypes, Works, FileRecords
  <1> QED
    BY <1>2, <1>3, <1>4 DEF IInv

LEMMA Parts ==
  ASSUME IInv
  PROVE  /\ row \in [Sessions -> {"live", "out", "over"}] /\ EntryTypes /\ RefInv
         /\ gate \in Requests \cup {None} /\ guard \in Actors \cup {None}
         /\ disk \in [Files -> FileRecords] /\ op \in [Actors -> Works]
         /\ WorkInv /\ LockInv /\ AdmissionInv /\ OutMeansOut /\ LimitInv
  BY DEF IInv, TypeOK, EntryTypes, Works, FileRecords

-----------------------------------------------------------------------------
(* Waiting *)

\* What is known of one request.
LEMMA OfRequest ==
  ASSUME IInv, NEW q \in Requests
  PROVE  /\ op[q] \in Works /\ RequestFits(q, op[q]) /\ q \in Actors /\ q # Sweeper /\ q # None
         /\ op[q].state \in Ids <=> op[q].at \in Referring
         /\ op[q].at \in Referring => states[op[q].state] \in Entries /\ states[op[q].state].refs > 0
         /\ op[q].at \in Holding => states[op[q].state].lock = q
         /\ gate = q <=> Admitted(q, op[q])
         /\ guard = q <=> Guarded(q, op[q])
  <1>1. q \in Actors /\ q # Sweeper /\ q # None /\ None \notin Ids
    BY ActorsFinite
  <1>2. op[q] \in Works /\ RequestFits(q, op[q])
    BY <1>1, Parts DEF WorkInv, ActorFits
  <1>3. op[q].state \in Ids <=> op[q].at \in Referring
    BY <1>1, <1>2 DEF RequestFits, Works
  <1>4. op[q].at \in Referring => states[op[q].state] \in Entries /\ states[op[q].state].refs > 0
    BY <1>1, <1>3, Parts DEF EntryTypes, RefInv
  <1> QED
    BY <1>1, <1>2, <1>3, <1>4, Parts DEF LockInv, AdmissionInv

\* A request moves with nothing but the admission changing.
LEMMA Walks ==
  ASSUME IInv, NEW q \in Requests, NEW w \in Works, RequestFits(q, w), op' = [op EXCEPT ![q] = w],
         UNCHANGED <<row, registry, states, guard, disk>>, gate' \in Requests \cup {None},
         w.state = op[q].state, w.state # None => w.session = op[q].session,
         w.at \in Holding => states[w.state].lock = q,
         q \in Logouts => w.at \notin {"gate", "lock"},
         \A p \in Requests : p # q => (gate' = p <=> gate = p),
         gate' = q <=> Admitted(q, w), guard = q <=> Guarded(q, w),
         w.at \in Busy => row[w.session] # "out",
         w.at \in Writing => Cardinality(Kept) <= w.budget,
         w.at \in {"parsing", "parsed"} => Cardinality(On(w.session)) + 1 <= SessionMaxFiles
  PROVE  IInv'
  <1>1. q \in Actors /\ q # Sweeper
    BY ActorsFinite
  <1>2. \A b \in Actors : op'[b] = IF b = q THEN w ELSE op[b]
    BY <1>1, Parts, WorkMoves DEF ActorFits
  <1>3. EntryTypes' /\ RefInv'
    BY <1>2, Parts, EntriesStay
  <1>4. LimitInv'
    <2>1. Kept' = Kept /\ \A h : On(h)' = On(h)
      BY DEF Kept, On
    <2>2. \A p \in Requests : op'[p].at \in Writing => Cardinality(Kept') <= op'[p].budget
      BY <1>2, <2>1, Parts, ActorsFinite DEF LimitInv, Writing
    <2>3. ASSUME NEW p \in Requests, op'[p].at \in {"parsing", "parsed"}
          PROVE  Cardinality(On(op[p].session)') + 1 <= SessionMaxFiles
      <3>1. Cardinality(On(op'[p].session)) + 1 <= SessionMaxFiles
        BY <1>2, <2>3, Parts, ActorsFinite DEF LimitInv
      <3>2. On(op[p].session)' = On(op'[p].session)
        BY DEF On
      <3> QED
        BY <3>1, <3>2
    <2>4. WithinLimits'
      BY <2>1, Parts DEF LimitInv, WithinLimits
    <2> QED
      BY <2>2, <2>3, <2>4 DEF LimitInv, Writing
  <1>5. LocksFit(q, w)
    BY <1>1 DEF LocksFit, OthersKeep
  <1>6. AdmissionFits(q, w)
    BY <1>1 DEF AdmissionFits
  <1>7. OutFits(q, w)
    <2>1. \A p \in Requests : op[p].at \in Busy => op[p].session \in Sessions
      BY OfRequest DEF RequestFits, Busy
    <2> QED
      BY <2>1, Parts DEF OutFits, OutMeansOut
  <1> QED
    BY <1>1, <1>3, <1>4, <1>5, <1>6, <1>7, Parts, Step DEF ActorFits

LEMMA InSession ==
  ASSUME IInv
  PROVE  \A p \in Requests : p \in Actors /\ (op[p].at # "idle" => op[p].session \in Sessions)
  BY OfRequest DEF RequestFits

\* An actor that does no work touches neither limits nor sessions that are out.
LEMMA Idles ==
  ASSUME IInv, NEW a \in Actors, NEW w, w.at \notin Busy, UNCHANGED row, Shrinks,
         \A b \in Actors : op'[b] = IF b = a THEN w ELSE op[b]
  PROVE  LimitInv' /\ OutFits(a, w)
  <1>1. \A p \in Requests : p \in Actors /\ (op[p].at \in Busy => op[p].session \in Sessions)
    BY InSession DEF Busy
  <1>2. OutFits(a, w)
    BY <1>1, Parts DEF OutFits, OutMeansOut
  <1>3. Writing \subseteq Busy
    BY DEF Writing, Busy
  <1>4. \A p \in Requests : op'[p].at \notin Writing \/ (op'[p] = op[p] /\ op[p].session \in Sessions)
    BY <1>1, <1>3
  <1>5. LimitInv'
    BY <1>4, Parts, LimitsStay
  <1> QED
    BY <1>2, <1>5

LEMMA AuthenticateKeeps ==
  ASSUME IInv, NEW q \in Requests, NEW s \in Cookies[q], Authenticate(q, s)
  PROVE  IInv'
  <1>1. s \in Sessions
    BY CookiesAssumption
  <1>2. PICK w : w = [Idle EXCEPT !.at = "authenticated", !.session = s]
    OBVIOUS
  <1>3. op' = [op EXCEPT ![q] = w] /\ op[q] = Idle
    BY <1>2 DEF Authenticate
  <1>4. /\ w \in Works /\ w.at = "authenticated" /\ w.session = s /\ w.state = None /\ w.second = FALSE
    BY <1>1, <1>2, IdleFits, IdleFields DEF Works, Ats
  <1>5. RequestFits(q, w) /\ ~Admitted(q, w) /\ ~Guarded(q, w)
    BY <1>1, <1>4 DEF RequestFits, Admitted, Guarded, Referring, Busy
  <1>6. gate # q /\ guard # q
    BY <1>3, OfRequest DEF Idle, Admitted, Guarded
  <1>7. w.at \notin Holding \cup Writing \cup Busy
    BY <1>4 DEF Holding, Writing, Busy
  <1>8. UNCHANGED <<row, registry, states, gate, guard, disk>> /\ op[q].state = None
    BY <1>3 DEF Authenticate, Idle
  <1> QED
    BY <1>3, <1>4, <1>5, <1>6, <1>7, <1>8, Parts, Walks

LEMMA TakeUploadGateKeeps ==
  ASSUME IInv, NEW q \in Requests, TakeUploadGate(q)
  PROVE  IInv'
  <1>1. op[q].at = "authenticated" /\ q \notin Logouts /\ gate = None /\ gate' = q
    BY DEF TakeUploadGate
  <1>2. PICK w \in Works : /\ op' = [op EXCEPT ![q] = w] /\ w.at = "guard" /\ w.session = op[q].session
                           /\ w.state = op[q].state /\ w.second = op[q].second
    BY OfRequest, Parts, MovesOn DEF TakeUploadGate, Ats
  <1>3. RequestFits(q, op[q]) /\ ~Guarded(q, op[q]) /\ ~op[q].second
    BY <1>1, OfRequest DEF RequestFits, Guarded, Admitted
  <1>4. RequestFits(q, w) /\ Admitted(q, w) /\ ~Guarded(q, w)
    BY <1>1, <1>2, <1>3 DEF RequestFits, Admitted, Guarded, Referring, Busy
  <1>5. guard # q /\ q # None /\ \A p \in Requests : p # None
    BY <1>3, OfRequest
  <1>6. w.at \notin Holding \cup Writing \cup Busy
    BY <1>2 DEF Holding, Writing, Busy
  <1>7. UNCHANGED <<row, registry, states, guard, disk>>
    BY DEF TakeUploadGate
  <1> QED
    BY <1>1, <1>2, <1>4, <1>5, <1>6, <1>7, Walks

\* What a reservation does to the entries.
LEMMA Reserved ==
  ASSUME IInv, NEW a \in Actors, op[a].state = None, NEW s \in Sessions,
         NEW e \in Entries, e.refs = states[StateOf(s)].refs + 1,
         states[StateOf(s)].retired => e.retired, e.lock \in {states[StateOf(s)].lock, a},
         states[StateOf(s)].lock # None => e.lock = states[StateOf(s)].lock,
         states' = [states EXCEPT ![StateOf(s)] = e], registry' = [registry EXCEPT ![s] = StateOf(s)],
         op'[a].state = StateOf(s), op'[a].session = s, \A b \in Actors : b # a => op'[b] = op[b]
  PROVE  /\ EntryTypes' /\ RefInv' /\ states'[StateOf(s)] = e
         /\ OthersKeep(a)
  <1>1. EntryTypes /\ RefInv
    BY Parts
  <1>2. EntryTypes' /\ RefInv'
    <2>1. PICK w : w = op'[a]
      OBVIOUS
    <2>2. w.state = StateOf(s) /\ w.session = s /\ \A b \in Actors : op'[b] = IF b = a THEN w ELSE op[b]
      BY <2>1
    <2> QED
      BY <1>1, <2>2, RefersToo
  <1>3. StateOf(s) \in Ids
    BY <1>1, EntryFound
  <1>4. \A i \in Ids : states'[i] = IF i = StateOf(s) THEN e ELSE states[i]
    BY <1>1, <1>3 DEF EntryTypes
  <1>5. \A b \in Actors : b # None
    BY ActorsFinite
  <1>6. OthersKeep(a)
    BY <1>4, <1>5 DEF OthersKeep
  <1> QED
    BY <1>2, <1>3, <1>4, <1>6

LEMMA ReserveForm ==
  ASSUME IInv, NEW a \in Actors, op[a].state = None, NEW s \in Sessions, Reserve(a, s)
  PROVE  /\ registry' = [registry EXCEPT ![s] = StateOf(s)] /\ StateOf(s) \in Ids
         /\ \E e \in Entries :
              /\ states' = [states EXCEPT ![StateOf(s)] = e]
              /\ e.refs = states[StateOf(s)].refs + 1 /\ e.lock = states[StateOf(s)].lock
              /\ e.retired <=> (states[StateOf(s)].retired \/ Retires(a))
  <1>1. PICK i : i = StateOf(s)
    OBVIOUS
  <1>2. i \in Ids /\ states[i] \in Entries /\ states[i].refs + 1 \in 0..Cardinality(Actors)
    BY <1>1, Parts, EntryFound DEF EntryTypes
  <1>3. PICK d : d = [states[i] EXCEPT !.refs = states[i].refs + 1]
    OBVIOUS
  <1>4. d \in Entries /\ d.refs = states[i].refs + 1 /\ d.lock = states[i].lock /\ d.retired = states[i].retired
    BY <1>2, <1>3 DEF Entries
  <1>5. Referenced(s) = d
    BY <1>1, <1>3 DEF Referenced
  <1>6. PICK retired \in BOOLEAN : retired <=> (d.retired \/ Retires(a))
    BY Zenon
  <1>7. [d EXCEPT !.retired = d.retired \/ Retires(a)] = [d EXCEPT !.retired = retired]
    <2>1. retired = (d.retired \/ Retires(a))
      BY <1>6 DEF Retires
    <2> QED
      BY <2>1
  <1>8. PICK e : e = [d EXCEPT !.retired = retired]
    OBVIOUS
  <1>9. e \in Entries /\ e.refs = d.refs /\ e.lock = d.lock /\ e.retired = retired
    BY <1>4, <1>8 DEF Entries
  <1>10. states' = [states EXCEPT ![i] = e]
    BY <1>1, <1>5, <1>7, <1>8 DEF Reserve
  <1>11. registry' = [registry EXCEPT ![s] = StateOf(s)]
    BY DEF Reserve
  <1> QED
    BY <1>1, <1>2, <1>4, <1>6, <1>9, <1>10, <1>11

\* An upload or a logout that has got its entry queues for the entry's gate.
LEMMA Queues ==
  ASSUME IInv, NEW q \in Requests, op[q].at \in {"authenticated", "guard"}, ~op[q].second,
         Reserve(q, op[q].session),
         op' = [op EXCEPT ![q].at = "gate", ![q].state = StateOf(op[q].session)],
         UNCHANGED <<row, gate, disk>>, guard' \in Actors \cup {None},
         \A p \in Requests : p # q => (guard' = p <=> guard = p),
         guard' = Sweeper <=> guard = Sweeper,
         IF q \in Logouts THEN guard' = guard /\ op[q].at = "authenticated"
         ELSE guard' = q /\ op[q].at = "guard"
  PROVE  IInv'
  <1>1. PICK s : s = op[q].session
    OBVIOUS
  <1>2. s \in Sessions /\ op[q].state = None /\ q \in Actors /\ q # Sweeper /\ op[q] \in Works
    BY <1>1, OfRequest DEF RequestFits, Referring, Busy
  <1>3. PICK e \in Entries :
          /\ states' = [states EXCEPT ![StateOf(s)] = e]
          /\ e.refs = states[StateOf(s)].refs + 1 /\ e.lock = states[StateOf(s)].lock
          /\ e.retired <=> (states[StateOf(s)].retired \/ Retires(q))
    BY <1>1, <1>2, ReserveForm
  <1>4. registry' = [registry EXCEPT ![s] = StateOf(s)] /\ StateOf(s) \in Ids
    BY <1>1, <1>2, ReserveForm
  <1>5. PICK w : w = [[op[q] EXCEPT !.at = "gate"] EXCEPT !.state = StateOf(s)]
    OBVIOUS
  <1>6. /\ w \in Works /\ w.at = "gate" /\ w.state = StateOf(s) /\ w.session = s
        /\ w.second = op[q].second
    BY <1>1, <1>2, <1>4, <1>5 DEF Works, Ats
  <1>7. op' = [op EXCEPT ![q] = w]
    BY <1>1, <1>2, <1>5, Parts
  <1>8. RequestFits(q, w)
    BY <1>2, <1>4, <1>6, OfRequest, ActorsFinite DEF RequestFits, Referring, Busy
  <1>9. \A b \in Actors : op'[b] = IF b = q THEN w ELSE op[b]
    BY <1>2, <1>6, <1>7, <1>8, Parts, WorkMoves DEF ActorFits
  <1>10. EntryTypes' /\ RefInv' /\ states'[w.state] = e /\ OthersKeep(q)
    <2>1. /\ states[StateOf(s)].retired => e.retired
          /\ e.lock \in {states[StateOf(s)].lock, q}
          /\ states[StateOf(s)].lock # None => e.lock = states[StateOf(s)].lock
      BY <1>3
    <2>2. /\ e.refs = states[StateOf(s)].refs + 1 /\ w.state = StateOf(s) /\ w.session = s
          /\ states' = [states EXCEPT ![StateOf(s)] = e]
          /\ registry' = [registry EXCEPT ![s] = StateOf(s)]
      BY <1>3, <1>4, <1>6
    <2>3. /\ s \in Sessions /\ op[q].state = None /\ q \in Actors
          /\ op'[q].state = StateOf(s) /\ op'[q].session = s
          /\ \A b \in Actors : b # q => op'[b] = op[b]
      BY <1>2, <1>6, <1>9
    <2>4. EntryTypes' /\ RefInv'
      BY <2>1, <2>2, <2>3, Reserved
    <2>5. states'[StateOf(s)] = e
      BY <2>1, <2>2, <2>3, Reserved
    <2>6. OthersKeep(q)
      BY <2>1, <2>2, <2>3, Reserved
    <2> QED
      BY <2>2, <2>4, <2>5, <2>6
  <1>11. LocksFit(q, w)
    BY <1>2, <1>3, <1>6, <1>10 DEF LocksFit, Holding, Busy, Retires
  <1>12. gate = q <=> Admitted(q, w)
    BY <1>6, OfRequest DEF Admitted
  <1>13. guard' = q <=> Guarded(q, w)
    BY <1>6, OfRequest DEF Admitted, Guarded
  <1>14. AdmissionFits(q, w)
    BY <1>2, <1>12, <1>13 DEF AdmissionFits
  <1>15. LimitInv' /\ OutFits(q, w)
    <2>1. Shrinks /\ w.at \notin Busy
      BY <1>6 DEF Shrinks, Kept, On, Busy
    <2> QED
      BY <1>2, <1>9, <2>1, Idles
  <1> QED
    BY <1>2, <1>6, <1>7, <1>8, <1>10, <1>11, <1>14, <1>15, Parts, Step DEF ActorFits

LEMMA QueueingKeeps ==
  ASSUME IInv, NEW q \in Requests, TakeUploadGuard(q) \/ QueueLogout(q)
  PROVE  IInv'
  <1>1. q \in Actors /\ q # Sweeper /\ q # None /\ Requests \subseteq Actors /\ Sweeper # None
    BY ActorsFinite
  <1>2. ~op[q].second
    BY OfRequest DEF RequestFits, TakeUploadGuard, QueueLogout
  <1>3. CASE TakeUploadGuard(q)
    <2>1. q \notin Logouts /\ op[q].at = "guard"
      BY <1>3, OfRequest DEF TakeUploadGuard, RequestFits
    <2>2. /\ Reserve(q, op[q].session) /\ UNCHANGED <<row, gate, disk>> /\ guard = None /\ guard' = q
          /\ op' = [op EXCEPT ![q].at = "gate", ![q].state = StateOf(op[q].session)]
      BY <1>3 DEF TakeUploadGuard
    <2>3. \A p \in Requests : p # None
      BY ActorsFinite
    <2> QED
      BY <1>1, <1>2, <2>1, <2>2, <2>3, Queues
  <1>4. CASE QueueLogout(q)
    <2>1. /\ Reserve(q, op[q].session) /\ UNCHANGED <<row, gate, guard, disk>>
          /\ q \in Logouts /\ op[q].at = "authenticated"
          /\ op' = [op EXCEPT ![q].at = "gate", ![q].state = StateOf(op[q].session)]
      BY <1>4 DEF QueueLogout
    <2> QED
      BY <1>2, <2>1, Parts, Queues
  <1> QED
    BY <1>3, <1>4

\* Another lock of one's own entry is taken.
LEMMA Takes ==
  ASSUME IInv, NEW q \in Requests, op[q].at \in {"gate", "lock"}, NEW at \in {"lock", "leased"}, Moves(q, at),
         NEW e \in Entries, e.refs = states[op[q].state].refs, e.retired = states[op[q].state].retired,
         \/ e.lock = states[op[q].state].lock /\ at = "lock"
         \/ e.lock = q /\ states[op[q].state].lock = None,
         states' = [states EXCEPT ![op[q].state] = e], UNCHANGED <<row, registry, gate, guard, disk>>
  PROVE  IInv'
  <1>1. PICK i : i = op[q].state
    OBVIOUS
  <1>2. /\ i \in Ids /\ states[i] \in Entries /\ states[i].refs > 0
        /\ q \in Actors /\ q # Sweeper /\ op[q] \in Works
    BY <1>1, OfRequest DEF Referring
  <1>3. PICK w \in Works : /\ op' = [op EXCEPT ![q] = w] /\ w.at = at /\ w.session = op[q].session
                           /\ w.state = i /\ w.second = op[q].second
    BY <1>1, <1>2, Parts, MovesOn DEF Ats
  <1>4. RequestFits(q, w)
    BY <1>2, <1>3, OfRequest, ActorsFinite DEF RequestFits, Referring, Busy
  <1>5. \A b \in Actors : op'[b] = IF b = q THEN w ELSE op[b]
    BY <1>2, <1>3, <1>4, Parts, WorkMoves DEF ActorFits
  <1>6. EntryTypes' /\ RefInv'
    BY <1>1, <1>2, <1>3, <1>5, Parts, EntryChanges
  <1>7. \A j \in Ids : states'[j] = IF j = i THEN e ELSE states[j]
    BY <1>1, Parts DEF EntryTypes
  <1>8. LocksFit(q, w)
    <2>1. OthersKeep(q)
      BY <1>1, <1>7, ActorsFinite DEF OthersKeep
    <2>2. w.at \in Holding => states'[w.state].lock = q
      BY <1>1, <1>2, <1>3, <1>7 DEF Holding, Busy
    <2>3. q \in Logouts /\ w.at \in {"gate", "lock"} => states'[w.state].retired
      BY <1>1, <1>2, <1>3, <1>7, Parts DEF LockInv
    <2> QED
      BY <1>2, <2>1, <2>2, <2>3 DEF LocksFit
  <1>9. AdmissionFits(q, w)
    <2>1. Admitted(q, w) <=> Admitted(q, op[q])
      BY <1>2, <1>3 DEF Admitted
    <2>2. Guarded(q, w) <=> Guarded(q, op[q])
      BY <1>2, <1>3, <2>1 DEF Guarded
    <2> QED
      BY <1>2, <2>1, <2>2, OfRequest DEF AdmissionFits
  <1>10. LimitInv' /\ OutFits(q, w)
    <2>1. Shrinks /\ w.at \notin Busy
      BY <1>3 DEF Shrinks, Kept, On, Busy
    <2> QED
      BY <1>2, <1>5, <2>1, Idles
  <1> QED
    BY <1>2, <1>3, <1>4, <1>6, <1>8, <1>9, <1>10, Parts, Step DEF ActorFits

LEMMA TakingKeeps ==
  ASSUME IInv, NEW q \in Requests, TakeGate(q) \/ TakeLock(q)
  PROVE  IInv'
  <1>1. PICK i : i = op[q].state
    OBVIOUS
  <1>2. i \in Ids /\ states[i] \in Entries /\ q \in Actors
    BY <1>1, OfRequest DEF TakeGate, TakeLock, Referring
  <1>3. CASE TakeGate(q)
    <2>1. PICK e : e = [states[i] EXCEPT !.gate = q]
      OBVIOUS
    <2>2. e \in Entries /\ e.refs = states[i].refs /\ e.retired = states[i].retired /\ e.lock = states[i].lock
      BY <1>2, <2>1 DEF Entries
    <2>3. /\ states' = [states EXCEPT ![i] = e] /\ UNCHANGED <<row, registry, gate, guard, disk>>
          /\ Moves(q, "lock") /\ op[q].at = "gate"
      BY <1>1, <1>2, <1>3, <2>1 DEF TakeGate
    <2> QED
      BY <1>1, <2>2, <2>3, Takes
  <1>4. CASE TakeLock(q)
    <2>1. PICK e : e = [states[i] EXCEPT !.lock = q]
      OBVIOUS
    <2>2. e \in Entries /\ e.refs = states[i].refs /\ e.retired = states[i].retired /\ e.lock = q
      BY <1>2, <2>1 DEF Entries
    <2>3. /\ states' = [states EXCEPT ![i] = e] /\ UNCHANGED <<row, registry, gate, guard, disk>>
          /\ Moves(q, "leased") /\ op[q].at = "lock" /\ states[i].lock = None
      BY <1>1, <1>2, <1>4, <2>1 DEF TakeLock
    <2> QED
      BY <1>1, <2>2, <2>3, Takes
  <1> QED
    BY <1>3, <1>4

-----------------------------------------------------------------------------
(* Work under a lease *)

LEMMA AdmitKeeps ==
  ASSUME IInv, NEW q \in Requests, Admit(q)
  PROVE  IInv'
  <1>1. /\ op[q].at = "leased" /\ q \notin Logouts /\ ~op[q].second
        /\ row[op[q].session] = "live" /\ HasRoom(op[q].session)
        /\ UNCHANGED <<row, registry, states, gate, guard, disk>>
    BY DEF Admit, FreshActive
  <1>2. RetainedBytes \in 0..Capacity /\ RetainedBytes = Cardinality(Kept)
    BY <1>1, DiskFinite, LimitsAssumption DEF HasRoom, RetainedBytes
  <1>3. PICK w : w = [[op[q] EXCEPT !.at = "parsing"] EXCEPT !.budget = RetainedBytes]
    OBVIOUS
  <1>4. op' = [op EXCEPT ![q] = w]
    BY <1>3, OfRequest, Parts DEF Admit
  <1>5. /\ w \in Works /\ w.at = "parsing" /\ w.session = op[q].session /\ w.state = op[q].state
        /\ w.second = op[q].second /\ w.budget = Cardinality(Kept)
    BY <1>2, <1>3, OfRequest DEF Works, Ats
  <1>6. RequestFits(q, w)
    BY <1>1, <1>5, OfRequest DEF RequestFits, Referring, Busy
  <1>7. Admitted(q, w) /\ Guarded(q, w) /\ Admitted(q, op[q]) /\ Guarded(q, op[q])
    BY <1>1, <1>5 DEF Admitted, Guarded
  <1>8. gate = q /\ guard = q /\ states[w.state].lock = q
    BY <1>1, <1>5, <1>7, OfRequest DEF Holding
  <1>9. Cardinality(On(w.session)) + 1 <= SessionMaxFiles /\ row[w.session] # "out"
        /\ Cardinality(Kept) <= w.budget
    BY <1>1, <1>5, DiskFinite DEF HasRoom
  <1>10. w.at \notin {"gate", "lock"} /\ gate' \in Requests \cup {None}
    BY <1>1, <1>5, Parts
  <1> QED
    BY <1>1, <1>4, <1>5, <1>6, <1>7, <1>8, <1>9, <1>10, Walks

LEMMA RecognizeKeeps ==
  ASSUME IInv, NEW q \in Requests, Recognize(q)
  PROVE  IInv'
  <1>1. /\ op[q].at = "leased" /\ op[q].second /\ row[op[q].session] = "live"
        /\ UNCHANGED <<row, registry, states, gate, guard, disk>>
    BY DEF Recognize, FreshActive
  <1>2. PICK w \in Works : /\ op' = [op EXCEPT ![q] = w] /\ w.at = "recognizing" /\ w.session = op[q].session
                           /\ w.state = op[q].state /\ w.second = op[q].second
    BY OfRequest, Parts, MovesOn DEF Recognize, Ats
  <1>3. RequestFits(q, w)
    BY <1>1, <1>2, OfRequest DEF RequestFits, Referring, Busy
  <1>4. ~Admitted(q, w) /\ ~Guarded(q, w) /\ ~Admitted(q, op[q]) /\ ~Guarded(q, op[q])
    BY <1>1, <1>2 DEF Admitted, Guarded
  <1>5. gate # q /\ guard # q /\ states[w.state].lock = q
    BY <1>1, <1>2, <1>4, OfRequest DEF Holding
  <1>6. w.at \notin {"gate", "lock"} \cup Writing /\ gate' \in Requests \cup {None} /\ row[w.session] # "out"
    BY <1>1, <1>2, Parts DEF Writing
  <1> QED
    BY <1>1, <1>2, <1>3, <1>4, <1>5, <1>6, Walks DEF Writing

-----------------------------------------------------------------------------
(* The ways out *)

\* A request that ends gives back its admission, its locks and its reference.
LEMMA EndsKeeps ==
  ASSUME IInv, NEW q \in Requests, Ends(q), UNCHANGED row,
         \/ op[q].state \in Ids /\ Release(q)
         \/ op[q].state \notin Ids /\ UNCHANGED <<registry, states>>
  PROVE  IInv'
  <1>1. q \in Actors /\ q # Sweeper /\ q # None
    BY OfRequest
  <1>2. op' = [op EXCEPT ![q] = Idle] /\ \A b \in Actors : op'[b] = IF b = q THEN Idle ELSE op[b]
    BY <1>1, Parts, IdleFits, WorkMoves DEF Ends
  <1>3. EntryTypes' /\ RefInv' /\ OthersKeep(q)
    <2>1. CASE op[q].state \in Ids /\ Release(q)
      BY <1>1, <1>2, <2>1, Parts, GivesBack
    <2>2. CASE op[q].state \notin Ids /\ UNCHANGED <<registry, states>>
      <3>1. op[q].state = None
        BY <2>2, OfRequest DEF Works
      <3>2. \A b \in Actors : op'[b].state = op[b].state
                              /\ (op[b].state # None => op'[b].session = op[b].session)
        BY <1>2, <3>1, IdleFields
      <3>3. EntryTypes' /\ RefInv'
        BY <2>2, <3>2, Parts, EntriesStay
      <3> QED
        BY <2>2, <3>3 DEF OthersKeep
    <2> QED
      BY <2>1, <2>2
  <1>4. disk' \in [Files -> FileRecords] /\ Shrinks
    BY Parts, Removes DEF Ends
  <1>5. LimitInv' /\ OutFits(q, Idle)
    <2>1. Idle.at \notin Busy
      BY IdleFields DEF Busy
    <2> QED
      BY <1>1, <1>2, <1>4, <2>1, Idles
  <1>6. LocksFit(q, Idle)
    BY <1>1, <1>3, IdleFields DEF LocksFit, Holding, Busy
  <1>7. AdmissionFits(q, Idle)
    <2>1. ~Admitted(q, Idle) /\ ~Guarded(q, Idle)
      BY IdleFields DEF Admitted, Guarded
    <2>2. \A p \in Requests : p # None
      BY ActorsFinite
    <2>3. Sweeper # None
      BY ActorsFinite
    <2> QED
      BY <1>1, <2>1, <2>2, <2>3 DEF AdmissionFits, Ends
  <1>8. gate' \in Requests \cup {None} /\ guard' \in Actors \cup {None}
    BY Parts DEF Ends
  <1>9. row' \in [Sessions -> {"live", "out", "over"}]
    BY Parts
  <1> QED
    BY <1>1, <1>2, <1>3, <1>4, <1>5, <1>6, <1>7, <1>8, <1>9, IdleFits, Step

LEMMA EndingKeeps ==
  ASSUME IInv, NEW q \in Requests, UploadGivenUp(q) \/ Refused(q) \/ GivenUp(q) \/ Done(q)
  PROVE  IInv'
  <1>1. op[q].state \in Ids <=> op[q].at \in Referring
    BY OfRequest
  <1>2. CASE UploadGivenUp(q)
    BY <1>1, <1>2, EndsKeeps DEF UploadGivenUp, Referring, Busy
  <1>3. CASE Refused(q) \/ GivenUp(q)
    BY <1>1, <1>3, EndsKeeps DEF Refused, GivenUp, Referring
  <1>4. CASE Done(q)
    BY <1>1, <1>4, EndsKeeps DEF Done, Referring, Busy
  <1> QED
    BY <1>2, <1>3, <1>4

\* A session is in the hands of one request.
LEMMA OneHolder ==
  ASSUME IInv, NEW p \in Requests, NEW q \in Requests, op[p].at \in Holding, op[q].at \in Holding,
         op[p].session = op[q].session
  PROVE  p = q
  <1>1. op[p].at \in Referring /\ op[q].at \in Referring
    BY DEF Holding, Referring
  <1>2. op[p].state \in Ids /\ op[q].state \in Ids /\ p \in Actors /\ q \in Actors /\ None \notin Ids
    BY <1>1, OfRequest, ActorsFinite
  <1>3. op[p].state = op[q].state
    BY <1>2, Parts DEF RefInv
  <1> QED
    BY <1>3, OfRequest

LEMMA LogoutKeeps ==
  ASSUME IInv, NEW q \in Requests, Logout(q)
  PROVE  IInv'
  <1>1. /\ op[q].at = "leased" /\ q \in Logouts /\ op' = [op EXCEPT ![q] = Idle]
        /\ row' = [row EXCEPT ![op[q].session] = "out"] /\ Release(q) /\ UNCHANGED <<gate, guard>>
    BY DEF Logout
  <1>2. q \in Actors /\ q # Sweeper /\ op[q].state \in Ids
    BY <1>1, OfRequest DEF Referring
  <1>3. \A b \in Actors : op'[b] = IF b = q THEN Idle ELSE op[b]
    BY <1>1, <1>2, Parts, IdleFits, WorkMoves
  <1>4. EntryTypes' /\ RefInv' /\ OthersKeep(q)
    BY <1>1, <1>2, <1>3, Parts, GivesBack
  <1>5. disk' \in [Files -> FileRecords] /\ Shrinks
    <2>1. \E X : disk' = Without(X)
      BY DEF Logout
    <2> QED
      BY <2>1, Parts, Removes
  <1>6. LimitInv'
    <2>1. Idle.at \notin Writing
      BY IdleFields DEF Writing
    <2>2. Writing \subseteq Busy
      BY DEF Writing, Busy
    <2>3. \A p \in Requests : op'[p].at \notin Writing \/ (op'[p] = op[p] /\ op[p].session \in Sessions)
      BY <1>3, <2>1, <2>2, InSession DEF Busy
    <2> QED
      BY <1>5, <2>3, Parts, LimitsStay
  <1>7. OutFits(q, Idle)
    <2>1. ASSUME NEW p \in Requests, p # q, op[p].at \in Busy
          PROVE  row'[op[p].session] # "out"
      <3>1. op[p].session # op[q].session
        BY <1>1, <2>1, OneHolder DEF Holding
      <3>2. op[p].session \in Sessions /\ row[op[p].session] # "out"
        BY <2>1, InSession, Parts DEF OutMeansOut, Busy
      <3> QED
        BY <1>1, <3>1, <3>2, Parts
    <2> QED
      BY <2>1, IdleFields DEF OutFits, Busy
  <1>8. LocksFit(q, Idle)
    BY <1>2, <1>4, IdleFields DEF LocksFit, Holding, Busy
  <1>9. AdmissionFits(q, Idle)
    BY <1>1, <1>2, OfRequest, IdleFields DEF AdmissionFits, Admitted, Guarded
  <1>10. row' \in [Sessions -> {"live", "out", "over"}] /\ gate' \in Requests \cup {None}
         /\ guard' \in Actors \cup {None}
    BY <1>1, Parts
  <1> QED
    BY <1>1, <1>2, <1>4, <1>5, <1>6, <1>7, <1>8, <1>9, <1>10, IdleFits, Step

-----------------------------------------------------------------------------
(* Writing *)

\* The upload guard lets one request write at a time.
LEMMA OneWriter ==
  ASSUME IInv, NEW p \in Requests, NEW q \in Requests, op[p].at \in Writing, op[q].at \in Writing
  PROVE  p = q
  <1>1. Guarded(p, op[p]) /\ Guarded(q, op[q])
    BY OfRequest DEF RequestFits, Writing, Guarded, Admitted
  <1> QED
    BY <1>1, OfRequest

\* A request that has charged one more unit may have written one more file.
LEMMA Writes ==
  ASSUME IInv, NEW q \in Requests, op[q].at \in {"parsing", "parsed"}, op[q].budget < Capacity,
         NEW s \in Sessions, op[q].session = s,
         NEW w \in Works, w.at \in {"parsed", "storing"}, w.session = s, w.state = op[q].state,
         w.second = op[q].second, w.budget = op[q].budget + 1, op' = [op EXCEPT ![q] = w],
         UNCHANGED <<row, registry, states, gate, guard>>, disk' \in [Files -> FileRecords],
         Cardinality(Kept') <= Cardinality(Kept) + 1,
         \A t \in Sessions : t # s => Cardinality(On(t)') = Cardinality(On(t)),
         \/ w.at = "parsed" /\ Cardinality(On(s)') = Cardinality(On(s))
         \/ w.at = "storing" /\ Cardinality(On(s)') = Cardinality(On(s)) + 1
  PROVE  IInv'
  <1>1. q \in Actors /\ q # Sweeper
    BY OfRequest
  <1>2. RequestFits(q, w)
    BY OfRequest DEF RequestFits, Referring, Busy
  <1>3. \A b \in Actors : op'[b] = IF b = q THEN w ELSE op[b]
    BY <1>1, <1>2, Parts, WorkMoves DEF ActorFits
  <1>4. EntryTypes' /\ RefInv'
    BY <1>3, Parts, EntriesStay
  <1>6. \A p \in Requests : p \in Actors
    BY ActorsFinite
  <1>7. LimitInv'
    <2>1. /\ op[q].budget \in Nat /\ Capacity \in Nat /\ SessionMaxFiles \in Nat
          /\ Cardinality(Kept) \in Nat /\ Cardinality(Kept) <= op[q].budget
      BY <1>1, OfRequest, DiskFinite, LimitsAssumption, Parts DEF Works, LimitInv
    <2>2. disk' \in [Files -> FileRecords] => IsFiniteSet(Kept')
      BY FilesAssumption, FS_Subset DEF Kept
    <2>3. Cardinality(Kept') \in Nat
      BY <2>2, FS_CardinalityType
    <2>4. Cardinality(Kept') <= w.budget /\ Cardinality(Kept') <= Capacity
      BY <2>1, <2>3
    <2>5. Cardinality(On(s)) + 1 <= SessionMaxFiles /\ Cardinality(On(s)) \in Nat
      BY DiskFinite, Parts DEF LimitInv
    <2>7. Cardinality(On(s)') <= SessionMaxFiles
          /\ (w.at = "parsed" => Cardinality(On(s)') + 1 <= SessionMaxFiles)
      BY <2>1, <2>5
    <2>8. \A t \in Sessions : Cardinality(On(t)') <= SessionMaxFiles
      BY <2>7, Parts DEF LimitInv, WithinLimits
    <2>9. WithinLimits'
      BY <2>4, <2>8 DEF WithinLimits
    <2>10. \A p \in Requests : p # q => op'[p].at \notin Writing
      BY <1>3, <1>6, OneWriter DEF Writing
    <2>11. \A p \in Requests : op'[p].at \in Writing => Cardinality(Kept') <= op'[p].budget
      BY <1>1, <1>3, <2>4, <2>10
    <2>12. ASSUME NEW p \in Requests, op'[p].at \in {"parsing", "parsed"}
           PROVE  Cardinality(On(op[p].session)') + 1 <= SessionMaxFiles
      <3>1. p = q /\ w.at = "parsed"
        BY <1>1, <1>3, <2>10, <2>12 DEF Writing
      <3>2. On(op[p].session)' = On(s)'
        BY <1>1, <1>3, <3>1 DEF On
      <3> QED
        BY <2>7, <3>1, <3>2
    <2> QED
      BY <2>9, <2>11, <2>12 DEF LimitInv, Writing
  <1>8. LocksFit(q, w)
    <2>1. states[w.state].lock = q
      BY OfRequest DEF Holding, Busy
    <2> QED
      BY <1>1, <2>1 DEF LocksFit, OthersKeep
  <1>9. AdmissionFits(q, w)
    <2>1. Admitted(q, w) <=> Admitted(q, op[q])
      BY DEF Admitted
    <2>2. Guarded(q, w) <=> Guarded(q, op[q])
      BY <2>1 DEF Guarded
    <2> QED
      BY <1>1, <2>1, <2>2, OfRequest DEF AdmissionFits
  <1>10. OutFits(q, w)
    BY InSession, Parts DEF OutFits, OutMeansOut, Busy
  <1>11. /\ row' \in [Sessions -> {"live", "out", "over"}]
         /\ gate' \in Requests \cup {None} /\ guard' \in Actors \cup {None}
    BY Parts
  <1> QED
    BY <1>1, <1>2, <1>4, <1>7, <1>8, <1>9, <1>10, <1>11, Step DEF ActorFits

\* Charging moves a request on.
LEMMA Charges ==
  ASSUME IInv, NEW q \in Requests, NEW at \in {"parsed", "storing"}, Charge(q, at)
  PROVE  /\ op[q].budget < Capacity
         /\ \E w \in Works :
              /\ w.at = at /\ w.session = op[q].session /\ w.state = op[q].state
              /\ w.second = op[q].second /\ w.budget = op[q].budget + 1
              /\ op' = [op EXCEPT ![q] = w]
  <1>1. op[q] \in Works /\ op[q].budget < Capacity
    BY OfRequest DEF Charge
  <1>2. PICK w : w = [[op[q] EXCEPT !.at = at] EXCEPT !.budget = op[q].budget + 1]
    OBVIOUS
  <1>3. op[q].budget + 1 \in 0..Capacity
    BY <1>1, LimitsAssumption DEF Works
  <1>4. /\ w \in Works /\ w.at = at /\ w.session = op[q].session /\ w.state = op[q].state
        /\ w.second = op[q].second /\ w.budget = op[q].budget + 1
    BY <1>1, <1>2, <1>3 DEF Works, Ats
  <1>5. op' = [op EXCEPT ![q] = w]
    BY <1>1, <1>2, OfRequest, Parts DEF Charge
  <1> QED
    BY <1>1, <1>4, <1>5

LEMMA ParseKeeps ==
  ASSUME IInv, NEW q \in Requests, Parse(q)
  PROVE  IInv'
  <1>1. /\ op[q].at = "parsing" /\ Charge(q, "parsed") /\ UNCHANGED <<row, registry, states, gate, guard>>
        /\ Create(Spool, q) \/ UNCHANGED disk
    BY DEF Parse
  <1>2. PICK s \in Sessions : s = op[q].session
    BY <1>1, InSession
  <1>3. PICK w \in Works :
          /\ w.at = "parsed" /\ w.session = s /\ w.state = op[q].state
          /\ w.second = op[q].second /\ w.budget = op[q].budget + 1
          /\ op' = [op EXCEPT ![q] = w]
    BY <1>1, <1>2, Charges
  <1>4. op[q].budget < Capacity
    BY <1>1, Charges
  <1>5. Spool \in Homes /\ Spool \notin Sessions /\ Sessions \subseteq Homes /\ Cardinality(Kept) \in Nat
    BY FilesAssumption, DiskFinite DEF Homes
  <1>6. CASE Create(Spool, q)
    <2>1. disk' \in [Files -> FileRecords] /\ Cardinality(Kept') = Cardinality(Kept) + 1
      BY <1>5, <1>6, Parts, Creates
    <2>2. \A t \in Sessions : On(t)' = On(t)
      BY <1>5, <1>6, Parts, Creates
    <2>3. Cardinality(Kept') <= Cardinality(Kept) + 1
      BY <1>5, <2>1
    <2>4. \A t \in Sessions : Cardinality(On(t)') = Cardinality(On(t))
      BY <2>2
    <2> QED
      BY <1>1, <1>2, <1>3, <1>4, <2>1, <2>3, <2>4, Writes
  <1>7. CASE UNCHANGED disk
    <2>1. Kept' = Kept /\ \A t \in Sessions : On(t)' = On(t)
      BY <1>7 DEF Kept, On
    <2>2. Cardinality(Kept') <= Cardinality(Kept) + 1
      BY <1>5, <2>1
    <2>3. disk' \in [Files -> FileRecords]
      BY <1>7, Parts
    <2>4. \A t \in Sessions : Cardinality(On(t)') = Cardinality(On(t))
      BY <2>1
    <2> QED
      BY <1>1, <1>2, <1>3, <1>4, <2>2, <2>3, <2>4, Writes
  <1> QED
    BY <1>1, <1>6, <1>7

LEMMA StoreKeeps ==
  ASSUME IInv, NEW q \in Requests, Store(q)
  PROVE  IInv'
  <1>1. /\ op[q].at = "parsed" /\ Charge(q, "storing") /\ Create(op[q].session, q)
        /\ UNCHANGED <<row, registry, states, gate, guard>>
    BY DEF Store
  <1>2. PICK s \in Sessions : s = op[q].session
    BY <1>1, InSession
  <1>3. PICK w \in Works :
          /\ w.at = "storing" /\ w.session = s /\ w.state = op[q].state
          /\ w.second = op[q].second /\ w.budget = op[q].budget + 1
          /\ op' = [op EXCEPT ![q] = w]
    BY <1>1, <1>2, Charges
  <1>4. op[q].budget < Capacity
    BY <1>1, Charges
  <1>5. s \in Homes /\ Sessions \subseteq Homes /\ Cardinality(Kept) \in Nat
    BY DiskFinite DEF Homes
  <1>6. Create(s, q)
    BY <1>1, <1>2
  <1>7. /\ disk' \in [Files -> FileRecords] /\ Cardinality(Kept') = Cardinality(Kept) + 1
        /\ Cardinality(On(s)') = Cardinality(On(s)) + 1
    BY <1>5, <1>6, Parts, Creates
  <1>8. \A t \in Sessions : t # s => On(t)' = On(t)
    BY <1>5, <1>6, Parts, Creates
  <1>9. \A t \in Sessions : t # s => Cardinality(On(t)') = Cardinality(On(t))
    BY <1>8
  <1>10. Cardinality(Kept') <= Cardinality(Kept) + 1
    BY <1>5, <1>7
  <1> QED
    BY <1>1, <1>2, <1>3, <1>4, <1>7, <1>9, <1>10, Writes

LEMMA OnlyOne ==
  ASSUME IInv, NEW a \in Actors, op[a].state \in Ids, states[op[a].state].refs = 1
  PROVE  \A b \in Actors : b # a => op[b].state # op[a].state
  <1>1. PICK i \in Ids : i = op[a].state
    OBVIOUS
  <1>2. a \in Refs(i) /\ IsFiniteSet(Refs(i)) /\ Cardinality(Refs(i)) = 1
    BY <1>1, RefsFinite, Parts DEF RefInv, Refs
  <1>3. IsFiniteSet(Refs(i) \ {a}) /\ Cardinality(Refs(i) \ {a}) = 0
    BY <1>2, FS_RemoveElement
  <1>4. Refs(i) \ {a} = {}
    BY <1>3, FS_EmptySet
  <1> QED
    BY <1>1, <1>4 DEF Refs

\* A diagnosis gives back its first lease and queues for the second one.
LEMMA StoredKeeps ==
  ASSUME IInv, NEW q \in Requests, Stored(q)
  PROVE  IInv'
  <1>1. PICK i : i = op[q].state
    OBVIOUS
  <1>2. /\ op[q].at = "storing" /\ q \in Actors /\ q # Sweeper /\ op[q] \in Works /\ q \notin Logouts
        /\ i \in Ids /\ states[i] \in Entries /\ states[i].lock = q /\ states[i].refs > 0
    BY <1>1, OfRequest DEF Stored, RequestFits, Referring, Holding, Busy
  <1>3. PICK d : d = [NoState EXCEPT !.refs = 1]
    OBVIOUS
  <1>4. d \in Entries /\ d.refs = 1 /\ d.lock = None
    BY <1>3, NoStateEntry, ActorsFinite DEF Entries
  <1>5. PICK u : u = [[states[i] EXCEPT !.gate = None] EXCEPT !.lock = None]
    OBVIOUS
  <1>6. u \in Entries /\ u.refs = states[i].refs /\ u.lock = None /\ u.retired = states[i].retired
    BY <1>2, <1>5 DEF Entries
  <1>7. PICK e : e = IF states[i].refs = 1 THEN d ELSE u
    OBVIOUS
  <1>8. /\ e \in Entries /\ e.refs = states[i].refs /\ e.lock = None
        /\ states[i].refs # 1 => e.retired = states[i].retired
    BY <1>4, <1>6, <1>7
  <1>9. states' = [states EXCEPT ![i] = e]
    BY <1>1, <1>2, <1>3, <1>5, <1>7, Parts DEF Stored, LastReference, EntryTypes
  <1>10. PICK yes : yes = TRUE
    OBVIOUS
  <1>11. PICK w : w = [[op[q] EXCEPT !.at = "gate"] EXCEPT !.second = yes]
    OBVIOUS
  <1>12. /\ w \in Works /\ w.at = "gate" /\ w.session = op[q].session /\ w.state = i
         /\ w.second = yes
    BY <1>1, <1>2, <1>10, <1>11 DEF Works, Ats
  <1>13. op' = [op EXCEPT ![q] = w]
    BY <1>2, <1>10, <1>11, Parts DEF Stored
  <1>14. RequestFits(q, w)
    BY <1>2, <1>12, OfRequest, ActorsFinite DEF RequestFits, Referring, Busy
  <1>15. \A b \in Actors : op'[b] = IF b = q THEN w ELSE op[b]
    BY <1>2, <1>12, <1>13, <1>14, Parts, WorkMoves DEF ActorFits
  <1>16. UNCHANGED <<row, registry>> /\ gate' = None /\ guard' = None /\ disk' = Without(Of(q) \cap On(Spool))
    BY DEF Stored
  <1>17. EntryTypes' /\ RefInv'
    BY <1>1, <1>2, <1>8, <1>9, <1>12, <1>15, <1>16, Parts, EntryChanges
  <1>18. OthersKeep(q)
    <2>1. \A j \in Ids : states'[j] = IF j = i THEN e ELSE states[j]
      BY <1>9, Parts DEF EntryTypes
    <2>2. states[i].refs = 1 => \A b \in Actors : b # q => op[b].state # i
      BY <1>1, <1>2, OnlyOne
    <2> QED
      BY <1>2, <1>8, <2>1, <2>2 DEF OthersKeep
  <1>19. LocksFit(q, w)
    BY <1>2, <1>12, <1>18 DEF LocksFit, Holding, Busy
  <1>20. AdmissionFits(q, w)
    <2>1. w.second
      BY <1>10, <1>12
    <2>2. ~Admitted(q, w) /\ ~Guarded(q, w)
      BY <2>1 DEF Admitted, Guarded
    <2>3. Admitted(q, op[q]) /\ Guarded(q, op[q])
      BY <1>2, OfRequest DEF RequestFits, Admitted, Guarded
    <2>4. gate = q /\ guard = q
      BY <2>3, OfRequest
    <2>5. \A p \in Requests : p # None
      BY ActorsFinite
    <2>6. Sweeper # None
      BY ActorsFinite
    <2> QED
      BY <1>2, <1>16, <2>2, <2>4, <2>5, <2>6 DEF AdmissionFits
  <1>21. disk' \in [Files -> FileRecords] /\ Shrinks
    BY <1>16, Parts, Removes
  <1>22. LimitInv' /\ OutFits(q, w)
    <2>1. w.at \notin Busy
      BY <1>12 DEF Busy
    <2> QED
      BY <1>2, <1>15, <1>16, <1>21, <2>1, Idles
  <1>23. /\ row' \in [Sessions -> {"live", "out", "over"}]
         /\ gate' \in Requests \cup {None} /\ guard' \in Actors \cup {None}
    BY <1>16, Parts
  <1> QED
    BY <1>2, <1>12, <1>13, <1>14, <1>17, <1>19, <1>20, <1>21, <1>22, <1>23, Step DEF ActorFits

-----------------------------------------------------------------------------
(* The sweep *)

LEMMA OfSweeper ==
  ASSUME IInv
  PROVE  /\ Sweeper \in Actors /\ Sweeper \notin Requests /\ Sweeper # None /\ Logouts \subseteq Requests
         /\ op[Sweeper] \in Works /\ SweeperFits(op[Sweeper])
         /\ guard = Sweeper <=> op[Sweeper].session = Spool
  BY ActorsFinite, Parts DEF WorkInv, ActorFits, AdmissionInv, Requests

LEMMA SweepKeeps ==
  ASSUME IInv, NEW s \in Sessions, Sweep(s)
  PROVE  IInv'
  <1>1. PICK i : i = StateOf(s)
    OBVIOUS
  <1>2. op[Sweeper] = Idle /\ op[Sweeper].state = None /\ states[i].lock = None
    BY <1>1, IdleFields DEF Sweep, NotBusy
  <1>3. i \in Ids /\ states[i] \in Entries /\ states[i].refs + 1 \in 0..Cardinality(Actors)
    BY <1>1, <1>2, Parts, OfSweeper, EntryFound DEF EntryTypes
  <1>4. PICK e : e = [[states[i] EXCEPT !.refs = states[i].refs + 1] EXCEPT !.lock = Sweeper]
    OBVIOUS
  <1>5. e \in Entries /\ e.refs = states[i].refs + 1 /\ e.lock = Sweeper /\ e.retired = states[i].retired
    BY <1>3, <1>4, OfSweeper DEF Entries
  <1>6. /\ states' = [states EXCEPT ![i] = e] /\ registry' = [registry EXCEPT ![s] = i]
        /\ UNCHANGED <<row, gate, guard, disk>>
    BY <1>1, <1>3, <1>4 DEF Sweep, Referenced
  <1>7. PICK w : w = [[[Idle EXCEPT !.at = "sweeping"] EXCEPT !.session = s] EXCEPT !.state = i]
    OBVIOUS
  <1>8. w \in Works /\ w.at = "sweeping" /\ w.session = s /\ w.state = i
    BY <1>3, <1>7, IdleFits DEF Works, Ats
  <1>9. op' = [op EXCEPT ![Sweeper] = w]
    BY <1>1, <1>7 DEF Sweep
  <1>10. s # Spool /\ i # None
    BY <1>3, FilesAssumption, ActorsFinite
  <1>11. SweeperFits(w)
    BY <1>8, <1>10 DEF SweeperFits
  <1>12. \A b \in Actors : op'[b] = IF b = Sweeper THEN w ELSE op[b]
    BY <1>8, <1>9, <1>11, Parts, OfSweeper, WorkMoves DEF ActorFits
  <1>13. /\ states[StateOf(s)].retired => e.retired
         /\ e.lock \in {states[StateOf(s)].lock, Sweeper}
         /\ states[StateOf(s)].lock # None => e.lock = states[StateOf(s)].lock
    BY <1>1, <1>2, <1>5
  <1>14. /\ op'[Sweeper].state = StateOf(s) /\ op'[Sweeper].session = s
         /\ \A b \in Actors : b # Sweeper => op'[b] = op[b]
    BY <1>1, <1>8, <1>12, OfSweeper
  <1>15. e.refs = states[StateOf(s)].refs + 1
    BY <1>1, <1>5
  <1>16. states' = [states EXCEPT ![StateOf(s)] = e] /\ registry' = [registry EXCEPT ![s] = StateOf(s)]
    BY <1>1, <1>6
  <1>17. EntryTypes' /\ RefInv'
    BY <1>2, <1>5, <1>13, <1>14, <1>15, <1>16, OfSweeper, Reserved
  <1>18. states'[StateOf(s)] = e
    BY <1>2, <1>5, <1>13, <1>14, <1>15, <1>16, OfSweeper, Reserved
  <1>19. OthersKeep(Sweeper)
    BY <1>2, <1>5, <1>13, <1>14, <1>15, <1>16, OfSweeper, Reserved
  <1>20. LocksFit(Sweeper, w)
    BY <1>1, <1>5, <1>8, <1>18, <1>19, OfSweeper DEF LocksFit
  <1>21. AdmissionFits(Sweeper, w)
    <2>1. guard # Sweeper
      BY <1>2, OfSweeper, IdleFields, FilesAssumption
    <2> QED
      BY <1>6, <1>8, <1>10, <2>1, OfSweeper DEF AdmissionFits
  <1>22. LimitInv' /\ OutFits(Sweeper, w)
    <2>1. Shrinks /\ w.at \notin Busy
      BY <1>6, <1>8 DEF Shrinks, Kept, On, Busy
    <2> QED
      BY <1>6, <1>12, <2>1, OfSweeper, Idles
  <1>23. /\ row' \in [Sessions -> {"live", "out", "over"}] /\ disk' \in [Files -> FileRecords]
         /\ gate' \in Requests \cup {None} /\ guard' \in Actors \cup {None}
    BY <1>6, Parts
  <1> QED
    BY <1>8, <1>9, <1>11, <1>17, <1>20, <1>21, <1>22, <1>23, OfSweeper, Step DEF ActorFits

LEMMA SweepSpoolKeeps ==
  ASSUME IInv, SweepSpool
  PROVE  IInv'
  <1>1. /\ op[Sweeper] = Idle /\ op[Sweeper].state = None /\ guard = None /\ guard' = Sweeper
        /\ UNCHANGED <<row, registry, states, gate, disk>>
    BY IdleFields DEF SweepSpool
  <1>2. PICK w : w = [[Idle EXCEPT !.at = "sweeping"] EXCEPT !.session = Spool]
    OBVIOUS
  <1>3. w \in Works /\ w.at = "sweeping" /\ w.session = Spool /\ w.state = None
    BY <1>2, IdleFits, IdleFields DEF Works, Ats
  <1>4. op' = [op EXCEPT ![Sweeper] = w]
    BY <1>2 DEF SweepSpool
  <1>5. SweeperFits(w)
    BY <1>3 DEF SweeperFits
  <1>6. \A b \in Actors : op'[b] = IF b = Sweeper THEN w ELSE op[b]
    BY <1>3, <1>4, <1>5, Parts, OfSweeper, WorkMoves DEF ActorFits
  <1>7. EntryTypes' /\ RefInv'
    <2>1. \A b \in Actors : op'[b].state = op[b].state
                            /\ (op[b].state # None => op'[b].session = op[b].session)
      BY <1>1, <1>3, <1>6
    <2> QED
      BY <1>1, <2>1, Parts, EntriesStay
  <1>8. LocksFit(Sweeper, w)
    BY <1>1, <1>3, OfSweeper DEF LocksFit, OthersKeep
  <1>9. AdmissionFits(Sweeper, w)
    <2>1. \A p \in Requests : p # None /\ p # Sweeper
      BY ActorsFinite
    <2> QED
      BY <1>1, <1>3, <2>1, OfSweeper DEF AdmissionFits
  <1>10. LimitInv' /\ OutFits(Sweeper, w)
    <2>1. Shrinks /\ w.at \notin Busy
      BY <1>1, <1>3 DEF Shrinks, Kept, On, Busy
    <2> QED
      BY <1>1, <1>6, <2>1, OfSweeper, Idles
  <1>11. /\ row' \in [Sessions -> {"live", "out", "over"}] /\ disk' \in [Files -> FileRecords]
         /\ gate' \in Requests \cup {None} /\ guard' \in Actors \cup {None}
    BY <1>1, Parts, OfSweeper
  <1> QED
    BY <1>3, <1>4, <1>5, <1>7, <1>8, <1>9, <1>10, <1>11, OfSweeper, Step DEF ActorFits

LEMMA SweepEndsKeeps ==
  ASSUME IInv, NEW aged, SweepEnds(aged)
  PROVE  IInv'
  <1>1. op[Sweeper] # Idle /\ disk' = Without(aged) /\ op' = [op EXCEPT ![Sweeper] = Idle]
        /\ UNCHANGED <<row, gate>>
    BY DEF SweepEnds
  <1>2. \A b \in Actors : op'[b] = IF b = Sweeper THEN Idle ELSE op[b]
    BY <1>1, Parts, OfSweeper, IdleFits, WorkMoves
  <1>3. \A p \in Requests : p # None /\ p # Sweeper
    BY ActorsFinite
  <1>4. Idle.session # Spool
    BY IdleFields, FilesAssumption
  <1>5. /\ EntryTypes' /\ RefInv' /\ OthersKeep(Sweeper) /\ AdmissionFits(Sweeper, Idle)
        /\ guard' \in Actors \cup {None}
    <2>1. CASE op[Sweeper].session = Spool
      <3>1. op[Sweeper].state = None /\ guard = Sweeper /\ guard' = None /\ UNCHANGED <<registry, states>>
        BY <2>1, OfSweeper DEF SweepEnds, SweeperFits, Works
      <3>2. \A b \in Actors : op'[b].state = op[b].state
                              /\ (op[b].state # None => op'[b].session = op[b].session)
        BY <1>2, <3>1, IdleFields
      <3>3. EntryTypes' /\ RefInv'
        BY <3>1, <3>2, Parts, EntriesStay
      <3>4. OthersKeep(Sweeper)
        BY <3>1 DEF OthersKeep
      <3>5. AdmissionFits(Sweeper, Idle)
        BY <1>1, <1>3, <1>4, <3>1, OfSweeper DEF AdmissionFits
      <3> QED
        BY <3>1, <3>3, <3>4, <3>5
    <2>2. CASE op[Sweeper].session # Spool
      <3>1. op[Sweeper].state \in Ids /\ guard # Sweeper
        BY <1>1, <2>2, OfSweeper DEF SweeperFits, Works
      <3>2. Release(Sweeper) /\ guard' = guard
        BY <2>2 DEF SweepEnds
      <3>3. EntryTypes' /\ RefInv' /\ OthersKeep(Sweeper)
        BY <1>2, <3>1, <3>2, Parts, OfSweeper, GivesBack
      <3>4. AdmissionFits(Sweeper, Idle)
        BY <1>1, <1>4, <3>1, <3>2, OfSweeper DEF AdmissionFits
      <3> QED
        BY <3>2, <3>3, <3>4, Parts
    <2> QED
      BY <2>1, <2>2
  <1>6. LocksFit(Sweeper, Idle)
    BY <1>5, OfSweeper, IdleFields DEF LocksFit
  <1>7. disk' \in [Files -> FileRecords] /\ Shrinks
    BY <1>1, Parts, Removes
  <1>8. LimitInv' /\ OutFits(Sweeper, Idle)
    <2>1. Idle.at \notin Busy
      BY IdleFields DEF Busy
    <2> QED
      BY <1>1, <1>2, <1>7, <2>1, OfSweeper, Idles
  <1>9. row' \in [Sessions -> {"live", "out", "over"}] /\ gate' \in Requests \cup {None}
    BY <1>1, Parts
  <1> QED
    BY <1>1, <1>5, <1>6, <1>7, <1>8, <1>9, OfSweeper, IdleFits, Step

-----------------------------------------------------------------------------
(* Rows, restarts and the first state *)

\* A row expires, or a session begins that nobody has heard of.
LEMMA RowsKeep ==
  ASSUME IInv, UNCHANGED <<registry, states, gate, guard, disk, op>>,
         row' \in [Sessions -> {"live", "out", "over"}],
         \A s \in Sessions : row'[s] = "out" => row[s] = "out"
  PROVE  IInv'
  <1>1. WorkInv' /\ AdmissionInv' /\ LockInv'
    BY Parts DEF WorkInv, AdmissionInv, LockInv
  <1>2. RefInv' /\ EntryTypes'
    BY Parts, EntriesStay
  <1>3. OutMeansOut'
    BY Parts DEF OutMeansOut
  <1>4. LimitInv'
    <2>1. Shrinks
      BY DEF Shrinks, Kept, On
    <2>2. Writing \subseteq Busy
      BY DEF Writing, Busy
    <2>3. \A p \in Requests : op'[p].at \notin Writing \/ (op'[p] = op[p] /\ op[p].session \in Sessions)
      BY <2>2, InSession DEF Busy
    <2> QED
      BY <2>1, <2>3, Parts, LimitsStay
  <1>5. TypeOK'
    BY <1>2 DEF IInv, TypeOK, EntryTypes
  <1> QED
    BY <1>1, <1>2, <1>3, <1>4, <1>5 DEF IInv

\* Nobody is at work and nothing is reserved.
Fresh ==
  /\ registry = [s \in Sessions |-> None] /\ states = [i \in Ids |-> NoState]
  /\ gate = None /\ guard = None /\ op = [a \in Actors |-> Idle]

FreshFit ==
  /\ EntryTypes /\ RefInv /\ WorkInv /\ LockInv /\ AdmissionInv /\ OutMeansOut
  /\ gate \in Requests \cup {None} /\ guard \in Actors \cup {None} /\ op \in [Actors -> Works]
  /\ \A q \in Requests : op[q].at \notin Writing

LEMMA FreshFits == Fresh => FreshFit
  <1> SUFFICES ASSUME Fresh
               PROVE  FreshFit
    OBVIOUS
  <1>1. \A a \in Actors : op[a] = Idle
    BY DEF Fresh
  <1>2. \A q \in Requests : q \in Actors /\ q # None /\ q # Sweeper
    BY ActorsFinite
  <1>3. op \in [Actors -> Works] /\ WorkInv
    BY IdleFits DEF Fresh, WorkInv
  <1>4. EntryTypes
    BY NoStateEntry, ActorsFinite DEF Fresh, EntryTypes
  <1>5. \A i \in Ids : states[i].refs = Cardinality(Refs(i))
    <2>1. \A i \in Ids : Refs(i) = {}
      BY <1>1, IdleFields, ActorsFinite DEF Refs
    <2>2. \A i \in Ids : states[i].refs = 0
      BY NoStateEntry DEF Fresh
    <2>3. Cardinality({}) = 0
      BY FS_EmptySet
    <2> QED
      BY <2>1, <2>2, <2>3
  <1>6. RefInv
    <2>1. \A a \in Actors : op[a].state = None
      BY <1>1, IdleFields
    <2>2. \A s \in Sessions : registry[s] = None
      BY DEF Fresh
    <2>3. \A i \in Ids : states[i] = NoState
      BY DEF Fresh
    <2> QED
      BY <1>5, <2>1, <2>2, <2>3 DEF RefInv
  <1>7. LockInv
    BY <1>1, <1>2, IdleFields, ActorsFinite DEF LockInv, Holding, Busy, Requests
  <1>8. AdmissionInv
    <2>1. \A q \in Requests : ~Admitted(q, op[q]) /\ ~Guarded(q, op[q])
      BY <1>1, <1>2, IdleFields DEF Admitted, Guarded
    <2>2. op[Sweeper].session # Spool /\ Sweeper # None
      BY <1>1, IdleFields, ActorsFinite, FilesAssumption
    <2> QED
      BY <1>2, <2>1, <2>2 DEF AdmissionInv, Fresh
  <1>9. OutMeansOut /\ \A q \in Requests : op[q].at \notin Writing
    BY <1>1, <1>2, IdleFields DEF OutMeansOut, Busy, Writing
  <1> QED
    BY <1>3, <1>4, <1>6, <1>7, <1>8, <1>9 DEF Fresh, FreshFit

LEMMA RestartKeeps ==
  ASSUME IInv, NEW aged, Restart(aged)
  PROVE  IInv'
  <1>1. Fresh'
    BY DEF Restart, Fresh
  <1>2. /\ EntryTypes' /\ RefInv' /\ WorkInv' /\ LockInv' /\ AdmissionInv' /\ OutMeansOut'
        /\ gate' \in Requests \cup {None} /\ guard' \in Actors \cup {None} /\ op' \in [Actors -> Works]
        /\ \A q \in Requests : op'[q].at \notin Writing
    <2>1. Fresh' => FreshFit'
      BY FreshFits, PTL
    <2> QED
      BY <1>1, <2>1 DEF FreshFit
  <1>3. \A f \in Files : disk[f] \in FileRecords
    BY Parts
  <1>4. \A f \in Files : disk'[f] = IF f \in aged THEN NoFile ELSE [disk[f] EXCEPT !.by = None]
    BY DEF Restart
  <1>5. disk' \in [Files -> FileRecords]
    <2>1. \A f \in Files : [disk[f] EXCEPT !.by = None] \in FileRecords
      BY <1>3 DEF FileRecords
    <2> QED
      BY <2>1, NoFileRecord DEF Restart
  <1>6. Shrinks
    <2>1. \A f \in Files : disk[f] = NoFile => disk'[f] = NoFile
      <3>1. [NoFile EXCEPT !.by = None] = NoFile
        BY DEF NoFile
      <3> QED
        BY <1>4, <3>1
    <2>2. \A f \in Files : disk'[f].home \in {disk[f].home, None}
      BY <1>3, <1>4, NoFileRecord DEF FileRecords
    <2>3. None \notin Homes
      BY FilesAssumption DEF Homes
    <2> QED
      BY <2>1, <2>2, <2>3 DEF Shrinks, Kept, On
  <1>7. LimitInv'
    BY <1>2, <1>5, <1>6, Parts, LimitsStay
  <1>8. TypeOK'
    BY <1>2, <1>5, Parts DEF Restart, TypeOK, EntryTypes, Works, FileRecords
  <1> QED
    BY <1>2, <1>7, <1>8 DEF IInv

LEMMA InitIInv == Init => IInv
  <1> SUFFICES ASSUME Init
               PROVE  IInv
    OBVIOUS
  <1>1. Fresh
    BY DEF Init, Fresh
  <1>2. /\ EntryTypes /\ RefInv /\ WorkInv /\ LockInv /\ AdmissionInv /\ OutMeansOut
        /\ gate \in Requests \cup {None} /\ guard \in Actors \cup {None} /\ op \in [Actors -> Works]
        /\ \A q \in Requests : op[q].at \notin Writing
    BY <1>1, FreshFits DEF FreshFit
  <1>3. disk \in [Files -> FileRecords] /\ row \in [Sessions -> {"live", "out", "over"}]
    BY NoFileRecord DEF Init
  <1>4. Kept = {} /\ \A s \in Sessions : On(s) = {}
    BY NoFileRecord, FilesAssumption DEF Init, Kept, On
  <1>5. WithinLimits
    BY <1>4, FS_EmptySet, LimitsAssumption DEF WithinLimits
  <1>6. LimitInv
    BY <1>2, <1>5 DEF LimitInv, Writing
  <1>7. TypeOK
    BY <1>2, <1>3 DEF TypeOK, EntryTypes, Works, FileRecords
  <1> QED
    BY <1>2, <1>6, <1>7 DEF IInv

LEMMA NextIInv == IInv /\ [Next]_vars => IInv'
  <1> SUFFICES ASSUME IInv, [Next]_vars
               PROVE  IInv'
    OBVIOUS
  <1>1. ASSUME NEW q \in Requests, Wait(q)
        PROVE  IInv'
    BY <1>1, TakeUploadGateKeeps, QueueingKeeps, TakingKeeps, EndingKeeps DEF Wait
  <1>2. ASSUME NEW q \in Requests, Work(q)
        PROVE  IInv'
    BY <1>2, AdmitKeeps, ParseKeeps, StoreKeeps, StoredKeeps, RecognizeKeeps, EndingKeeps, LogoutKeeps
    DEF Work
  <1>3. ASSUME NEW q \in Requests, NEW s \in Cookies[q], Authenticate(q, s)
        PROVE  IInv'
    BY <1>3, AuthenticateKeeps
  <1>4. ASSUME NEW s \in Sessions, RowGoes(s) \/ Login(s)
        PROVE  IInv'
    <2>1. /\ UNCHANGED <<registry, states, gate, guard, disk, op>>
          /\ row' \in [Sessions -> {"live", "out", "over"}]
          /\ \A t \in Sessions : row'[t] = "out" => row[t] = "out"
      BY <1>4, Parts DEF RowGoes, Login
    <2> QED
      BY <2>1, RowsKeep
  <1>5. ASSUME NEW s \in Sessions, Sweep(s)
        PROVE  IInv'
    BY <1>5, SweepKeeps
  <1>6. CASE SweepSpool
    BY <1>6, SweepSpoolKeeps
  <1>7. ASSUME NEW aged, SweepEnds(aged) \/ Restart(aged)
        PROVE  IInv'
    BY <1>7, SweepEndsKeeps, RestartKeeps
  <1>8. CASE UNCHANGED vars
    BY <1>8, Parts, RowsKeep DEF vars
  <1> QED
    BY <1>1, <1>2, <1>3, <1>4, <1>5, <1>6, <1>7, <1>8 DEF Next

-----------------------------------------------------------------------------
(* The theorems *)

\* Leases, entries, locks and admissions fit what every request and the sweep are doing
\* (file_coordination.py).
THEOREM SessionInvariant == Spec => []IInv
  <1> QED
    BY InitIInv, NextIInv, PTL DEF Spec

\* The files of a session are in the hands of one request or of the sweep, and when all have ended
\* no lock and no entry is left.
LEMMA IInvInv == IInv => Inv
  <1> SUFFICES ASSUME IInv
               PROVE  Inv
    OBVIOUS
  <1>1. OneAtATime
    <2>1. ASSUME NEW a \in Actors, NEW s \in Sessions, Leased(a, s)
          PROVE  op[a].state \in Ids /\ op[a].state = registry[s] /\ states[op[a].state].lock = a
      <3>1. CASE a = Sweeper
        <4>1. op[a].state # None
          BY <2>1, <3>1, OfSweeper, FilesAssumption DEF Leased, SweeperFits, Busy
        <4> QED
          BY <2>1, <3>1, <4>1, OfSweeper, Parts DEF Leased, Works, LockInv, RefInv
      <3>2. CASE a \in Requests
        <4>1. op[a].at \in Holding
          BY <2>1, <3>2, OfRequest DEF Leased, RequestFits, Holding
        <4>2. op[a].state \in Ids /\ None \notin Ids
          BY <3>2, <4>1, OfRequest, ActorsFinite DEF Holding, Referring
        <4> QED
          BY <2>1, <3>2, <4>1, <4>2, OfRequest, Parts DEF Leased, RefInv
      <3> QED
        BY <3>1, <3>2 DEF Actors
    <2> QED
      BY <2>1 DEF OneAtATime
  <1>2. ASSUME \A a \in Actors : op[a] = Idle
        PROVE  gate = None /\ guard = None /\ \A s \in Sessions : registry[s] = None
    <2>1. \A q \in Requests : ~Admitted(q, op[q]) /\ ~Guarded(q, op[q])
      BY <1>2, ActorsFinite, IdleFields DEF Admitted, Guarded
    <2>2. guard # Sweeper
      BY <1>2, OfSweeper, IdleFields, FilesAssumption
    <2>3. gate = None /\ guard = None
      BY <2>1, <2>2, OfRequest, Parts DEF Actors
    <2>4. ASSUME NEW s \in Sessions, registry[s] # None
          PROVE  FALSE
      <3>1. PICK i \in Ids : registry[s] = i
        BY <2>4, Parts DEF EntryTypes
      <3>2. Cardinality(Refs(i)) > 0
        BY <3>1, Parts DEF EntryTypes, RefInv
      <3>3. Refs(i) = {}
        BY <1>2, IdleFields, ActorsFinite DEF Refs
      <3> QED
        BY <3>2, <3>3, FS_EmptySet
    <2> QED
      BY <2>3, <2>4
  <1> QED
    BY <1>1, <1>2 DEF Inv, IInv, NothingLeaks

THEOREM LeasesExclude == Spec => []Inv
  <1> QED
    BY SessionInvariant, IInvInv, PTL

\* Nothing works on the files of a session that has logged out (logout,
\* require_fresh_active_file_session).
THEOREM OutIsOut == Spec => []OutMeansOut
  <1>1. IInv => OutMeansOut
    BY DEF IInv
  <1> QED
    BY <1>1, SessionInvariant, PTL

\* The files on disk, whoever left them, respect the limits of the session and of the directory
\* (new_upload_budget, charge_upload_bytes).
THEOREM LimitsHold == Spec => []WithinLimits
  <1>1. IInv => WithinLimits
    BY DEF IInv, LimitInv
  <1> QED
    BY <1>1, SessionInvariant, PTL

-----------------------------------------------------------------------------
(* Nobody gets ahead of a queued logout *)

Leasing == Busy \cup {"leased", "sweeping"}

\* A request's own step: it gets a lease with the lock of its entry only, and keeps its session.
Own(q) ==
  /\ \A b \in Actors : b # q => op'[b] = op[b]
  /\ op'[q] = Idle \/ op[q] = Idle \/ op'[q].session = op[q].session
  /\ op'[q].at \in Leasing => TakeLock(q) \/ (op[q].at \in Leasing /\ op'[q].session = op[q].session)

LEMMA OwnStep ==
  ASSUME IInv, NEW q \in Requests, Wait(q) \/ Work(q) \/ \E s \in Cookies[q] : Authenticate(q, s)
  PROVE  Own(q)
  <1>1. q \in Actors /\ op \in [Actors -> Works] /\ op[q] \in Works
    BY OfRequest, Parts
  <1>2. Idle.at \notin Leasing
    BY IdleFields DEF Leasing, Busy
  <1>3. CASE UploadGivenUp(q) \/ Refused(q) \/ GivenUp(q) \/ Done(q) \/ Logout(q)
    <2>1. op' = [op EXCEPT ![q] = Idle]
      BY <1>3 DEF UploadGivenUp, Refused, GivenUp, Done, Logout, Ends
    <2> QED
      BY <1>1, <1>2, <2>1 DEF Own
  <1>4. ASSUME NEW at \in Ats, Moves(q, at), at \notin Leasing \/ TakeLock(q) \/ op[q].at \in Leasing
        PROVE  Own(q)
    <2>1. op'[q].at = at /\ op'[q].session = op[q].session /\ \A b \in Actors : b # q => op'[b] = op[b]
      BY <1>1, <1>4 DEF Moves, Works
    <2> QED
      BY <1>4, <2>1 DEF Own
  <1>5. CASE TakeUploadGate(q) \/ TakeGate(q) \/ TakeLock(q) \/ Recognize(q)
    BY <1>4, <1>5 DEF TakeUploadGate, TakeGate, TakeLock, Recognize, Ats, Leasing, Busy
  <1>6. CASE TakeUploadGuard(q) \/ QueueLogout(q)
    <2>1. op' = [op EXCEPT ![q].at = "gate", ![q].state = StateOf(op[q].session)]
      BY <1>6 DEF TakeUploadGuard, QueueLogout
    <2>2. /\ op'[q].at = "gate" /\ op'[q].session = op[q].session
          /\ \A b \in Actors : b # q => op'[b] = op[b]
      BY <1>1, <2>1 DEF Works
    <2> QED
      BY <2>2 DEF Own, Leasing, Busy
  <1>7. CASE Admit(q) \/ Parse(q) \/ Store(q)
    <2>1. PICK at, budget : op' = [op EXCEPT ![q].at = at, ![q].budget = budget]
      BY <1>7 DEF Admit, Parse, Store, Charge
    <2>2. op'[q].session = op[q].session /\ \A b \in Actors : b # q => op'[b] = op[b]
      BY <1>1, <2>1 DEF Works
    <2>3. op[q].at \in Leasing
      BY <1>7 DEF Admit, Parse, Store, Leasing, Busy
    <2> QED
      BY <2>2, <2>3 DEF Own
  <1>8. CASE Stored(q)
    <2>1. /\ op'[q].at = "gate" /\ op'[q].session = op[q].session
          /\ \A b \in Actors : b # q => op'[b] = op[b]
      BY <1>1, <1>8 DEF Stored, Works
    <2> QED
      BY <2>1 DEF Own, Leasing, Busy
  <1>9. ASSUME NEW s \in Cookies[q], Authenticate(q, s)
        PROVE  Own(q)
    <2>1. op[q] = Idle /\ op'[q].at = "authenticated" /\ \A b \in Actors : b # q => op'[b] = op[b]
      BY <1>1, <1>9, IdleFits DEF Authenticate, Works
    <2> QED
      BY <2>1 DEF Own, Leasing, Busy
  <1> QED
    BY <1>3, <1>5, <1>6, <1>7, <1>8, <1>9 DEF Wait, Work

\* Whoever waits for a retired entry without being a logout is not let in.
LEMMA Ahead ==
  ASSUME IInv, IInv', [Next]_vars, NEW l \in Logouts, NEW q \in Requests \ Logouts,
         op[l].at \in {"gate", "lock"}, op'[q].at \in Leasing, op'[q].session = op'[l].session
  PROVE  op[q].at \in Leasing /\ op[q].session = op[l].session
  <1>1. l \in Requests /\ q \in Requests /\ l \in Actors /\ q \in Actors /\ l # q
        /\ l # Sweeper /\ q # Sweeper
    BY ActorsFinite DEF Requests
  <1>2. op'[q].session \in Sessions /\ op'[q].session # None
    <2>1. \A p \in Requests : op'[p].at # "idle" => op'[p].session \in Sessions
      <3>1. \A p \in Requests : p \in Actors /\ p # Sweeper
        BY ActorsFinite
      <3>2. \A p \in Requests : RequestFits(p, op[p])'
        BY <3>1 DEF IInv, WorkInv, ActorFits
      <3> QED
        BY <3>2 DEF RequestFits
    <2> QED
      BY <1>1, <2>1, FilesAssumption DEF Leasing, Busy
  <1>3. op'[l] # Idle /\ op'[q] # Idle /\ op[l] # Idle
    BY <1>2, IdleFields DEF Leasing, Busy
  <1>4. CASE \A b \in {l, q} : op'[b] = op[b]
    BY <1>4
  <1>5. CASE Own(l)
    BY <1>1, <1>3, <1>5 DEF Own
  <1>6. CASE Own(q)
    <2>1. op'[l] = op[l]
      BY <1>1, <1>6 DEF Own
    <2>2. CASE TakeLock(q)
      <3>1. op[q].at = "lock" /\ ~states[op[q].state].retired
        BY <1>1, <2>2 DEF TakeLock, MayEnter
      <3>2. op[q].state \in Ids /\ op[l].state \in Ids /\ None \notin Ids
        BY <1>1, <3>1, OfRequest, ActorsFinite DEF Referring
      <3>3. op[q] # Idle
        BY <3>1, IdleFields
      <3>4. op'[q].session = op[q].session
        BY <1>3, <1>6, <3>3 DEF Own
      <3>5. op[q].state = op[l].state
        BY <1>1, <2>1, <3>2, <3>4, Parts DEF RefInv
      <3>6. states[op[l].state].retired
        BY Parts DEF LockInv
      <3> QED
        BY <3>1, <3>5, <3>6
    <2>3. CASE op[q].at \in Leasing /\ op'[q].session = op[q].session
      BY <2>1, <2>3
    <2> QED
      BY <1>6, <2>2, <2>3 DEF Own
  <1>7. ASSUME NEW p \in Requests, Wait(p) \/ Work(p) \/ \E s \in Cookies[p] : Authenticate(p, s)
        PROVE  op[q].at \in Leasing /\ op[q].session = op[l].session
    <2>1. Own(p)
      BY <1>7, OwnStep
    <2>2. p \notin {l, q} => \A b \in {l, q} : op'[b] = op[b]
      BY <1>1, <2>1 DEF Own
    <2> QED
      BY <1>4, <1>5, <1>6, <2>1, <2>2
  <1>8. ASSUME NEW s \in Sessions, RowGoes(s) \/ Login(s) \/ Sweep(s)
        PROVE  \A b \in {l, q} : op'[b] = op[b]
    BY <1>1, <1>8, Parts DEF RowGoes, Login, Sweep
  <1>9. SweepSpool => \A b \in {l, q} : op'[b] = op[b]
    BY <1>1, Parts DEF SweepSpool
  <1>10. ASSUME NEW aged, SweepEnds(aged)
         PROVE  \A b \in {l, q} : op'[b] = op[b]
    BY <1>1, <1>10, Parts DEF SweepEnds
  <1>11. ASSUME NEW aged, Restart(aged)
         PROVE  FALSE
    BY <1>1, <1>3, <1>11 DEF Restart
  <1>12. UNCHANGED vars => \A b \in {l, q} : op'[b] = op[b]
    BY DEF vars
  <1> QED
    BY <1>4, <1>7, <1>8, <1>9, <1>10, <1>11, <1>12 DEF Next

\* While a logout waits for its session nothing else gets the session's files (_reserve_state).
THEOREM LogoutIsNext == Spec => NobodyGetsAhead
  <1>1. IInv /\ IInv' /\ [Next]_vars =>
          [\A l \in Logouts, q \in Requests \ Logouts :
             op[l].at \in {"gate", "lock"} /\ Leased(q, op[l].session)' => Leased(q, op[l].session)]_vars
    <2> SUFFICES ASSUME IInv, IInv', [Next]_vars, NEW l \in Logouts, NEW q \in Requests \ Logouts,
                        op[l].at \in {"gate", "lock"}, Leased(q, op[l].session)'
                 PROVE  Leased(q, op[l].session)
      OBVIOUS
    <2>1. op'[q].at \in Leasing /\ op'[q].session = op'[l].session
      BY DEF Leased, Leasing
    <2>2. op[q].at \in Leasing /\ op[q].session = op[l].session
      BY <2>1, Ahead
    <2> QED
      BY <2>2 DEF Leased, Leasing
  <1> QED
    BY <1>1, SessionInvariant, PTL DEF Spec, NobodyGetsAhead

=============================================================================
