---------------------------- MODULE TravelApprovals ----------------------------
(***************************************************************************)
(* Finding the travel approvals a reimbursement may link, and explaining   *)
(* to an administrator why one is not found.                               *)
(*                                                                         *)
(* A request lists a user's finished approvals page by page, template by   *)
(* template and range by range, reads the details of each and judges them. *)
(* Meanwhile approvals are still being decided.  Requests share nothing    *)
(* and change nothing, so there is one at a time here.  Time is counted in *)
(* instants, DayLength of them a day; DingTalk answers no query over more  *)
(* than MaxQueryDays days.                                                 *)
(***************************************************************************)
EXTENDS TravelForms

CONSTANTS
  Profiles,        \* the templates' process codes, in the catalog's order
  Newest,          \* every approval, from the newest to the oldest
  Approval,        \* what never changes of each
  Open,            \* the approvals still to be decided
  Users, Windows, Keywords,
  Picks,           \* what a user may ask to verify, as sequences
  Today, DayLength, MaxWindowDays, MaxQueryDays, HistoryDays,
  PageSize, MaxPages, MaxListed, MaxLookupPages, LookupLimit

Approvals == {Newest[i] : i \in DOMAIN Newest}
Configured == {Profiles[i] : i \in DOMAIN Profiles}

ASSUME LimitsAssumption ==
  /\ \A n \in {DayLength, MaxWindowDays, MaxQueryDays, HistoryDays, PageSize, MaxPages,
               MaxListed, MaxLookupPages, LookupLimit} : n \in Nat \ {0}
  /\ Today \in Nat /\ MaxLookupPages <= MaxPages

\* What an approval says of its dates can be read, and says on which days its owner was away.
ASSUME ApprovalsAssumption ==
  /\ Newest \in Seq(Approvals) /\ Profiles \in Seq(Configured) /\ Configured \subseteq DOMAIN Template
  /\ \A a \in Approvals : Approval[a].code \in Configured =>
       /\ DatesAreNumbers(Approval[a].code, Approval[a].values)
       /\ Approval[a].days \subseteq DaysNamed(Approval[a].code, Approval[a].values)

\* A window is two days; a reimbursement links no more approvals than are ever listed.
ASSUME RequestsAssumption ==
  /\ \A w \in Windows : w.from \in Int /\ w.to \in Int
  /\ \A p \in Picks :
       /\ DOMAIN p = 1..Len(p) /\ Len(p) \in 0..MaxListed
       /\ \A i \in DOMAIN p : p[i].window.from \in Int /\ p[i].window.to \in Int

VARIABLES
  state,    \* where each approval stands
  op        \* the request

vars == <<state, op>>

Finished == {"agree", "refuse"}   \* the results of a COMPLETED instance
NoTarget == [kind |-> "none"]
Idle == [at |-> "idle", kind |-> "none", user |-> "none", keyword |-> "", windows |-> <<>>,
         picks |-> <<>>, target |-> NoTarget, asked |-> {},
         profile |-> 1, range |-> 1, token |-> 0, pages |-> 0, listed |-> {},
         seen |-> <<>>, candidates |-> {}, minute |-> NoDate, queue |-> <<>>, visited |-> {},
         answer |-> <<>>]

Init ==
  /\ state = [a \in Approvals |-> IF a \in Open THEN "RUNNING" ELSE "agree"]
  /\ op = Idle

\* The approvers decide, or the traveller takes the approval back.
Decide(a, s) ==
  /\ state[a] = "RUNNING"
  /\ state' = [state EXCEPT ![a] = s]
  /\ UNCHANGED op

Agreed == {a \in Approvals : state[a] = "agree"}
Refuse == op' = Idle

-----------------------------------------------------------------------------
(* Windows of days, and the ranges DingTalk is asked for *)

Start(w) == w.from * DayLength
End(w) == (w.to + 1) * DayLength - 1
InWindow(a, w) == Approval[a].created \in Start(w)..End(w)

\* from_dates and validate_live_query_window.
Live(w) ==
  /\ w.from <= w.to /\ w.to - w.from < MaxWindowDays
  /\ w.from >= Today - (HistoryDays - 1) /\ w.to <= Today

\* Faulty variant: a range begins a whole day after the one before it ended.
RangesADayApart(w) ==
  LET length == MaxQueryDays * DayLength
      count == (End(w) - Start(w)) \div (length + DayLength) + 1
  IN [k \in 1..count |->
        LET first == Start(w) + (k - 1) * (length + DayLength)
        IN first..(IF first + length - 1 < End(w) THEN first + length - 1 ELSE End(w))]

\* dingtalk_process_query_ranges.
Ranges(w) ==
  LET length == MaxQueryDays * DayLength
      count == (End(w) - Start(w)) \div length + 1
  IN [k \in 1..count |->
        LET first == Start(w) + (k - 1) * length
        IN first..(IF first + length - 1 < End(w) THEN first + length - 1 ELSE End(w))]

\* The members of a set of numbers, the least first.
InOrder(set) ==
  [k \in 1..Cardinality(set) |-> CHOOSE i \in set : Cardinality({j \in set : j <= i}) = k]

\* The elements of a list that are in a set, in the order of the list.
Among(list, set) ==
  LET at == InOrder({i \in DOMAIN list : list[i] \in set})
  IN [k \in DOMAIN at |-> list[at[k]]]

\* DingTalk's page of the approvals in set: where the list stands now.
Page(set, token, size) ==
  LET all == Among(Newest, set)
      last == IF token + size < Len(all) THEN token + size ELSE Len(all)
  IN [ids |-> [i \in 1..(last - token) |-> all[token + i]],
      next |-> IF last < Len(all) THEN last ELSE NoDate]

-----------------------------------------------------------------------------
(* One policy for a user's candidates and an administrator's explanations *)

Judgement(code, a, user, s) ==
  LET values == Approval[a].values
      dates == TripDates(code, values)
      type == TypeOption(code, values)
      company == AccountingOption(code, values, "company", CompanyOptions)
      budget == AccountingOption(code, values, "budgetCode", BudgetOptions)
  IN [id |-> a, dates |-> dates, type |-> type.option, own |-> type.own,
      company |-> company, budget |-> budget,
      selectable |-> company # Nothing /\ budget # Nothing /\ type.option # Nothing,
      rejection |-> IF Approval[a].owner # user THEN "ORIGINATOR_MISMATCH"
                    ELSE IF s \notin Finished THEN "NOT_COMPLETED"
                    ELSE IF s # "agree" THEN "NOT_AGREED"
                    ELSE IF dates = Nothing THEN "DATE_FIELDS_INVALID" ELSE "none"]

Judged(a) == Judgement(Approval[a].code, a, op.user, op.seen[a])
MatchesQuery(a) == op.keyword = "" \/ op.keyword \in Approval[a].words

Candidates == {a \in op.listed : Judged(a).rejection = "none" /\ MatchesQuery(a)}

-----------------------------------------------------------------------------
(* Listing *)

\* A user browses, or verifies a selection; an administrator diagnoses.
Browse(user, w, keyword) ==
  /\ op.at = "idle" /\ Live(w)
  /\ op' = [Idle EXCEPT !.at = "listing", !.kind = "browse", !.user = user, !.windows = <<w>>,
                        !.keyword = keyword, !.asked = Agreed]
  /\ UNCHANGED state

\* The windows of the picks, each once, in the order they are first named.
WindowsOf(picks) ==
  LET first == InOrder({i \in DOMAIN picks :
                          \A j \in 1..(i - 1) : picks[j].window # picks[i].window})
  IN [k \in DOMAIN first |-> picks[first[k]].window]

Verify(user, picks) ==
  /\ op.at = "idle" /\ picks # <<>>
  /\ \A i, j \in DOMAIN picks : i # j => picks[i].id # picks[j].id
  /\ op' = [Idle EXCEPT !.at = "listing", !.kind = "verify", !.user = user, !.picks = picks,
                        !.windows = WindowsOf(picks), !.asked = Agreed]
  /\ UNCHANGED state

Diagnose(user, w, keyword, target) ==
  /\ op.at = "idle" /\ Live(w)
  /\ op' = [Idle EXCEPT !.at = "listing", !.kind = "diagnose", !.user = user, !.windows = <<w>>,
                        !.keyword = keyword, !.target = target, !.asked = Agreed]
  /\ UNCHANGED state

Window == Head(op.windows)

ThePage ==
  Page({a \in Approvals : /\ Approval[a].code = Profiles[op.profile] /\ Approval[a].owner = op.user
                          /\ Approval[a].created \in Ranges(Window)[op.range] /\ state[a] \in Finished},
       op.token, PageSize)

Ids(page) == {page.ids[i] : i \in DOMAIN page.ids}
ListAllowed == Live(Window) /\ op.pages < MaxPages

PageAccepted(page) ==
  Ids(page) \cap op.listed = {} /\ Cardinality(op.listed \cup Ids(page)) <= MaxListed

ListPage ==
  LET page == ThePage
      lastRange == op.range = Len(Ranges(Window))
      read == [op EXCEPT !.listed = @ \cup Ids(page), !.pages = @ + 1]
  IN
  /\ op.at = "listing" /\ op.profile <= Len(Profiles) /\ ListAllowed /\ PageAccepted(page)
  /\ op' = IF page.next # NoDate THEN [read EXCEPT !.token = page.next]
           ELSE IF lastRange
           THEN [read EXCEPT !.profile = @ + 1, !.range = 1, !.token = 0, !.pages = 0]
           ELSE [read EXCEPT !.range = @ + 1, !.token = 0]
  /\ UNCHANGED state

\* Too many pages or approvals, a page that repeats one, or a window that is too old.
ListRefused ==
  /\ op.at = "listing" /\ op.profile <= Len(Profiles) /\ ~(ListAllowed /\ PageAccepted(ThePage))
  /\ IF op.kind = "diagnose"
     THEN op' = [op EXCEPT !.at = "answered", !.answer =
            [outcome |-> IF ListAllowed /\ Ids(ThePage) \cap op.listed # {} THEN "blocked" ELSE "incomplete"]]
     ELSE Refuse
  /\ UNCHANGED state

\* The picks of this window must be in the list, each by its template.
Proven ==
  {i \in DOMAIN op.picks : op.picks[i].window = Window}
Members ==
  \A i \in Proven : op.picks[i].id \in op.listed /\ Approval[op.picks[i].id].code = op.picks[i].code

Listed ==
  /\ op.at = "listing" /\ op.profile > Len(Profiles)
  /\ op' = IF op.kind # "verify" THEN [op EXCEPT !.at = "reading"]
           ELSE IF ~Members THEN Idle
           ELSE IF Len(op.windows) = 1
           THEN [op EXCEPT !.at = "reading", !.listed = {op.picks[i].id : i \in DOMAIN op.picks}]
           ELSE [op EXCEPT !.windows = Tail(@), !.listed = {}, !.profile = 1]
  /\ UNCHANGED state

-----------------------------------------------------------------------------
(* Details, read several at a time and in any order *)

Read(a) ==
  /\ op.at = "reading" /\ a \in op.listed \ DOMAIN op.seen
  /\ op' = [op EXCEPT !.seen = [b \in DOMAIN @ \cup {a} |-> IF b = a THEN state[a] ELSE @[b]]]
  /\ UNCHANGED state

AllRead == op.at = "reading" /\ op.listed \subseteq DOMAIN op.seen

Answer ==
  /\ AllRead /\ op.kind = "browse"
  /\ op' = [op EXCEPT !.at = "answered", !.answer = Candidates]
  /\ UNCHANGED state

\* One type and one accounting for the whole reimbursement; of the type, its value.
Agree(all) ==
  \A x, y \in all : x.type.value = y.type.value /\ x.own = y.own
                    /\ <<x.company, x.budget>> = <<y.company, y.budget>>

\* The end of reverify_travel_approval_selection.
Verified ==
  LET all == {Judged(a) : a \in op.listed}
      starts == {j.dates[1] : j \in all}
      ends == {j.dates[2] : j \in all}
      one == CHOOSE j \in all : TRUE
  IN
  /\ AllRead /\ op.kind = "verify"
  /\ op' = IF /\ \A j \in all : j.rejection = "none" /\ j.selectable
              /\ Cardinality({Approval[a].department : a \in op.listed}) = 1 /\ Agree(all)
           THEN [op EXCEPT !.at = "answered", !.answer =
                   [company |-> one.company, budget |-> one.budget, type |-> one.type,
                    start |-> CHOOSE d \in starts : \A e \in starts : d <= e,
                    end |-> CHOOSE d \in ends : \A e \in ends : d >= e]]
           ELSE Idle
  /\ UNCHANGED state

\* DingTalk fails a page or a detail for good, or a diagnosis takes too long.
Fails ==
  /\ op.at \in {"listing", "reading", "locating", "looking"}
  /\ IF op.kind = "diagnose"
     THEN \E outcome \in {"blocked", "incomplete"} :
            op' = [op EXCEPT !.at = "answered", !.answer = [outcome |-> outcome]]
     ELSE Refuse
  /\ UNCHANGED state

-----------------------------------------------------------------------------
(* A diagnosis: where is the approval, and why is it not among the candidates *)

Candidate ==
  /\ AllRead /\ op.kind = "diagnose"
  /\ op' = [op EXCEPT !.at = "locating", !.candidates = Candidates]
  /\ UNCHANGED state

Named(a) == IF op.target.kind = "number" THEN Approval[a].number = op.target.number
            ELSE a = op.target.id

Look(minute) == [op EXCEPT !.at = "looking", !.minute = minute, !.profile = 1, !.token = 0,
                           !.pages = 0, !.visited = {}, !.queue = <<>>]
Found(a, known) == [op EXCEPT !.at = "judging", !.target = [kind |-> "found", id |-> a, known |-> known]]
NotFound == [op EXCEPT !.at = "answered", !.answer = [outcome |-> "not_found"]]
TooMany == [op EXCEPT !.at = "answered", !.answer = [outcome |-> "incomplete"]]

\* The details that were read already are looked at first.
Remembered == DOMAIN op.seen

\* A number begins with the minute of its approval; an id has to be read for it.
Locate ==
  LET known == {a \in Remembered : Named(a)} IN
  /\ op.at = "locating"
  /\ \/ /\ Cardinality(known) > 1
        /\ op' = [op EXCEPT !.at = "answered", !.answer = [outcome |-> "blocked"]]
     \/ /\ Cardinality(known) = 1
        /\ LET a == CHOOSE a \in known : TRUE IN op' = Found(a, a \in op.listed)
     \/ /\ known = {} /\ op.target.kind = "number"
        /\ op' = IF op.target.number[1] = NoDate THEN NotFound ELSE Look(op.target.number[1])
     \/ /\ known = {} /\ op.target.kind = "id"
        /\ LET a == op.target.id IN
           op' = [Look(Approval[a].created) EXCEPT
                    !.seen = [b \in DOMAIN @ \cup {a} |-> IF b = a THEN state[a] ELSE @[b]]]
  /\ UNCHANGED state

\* A page of the approvals of that minute, whoever filed them and wherever they stand;
\* those visited before are passed over.
LookUp ==
  LET page == Page({a \in Approvals : /\ Approval[a].code = Profiles[op.profile]
                                      /\ Approval[a].created = op.minute}, op.token, PageSize)
  IN
  /\ op.at = "looking" /\ op.queue = <<>> /\ op.profile <= Len(Profiles)
  /\ op' = IF op.pages = MaxLookupPages THEN TooMany
           ELSE LET read == [op EXCEPT !.pages = @ + 1,
                               !.queue = Among(page.ids, Approvals \ op.visited)]
                IN IF page.next # NoDate THEN [read EXCEPT !.token = page.next]
                   ELSE [read EXCEPT !.profile = @ + 1, !.token = 0, !.pages = 0]
  /\ UNCHANGED state

\* One of the page: read unless it was before, or unless its id is enough.
LookAt ==
  LET a == Head(op.queue)
      visited == op.visited \cup {a}
      read == IF op.target.kind = "number" \/ Named(a) THEN {a} ELSE {}
      seen == [b \in DOMAIN op.seen \cup read |->
                 IF b \in DOMAIN op.seen THEN op.seen[b] ELSE state[b]]
  IN
  /\ op.at = "looking" /\ op.queue # <<>>
  /\ op' = IF Cardinality(visited) > LookupLimit THEN TooMany
           ELSE IF Named(a) THEN [Found(a, TRUE) EXCEPT !.seen = seen]
           ELSE [op EXCEPT !.queue = Tail(@), !.visited = visited, !.seen = seen]
  /\ UNCHANGED state

LookedUp ==
  /\ op.at = "looking" /\ op.queue = <<>> /\ op.profile > Len(Profiles)
  /\ op' = IF op.target.kind = "id" THEN Found(op.target.id, FALSE) ELSE NotFound
  /\ UNCHANGED state

\* Faulty variant: an approval that may not be selected is reported as excluded.
OutcomeOfSelectable(a) == IF a \in op.candidates /\ Judged(a).selectable THEN "visible" ELSE "excluded"

Outcome(a) ==
  IF a \notin op.candidates THEN "excluded" ELSE IF Judged(a).selectable THEN "visible" ELSE "unselectable"

Reason(a, known) ==
  IF known /\ Judged(a).rejection # "none" THEN Judged(a).rejection
  ELSE IF ~InWindow(a, Window) THEN "window"
  ELSE IF known /\ ~MatchesQuery(a) THEN "KEYWORD_MISMATCH"
  ELSE "not listed"

\* The end of diagnose_travel_approval.
Explain ==
  LET a == op.target.id IN
  /\ op.at = "judging"
  /\ op' = [op EXCEPT !.at = "answered",
              !.answer = [outcome |-> Outcome(a), reason |-> Reason(a, op.target.known), id |-> a]]
  /\ UNCHANGED state

Close ==
  /\ op.at = "answered" /\ op' = Idle
  /\ UNCHANGED state

-----------------------------------------------------------------------------
(* Specification *)

Targets == {[kind |-> "id", id |-> a] : a \in Approvals}
           \cup {[kind |-> "number", number |-> Approval[a].number] : a \in Approvals}

Next ==
  \/ \E a \in Approvals : Read(a) \/ \E s \in Finished \cup {"TERMINATED"} : Decide(a, s)
  \/ \E u \in Users :
       \/ \E w \in Windows, k \in Keywords :
            Browse(u, w, k) \/ \E t \in Targets : Diagnose(u, w, k, t)
       \/ \E p \in Picks : Verify(u, p)
  \/ ListPage \/ ListRefused \/ Listed \/ Answer \/ Verified \/ Fails
  \/ Candidate \/ Locate \/ LookUp \/ LookAt \/ LookedUp \/ Explain \/ Close

Spec == Init /\ [][Next]_vars

-----------------------------------------------------------------------------
(* Properties *)

\* Types of the variables, and the limits of a request.
TypeOK ==
  /\ state \in [Approvals -> Finished \cup {"RUNNING", "TERMINATED"}]
  /\ op.at \in {"idle", "listing", "reading", "locating", "looking", "judging", "answered"}
  /\ op.kind \in {"none", "browse", "verify", "diagnose"}
  /\ op.listed \cup op.visited \cup DOMAIN op.seen \subseteq Approvals
  /\ Cardinality(op.listed) <= MaxListed /\ Cardinality(op.visited) <= LookupLimit
  /\ op.pages <= MaxPages /\ op.profile \in 1..(Len(Profiles) + 1)

\* What a user should be offered when those of s are agreed.
Eligible(a, s, user, w) ==
  /\ Approval[a].code \in Configured /\ Approval[a].owner = user /\ a \in s
  /\ InWindow(a, w) /\ TripDates(Approval[a].code, Approval[a].values) # Nothing

\* A list that is answered holds every approval that was agreed when the user asked,
\* though others were agreed meanwhile and moved the pages: what is overlooked cannot be
\* reimbursed.  And it holds no approval that is not the user's own, agreed and in the window.
NothingIsOverlooked ==
  op.at = "answered" /\ op.kind = "browse" =>
    \A a \in Approvals :
      LET fits == op.keyword = "" \/ op.keyword \in Approval[a].words IN
      /\ Eligible(a, op.asked, op.user, Window) /\ fits => a \in op.answer
      /\ a \in op.answer => Eligible(a, Agreed, op.user, Window) /\ fits

\* The module's invariant: within its limits on pages and look-ups, a request overlooks nothing.
Inv == TypeOK /\ NothingIsOverlooked

\* A verified selection is one trip of one traveller: each approval was filed in the
\* window it was picked from, all of one department and kind of trip, and the dates
\* cover every one of them.
VerifiedIsOneTrip ==
  op.at = "answered" /\ op.kind = "verify" =>
    \A i, j \in DOMAIN op.picks :
      LET p == op.picks[i]
          a == Approval[p.id]
          b == Approval[op.picks[j].id]
          s == TypeOption(a.code, a.values)
          t == TypeOption(b.code, b.values)
      IN /\ Eligible(p.id, Agreed, op.user, p.window) /\ a.code = p.code
         /\ a.department = b.department
         /\ s.option.value = t.option.value /\ s.own = t.own
         /\ \A d \in a.days : d \in op.answer.start..op.answer.end

\* What an approver saw as the value of a component.
Shown(a, field) ==
  LET id == SourceComponent(Template[Approval[a].code], field)
      source == IF id \in DOMAIN Template[Approval[a].code].options
                THEN Template[Approval[a].code].options[id] ELSE {}
      raw == Approval[a].values[id].value
  IN {raw} \cup {o.label : o \in Chosen(source, raw)} \cup {o.value : o \in Chosen(source, raw)}

\* A reimbursement is charged to the company and the budget the approvers agreed to,
\* never to one that has the same key, or a longer name, in the other form.
ChargedAsApproved ==
  op.at = "answered" /\ op.kind = "verify" =>
    \A i \in DOMAIN op.picks :
      /\ {op.answer.company.label, op.answer.company.value} \cap Shown(op.picks[i].id, "company") # {}
      /\ {Squeezed[op.answer.budget.label], Squeezed[op.answer.budget.value]}
           \cap {Squeezed[t] : t \in Shown(op.picks[i].id, "budgetCode")} # {}

\* A diagnosis says only what is so: an approval it calls visible can be picked, and one
\* it calls excluded, or does not find, was none to be listed when it was asked.
DiagnosisIsTrue ==
  op.at = "answered" /\ op.kind = "diagnose" =>
    LET Due(a) == Eligible(a, op.asked, op.user, Window)
                  /\ (op.keyword = "" \/ op.keyword \in Approval[a].words)
    IN CASE op.answer.outcome \in {"visible", "unselectable"} ->
              Eligible(op.answer.id, Agreed, op.user, Window)
         [] op.answer.outcome = "excluded" -> ~Due(op.answer.id)
         [] op.answer.outcome = "not_found" -> \A a \in Approvals : Named(a) => ~Due(a)
         [] OTHER -> TRUE
=============================================================================
