------------------------- MODULE TravelApprovalsProofs -------------------------
(***************************************************************************)
(* The inductive invariant of TravelApprovals, and proofs that a list      *)
(* overlooks nothing, that a verified selection is one trip charged as it  *)
(* was approved, and that a diagnosis is true: for any templates, forms,   *)
(* approvals, windows and limits.                                          *)
(***************************************************************************)
EXTENDS TravelApprovals, FiniteSetTheorems, WellFoundedInduction, TLAPS

-----------------------------------------------------------------------------
(* The inductive invariant *)

Outcomes == Finished \cup {"RUNNING", "TERMINATED"}
AgreedIn(s) == {a \in Approvals : s[a] = "agree"}

\* Those of a user's approvals that a window is asked for, but for their states.
Mine(a, user, win) ==
  /\ a \in Approvals /\ Approval[a].code \in Configured
  /\ Approval[a].owner = user /\ InWindow(a, win)

\* What a template's range lists of them, where they stand in the order, and how many
\* of a set come up to a place.
InRange(p, r, user, win, s) ==
  {a \in Approvals : /\ Approval[a].code = Profiles[p] /\ Approval[a].owner = user
                     /\ Approval[a].created \in Ranges(win)[r] /\ s[a] \in Finished}
Places(list, set) == {i \in DOMAIN list : list[i] \in set}
Rank(places, i) == Cardinality({j \in places : j <= i})

\* The list has come past the approval at a place, if it was to be listed at all.
Passed(i, w, s) ==
  \E p \in DOMAIN Profiles :
    /\ Approval[Newest[i]].code = Profiles[p]
    /\ \/ p < w.profile
       \/ /\ p = w.profile
          /\ \E r \in DOMAIN Ranges(Head(w.windows)) :
               /\ Approval[Newest[i]].created \in Ranges(Head(w.windows))[r]
               /\ \/ r < w.range
                  \/ /\ r = w.range
                     /\ Rank(Places(Newest, InRange(p, r, w.user, Head(w.windows), s)), i) <= w.token

\* A pick is what it was picked as.
Vouched(pick, user) == Mine(pick.id, user, pick.window) /\ Approval[pick.id].code = pick.code

ListedRight(w) == \A a \in w.listed : Mine(a, w.user, Head(w.windows))

Listing(w, s) ==
  /\ DOMAIN w.windows = 1..Len(w.windows) /\ Len(w.windows) \in Nat \ {0}
  /\ \A k \in DOMAIN w.windows : w.windows[k].from \in Int /\ w.windows[k].to \in Int
  /\ Live(Head(w.windows)) => w.range \in DOMAIN Ranges(Head(w.windows))
  /\ w.profile > Len(Profiles) => w.range = 1 /\ w.token = 0
  /\ ListedRight(w)
  /\ \A i \in DOMAIN Newest :
       /\ Newest[i] \in w.asked /\ Mine(Newest[i], w.user, Head(w.windows)) /\ Passed(i, w, s)
       => Newest[i] \in w.listed
  /\ w.kind = "verify" => \A i \in DOMAIN w.picks :
       (\E k \in DOMAIN w.windows : w.windows[k] = w.picks[i].window) \/ Vouched(w.picks[i], w.user)

\* Details do not change once the approval is decided.
ReadRight(w, s) ==
  \A a \in DOMAIN w.seen :
    /\ w.seen[a] \in Finished => s[a] = w.seen[a]
    /\ a \in w.asked => w.seen[a] = "agree"

Reading(w, s) ==
  /\ ReadRight(w, s)
  /\ w.kind = "verify" =>
       /\ w.listed = {w.picks[i].id : i \in DOMAIN w.picks}
       /\ \A i \in DOMAIN w.picks : Vouched(w.picks[i], w.user)
  /\ w.kind # "verify" =>
       /\ ListedRight(w)
       /\ \A a \in w.asked : Mine(a, w.user, Head(w.windows)) => a \in w.listed

Fits(a, w) == w.keyword = "" \/ w.keyword \in Approval[a].words
Due(a, w) == Eligible(a, w.asked, w.user, Head(w.windows)) /\ Fits(a, w)
Right(set, w, s) ==
  \A a \in Approvals :
    /\ Due(a, w) => a \in set
    /\ a \in set => Eligible(a, AgreedIn(s), w.user, Head(w.windows)) /\ Fits(a, w)

NamedBy(a, target) ==
  IF target.kind = "number" THEN Approval[a].number = target.number ELSE a = target.id

Locating(w, s) ==
  /\ Reading(w, s) /\ w.kind = "diagnose" /\ w.listed \subseteq DOMAIN w.seen
  /\ Right(w.candidates, w, s)

\* What is answered, as the properties of the module state it.
SameType(a, b) ==
  LET s == TypeOption(Approval[a].code, Approval[a].values)
      t == TypeOption(Approval[b].code, Approval[b].values)
  IN s.option.value = t.option.value /\ s.own = t.own

OneTrip(w, s) ==
  \A i, j \in DOMAIN w.picks :
    LET p == w.picks[i]
        a == Approval[p.id]
        b == Approval[w.picks[j].id]
    IN /\ Eligible(p.id, AgreedIn(s), w.user, p.window) /\ a.code = p.code
       /\ a.department = b.department
       /\ SameType(p.id, w.picks[j].id)
       /\ \A d \in a.days : d \in w.answer.start..w.answer.end

Charged(w) ==
  \A i \in DOMAIN w.picks :
    /\ {w.answer.company.label, w.answer.company.value} \cap Shown(w.picks[i].id, "company") # {}
    /\ {Squeezed[w.answer.budget.label], Squeezed[w.answer.budget.value]}
         \cap {Squeezed[t] : t \in Shown(w.picks[i].id, "budgetCode")} # {}

Truthful(w, s) ==
  CASE w.answer.outcome \in {"visible", "unselectable"} ->
         Eligible(w.answer.id, AgreedIn(s), w.user, Head(w.windows))
    [] w.answer.outcome = "excluded" -> ~Due(w.answer.id, w)
    [] w.answer.outcome = "not_found" ->
         \A a \in Approvals : NamedBy(a, w.target) => ~Due(a, w)
    [] OTHER -> TRUE

Answered(w, s) ==
  /\ w.kind = "browse" => Right(w.answer, w, s)
  /\ w.kind = "verify" => OneTrip(w, s) /\ Charged(w)
  /\ w.kind = "diagnose" => Truthful(w, s)

\* A request has all its fields.
Whole(w) ==
  w = [at |-> w.at, kind |-> w.kind, user |-> w.user, keyword |-> w.keyword,
       windows |-> w.windows, picks |-> w.picks, target |-> w.target, asked |-> w.asked,
       profile |-> w.profile, range |-> w.range, token |-> w.token, pages |-> w.pages,
       listed |-> w.listed, seen |-> w.seen, candidates |-> w.candidates,
       minute |-> w.minute, queue |-> w.queue, visited |-> w.visited, answer |-> w.answer]

Limits(w) ==
  /\ w.at \in {"idle", "listing", "reading", "locating", "looking", "judging", "answered"}
  /\ w.kind \in {"none", "browse", "verify", "diagnose"}
  /\ w.picks \in Picks \cup {<<>>}
  /\ w.listed \subseteq Approvals /\ w.visited \subseteq Approvals
  /\ DOMAIN w.seen \subseteq Approvals /\ w.candidates \subseteq Approvals
  /\ Cardinality(w.listed) <= MaxListed /\ Cardinality(w.visited) <= LookupLimit
  /\ w.profile \in 1..(Len(Profiles) + 1) /\ w.range \in Nat \ {0} /\ w.token \in Nat
  /\ w.pages \in 0..MaxPages
  /\ w.at = "looking" => w.pages <= MaxLookupPages
  /\ w.queue \in Seq(Approvals)

Working(w, s) ==
  /\ Whole(w) /\ Limits(w) /\ w.asked \subseteq AgreedIn(s)
  /\ w.kind = "diagnose" /\ w.at \in {"listing", "reading", "locating", "looking"} =>
       w.target \in Targets
  /\ w.at = "listing" => Listing(w, s) /\ w.kind # "none" /\ w.seen = <<>>
  /\ w.at = "reading" => Reading(w, s)
  /\ w.at \in {"locating", "looking", "judging"} => Locating(w, s)
  /\ w.at = "looking" /\ w.target.kind = "number" => \A a \in w.listed : ~NamedBy(a, w.target)
  /\ w.at = "answered" => Answered(w, s)

IInv == state \in [Approvals -> Outcomes] /\ Working(op, state)

-----------------------------------------------------------------------------
(* Places in the order *)

LEMMA Least ==
  ASSUME NEW S, S \subseteq Nat, S # {}
  PROVE  \E f \in S : \A g \in S : f <= g
  <1>1. IsWellFoundedOn(OpToRel(<, Nat), Nat)
    BY NatLessThanWellFounded
  <1>2. \E f \in S : \A g \in S : <<g, f>> \notin OpToRel(<, Nat)
    BY <1>1, WFMin
  <1>3. ASSUME NEW f \in Nat, NEW g \in Nat, <<g, f>> \notin OpToRel(<, Nat)
        PROVE  f <= g
    <2>1. <<g, f>> \in Nat \X Nat /\ <<g, f>>[1] = g /\ <<g, f>>[2] = f
      OBVIOUS
    <2> QED
      BY <1>3, <2>1 DEF OpToRel
  <1> QED
    BY <1>2, <1>3

LEMMA RangeFinite ==
  ASSUME NEW f, IsFiniteSet(DOMAIN f)
  PROVE  LET T == {f[x] : x \in DOMAIN f} IN
         IsFiniteSet(T) /\ Cardinality(T) \in Nat /\ Cardinality(T) <= Cardinality(DOMAIN f)
  <1> DEFINE g == [x \in DOMAIN f |-> f[x]]
             T == {f[x] : x \in DOMAIN f}
  <1>1. g \in Surjection(DOMAIN f, T)
    BY DEF Surjection
  <1> QED
    BY <1>1, FS_Surjection, FS_CardinalityType

\* How many come up to a place: no fewer of a set that has more.
LEMMA RankGrows ==
  ASSUME NEW S, NEW T, IsFiniteSet(T), S \subseteq T, NEW i
  PROVE  Rank(S, i) \in Nat /\ Rank(T, i) \in Nat /\ Rank(S, i) <= Rank(T, i)
  <1> DEFINE A == {j \in S : j <= i}
             B == {j \in T : j <= i}
  <1>1. IsFiniteSet(B) /\ A \subseteq B
    BY FS_Subset
  <1>2. IsFiniteSet(A) /\ Cardinality(A) <= Cardinality(B)
    BY <1>1, FS_Subset
  <1> QED
    BY <1>1, <1>2, FS_CardinalityType DEF Rank

LEMMA RankInjective ==
  ASSUME NEW S \in SUBSET Int, IsFiniteSet(S), NEW i \in S, NEW j \in S, i < j
  PROVE  Rank(S, i) < Rank(S, j)
  <1> DEFINE A == {k \in S : k <= i}
             B == {k \in S : k <= j}
  <1>1. IsFiniteSet(B) /\ A \subseteq B /\ j \in B /\ j \notin A
    <2>1. IsFiniteSet(B) /\ j \in B /\ j \notin A
      BY FS_Subset
    <2>2. \A k \in S : k <= i => k <= j
      OBVIOUS
    <2>3. A \subseteq B
      BY <2>2
    <2> QED
      BY <2>1, <2>3
  <1>2. IsFiniteSet(A) /\ Cardinality(A) <= Cardinality(B) /\ Cardinality(A) # Cardinality(B)
    BY <1>1, FS_Subset
  <1>3. Cardinality(A) \in Nat /\ Cardinality(B) \in Nat
    BY <1>1, <1>2, FS_CardinalityType
  <1> QED
    BY <1>2, <1>3 DEF Rank

\* A finite set of numbers has a least and a greatest: those of least and greatest rank.
LEMMA Extremes ==
  ASSUME NEW S \in SUBSET Int, IsFiniteSet(S), S # {}
  PROVE  /\ \E m \in S : \A k \in S : m <= k
         /\ \E m \in S : \A k \in S : m >= k
  <1>1. \A T : T \in SUBSET Int /\ IsFiniteSet(T) /\ T # {} => \E m \in T : \A k \in T : m <= k
    <2> SUFFICES ASSUME NEW T \in SUBSET Int, IsFiniteSet(T), T # {}
                 PROVE  \E m \in T : \A k \in T : m <= k
      OBVIOUS
    <2> DEFINE R == {Rank(T, i) : i \in T}
    <2>1. \A i \in T : Rank(T, i) \in Nat
      BY RankGrows
    <2>2. PICK r \in R : \A q \in R : r <= q
      <3>1. R \subseteq Nat /\ R # {}
        BY <2>1
      <3> HIDE DEF R
      <3> QED
        BY <3>1, Least
    <2>3. PICK m \in T : r = Rank(T, m)
      OBVIOUS
    <2>4. ASSUME NEW k \in T, k < m
          PROVE  FALSE
      <3>1. Rank(T, k) < Rank(T, m)
        BY <2>4, RankInjective
      <3>2. Rank(T, m) <= Rank(T, k)
        BY <2>2, <2>3
      <3> QED
        BY <2>1, <3>1, <3>2
    <2> QED
      BY <2>4
  <1>2. \E m \in S : \A k \in S : m >= k
    <2> DEFINE f == [x \in S |-> 0 - x]
               T == {f[x] : x \in DOMAIN f}
    <2>1. IsFiniteSet(T)
      BY RangeFinite
    <2>2. T \in SUBSET Int /\ T # {}
      OBVIOUS
    <2>3. PICK t \in T : \A k \in T : t <= k
      <3> HIDE DEF T
      <3> QED
        BY <1>1, <2>1, <2>2
    <2>4. PICK m \in S : t = 0 - m
      OBVIOUS
    <2>5. \A k \in S : 0 - m <= 0 - k
      BY <2>3, <2>4
    <2> QED
      BY <2>5
  <1> QED
    BY <1>1, <1>2

\* A set of numbers in order has each of them once, at its rank.
LEMMA InOrderLists ==
  ASSUME NEW S \in SUBSET Nat, IsFiniteSet(S)
  PROVE  /\ Cardinality(S) \in Nat /\ DOMAIN InOrder(S) = 1..Cardinality(S)
         /\ \A k \in 1..Cardinality(S) : InOrder(S)[k] \in S
         /\ \A i \in S : Rank(S, i) \in 1..Cardinality(S) /\ InOrder(S)[Rank(S, i)] = i
  <1> DEFINE n == Cardinality(S)
             f == [i \in S |-> Rank(S, i)]
  <1>1. n \in Nat
    BY FS_CardinalityType
  <1>2. ASSUME NEW i \in S
        PROVE  Rank(S, i) \in 1..n
    <2> DEFINE A == {j \in S : j <= i}
    <2>1. IsFiniteSet(A) /\ Cardinality(A) <= n
      BY FS_Subset
    <2>2. i \in A /\ Cardinality(A) \in Nat
      BY <2>1, FS_CardinalityType
    <2>3. Cardinality(A) # 0
      BY <2>1, <2>2, FS_EmptySet
    <2> QED
      BY <1>1, <2>1, <2>2, <2>3 DEF Rank
  <1>3. \A i, j \in S : Rank(S, i) = Rank(S, j) => i = j
    <2>1. \A i, j \in S : i < j => Rank(S, i) # Rank(S, j)
      <3>1. S \in SUBSET Int /\ \A i \in S : Rank(S, i) \in Nat
        BY <1>1, <1>2
      <3> QED
        BY <3>1, RankInjective
    <2>2. \A i, j \in S : i < j \/ j < i \/ i = j
      OBVIOUS
    <2> QED
      BY <2>1, <2>2
  <1>4. f \in Injection(S, 1..n)
    BY <1>2, <1>3 DEF Injection, IsInjective
  <1>5. IsFiniteSet(1..n) /\ Cardinality(1..n) = n
    BY <1>1, FS_Interval
  <1>6. f \in Surjection(S, 1..n)
    BY <1>4, <1>5, FS_Injection
  <1>7. \A k \in 1..n : \E i \in S : Rank(S, i) = k
    BY <1>6 DEF Surjection
  <1>8. InOrder(S) = [k \in 1..n |-> CHOOSE i \in S : Rank(S, i) = k]
    BY DEF InOrder, Rank
  <1>9. \A k \in 1..n : InOrder(S)[k] \in S /\ Rank(S, InOrder(S)[k]) = k
    BY <1>7, <1>8
  <1> QED
    BY <1>1, <1>2, <1>3, <1>8, <1>9

\* What is taken of a list is the list's, and in the set; and an element of the set is
\* taken at its rank among them.
LEMMA AmongLists ==
  ASSUME NEW list, Len(list) \in Nat, DOMAIN list = 1..Len(list), NEW set
  PROVE  LET q == Among(list, set)
             at == Places(list, set)
             n == Cardinality(at)
         IN /\ IsFiniteSet(at) /\ at \in SUBSET Nat /\ n \in Nat
            /\ DOMAIN q = 1..n /\ Len(q) = n
            /\ \A k \in 1..n : q[k] \in set /\ \E i \in DOMAIN list : q[k] = list[i]
            /\ \A i \in at : Rank(at, i) \in 1..n /\ q[Rank(at, i)] = list[i]
  <1> DEFINE q == Among(list, set)
             at == Places(list, set)
             n == Cardinality(at)
             o == InOrder(at)
  <1>1. IsFiniteSet(1..Len(list))
    BY FS_Interval
  <1>2. IsFiniteSet(at) /\ at \in SUBSET Nat
    <2>1. at \subseteq 1..Len(list)
      BY DEF Places
    <2> QED
      BY <1>1, <2>1, FS_Subset
  <1>3. /\ n \in Nat /\ DOMAIN o = 1..n
        /\ \A k \in 1..n : o[k] \in at
        /\ \A i \in at : Rank(at, i) \in 1..n /\ o[Rank(at, i)] = i
    <2> HIDE DEF at
    <2> QED
      BY <1>2, InOrderLists
  <1>4. q = [k \in 1..n |-> list[o[k]]]
    BY <1>3 DEF Among, Places
  <1>5. \A k \in 1..n : q[k] = list[o[k]] /\ o[k] \in at
    BY <1>3, <1>4
  <1>6. Len(q) = n /\ DOMAIN q = 1..n
    <2> HIDE DEF n
    <2> QED
      BY <1>3, <1>4
  <1>7. \A k \in 1..n : q[k] \in set /\ \E i \in DOMAIN list : q[k] = list[i]
    BY <1>5 DEF Places
  <1>8. \A i \in at : Rank(at, i) \in 1..n /\ q[Rank(at, i)] = list[i]
    <2> HIDE DEF n, q, o, at
    <2> QED
      BY <1>3, <1>5
  <1> QED
    BY <1>2, <1>3, <1>6, <1>7, <1>8

LEMMA OrderFinite ==
  /\ Len(Newest) \in Nat /\ DOMAIN Newest = 1..Len(Newest)
  /\ \A i \in DOMAIN Newest : Newest[i] \in Approvals
  /\ IsFiniteSet(Approvals)
  /\ \A set : IsFiniteSet(Places(Newest, set)) /\ Places(Newest, set) \in SUBSET Nat
  <1>1. Len(Newest) \in Nat /\ DOMAIN Newest = 1..Len(Newest)
    BY ApprovalsAssumption
  <1>2. IsFiniteSet(DOMAIN Newest)
    BY <1>1, FS_Interval
  <1>3. IsFiniteSet(Approvals)
    BY <1>2, RangeFinite DEF Approvals
  <1>4. ASSUME NEW set
        PROVE  IsFiniteSet(Places(Newest, set)) /\ Places(Newest, set) \in SUBSET Nat
    <2>1. Places(Newest, set) \subseteq DOMAIN Newest
      BY DEF Places
    <2> QED
      BY <1>1, <1>2, <2>1, FS_Subset
  <1> QED
    BY <1>1, <1>3, <1>4 DEF Approvals

LEMMA RankCounts ==
  ASSUME NEW set, NEW i \in Places(Newest, set)
  PROVE  Rank(Places(Newest, set), i) \in Nat \ {0}
  <1>1. /\ Rank(Places(Newest, set), i) \in 1..Cardinality(Places(Newest, set))
        /\ Cardinality(Places(Newest, set)) \in Nat
    BY OrderFinite, AmongLists
  <1> QED
    BY <1>1

\* A page holds, of a set, those whose ranks come after its token, up to the next token if
\* there is one.
LEMMA PageHolds ==
  ASSUME NEW set, NEW token \in Nat, NEW size \in Nat \ {0}
  PROVE  LET page == Page(set, token, size) IN
         /\ Ids(page) \subseteq set \cap Approvals
         /\ page.ids \in Seq(Approvals) /\ DOMAIN page.ids = 1..Len(page.ids)
         /\ page.next # NoDate => page.next \in Nat
         /\ \A i \in Places(Newest, set) :
              /\ Rank(Places(Newest, set), i) \in Nat \ {0}
              /\ Rank(Places(Newest, set), i) > token
                 /\ (page.next # NoDate => Rank(Places(Newest, set), i) <= page.next)
                 => Newest[i] \in Ids(page)
  <1> DEFINE all == Among(Newest, set)
             at == Places(Newest, set)
             n == Cardinality(at)
             last == IF token + size < n THEN token + size ELSE n
             page == Page(set, token, size)
  <1>1. /\ n \in Nat /\ Len(all) = n
        /\ \A k \in 1..n : all[k] \in set /\ \E i \in DOMAIN Newest : all[k] = Newest[i]
        /\ \A i \in at : Rank(at, i) \in 1..n /\ all[Rank(at, i)] = Newest[i]
    BY OrderFinite, AmongLists
  <1>2. \A k \in 1..n : all[k] \in set \cap Approvals
    BY <1>1, OrderFinite
  <1>3. /\ page.ids = [i \in 1..(last - token) |-> all[token + i]]
        /\ page.next = IF last < n THEN last ELSE NoDate
    <2> HIDE DEF all, n
    <2> QED
      BY <1>1 DEF Page, all
  <1>4. last \in Nat /\ last <= n /\ (last < n => last = token + size)
    BY <1>1
  <1> HIDE DEF all, n, last, page
  <1>5. \A i \in 1..(last - token) : token + i \in 1..n
    BY <1>1, <1>4
  <1>6. \A i \in DOMAIN page.ids : page.ids[i] \in set \cap Approvals
    BY <1>2, <1>3, <1>5
  <1>7. page.ids \in Seq(Approvals) /\ DOMAIN page.ids = 1..Len(page.ids)
    <2>1. CASE last - token \in Nat
      BY <1>3, <1>6, <2>1
    <2>2. CASE last - token \notin Nat
      <3>1. 1..(last - token) = 1..0
        BY <1>4, <2>2
      <3>2. page.ids = [i \in 1..0 |-> all[token + i]]
        BY <1>3, <3>1
      <3>3. page.ids = <<>>
        BY <3>2
      <3> QED
        BY <3>3
    <2> QED
      BY <2>1, <2>2
  <1>8. ASSUME NEW i \in at, Rank(at, i) > token, page.next # NoDate => Rank(at, i) <= page.next
        PROVE  Newest[i] \in Ids(page)
    <2>1. Rank(at, i) \in 1..n /\ all[Rank(at, i)] = Newest[i]
      BY <1>1
    <2>2. Rank(at, i) <= last
      BY <1>1, <1>3, <1>4, <1>8, <2>1 DEF NoDate
    <2>3. Rank(at, i) - token \in 1..(last - token)
          /\ token + (Rank(at, i) - token) = Rank(at, i)
      BY <1>1, <1>4, <1>8, <2>1, <2>2
    <2>4. page.ids[Rank(at, i) - token] = Newest[i]
      BY <1>3, <2>1, <2>3
    <2> QED
      BY <1>3, <2>3, <2>4 DEF Ids
  <1>9. Ids(page) \subseteq set \cap Approvals
    BY <1>6 DEF Ids
  <1>10. page.next # NoDate => page.next \in Nat
    BY <1>3, <1>4
  <1>11. \A i \in at : Rank(at, i) \in Nat \ {0}
    BY <1>1
  <1> QED
    BY <1>7, <1>8, <1>9, <1>10, <1>11 DEF page, at

-----------------------------------------------------------------------------
(* Ranges of a window *)

LEMMA Times ==
  ASSUME NEW a \in Int, NEW b \in Int, NEW d \in Nat, a <= b
  PROVE  a * d \in Int /\ b * d \in Int /\ a * d <= b * d
  <1>1. b - a \in Nat /\ (b - a) * d \in Nat
    OBVIOUS
  <1>2. b * d = a * d + (b - a) * d
    OBVIOUS
  <1> QED
    BY <1>1, <1>2

LEMMA Quotient ==
  ASSUME NEW a \in Nat, NEW d \in Nat \ {0}
  PROVE  LET q == a \div d IN q \in Nat /\ q * d <= a /\ a < q * d + d
  OBVIOUS

\* The ranges of a window are of days within it, and leave out no moment of it.
LEMMA RangesOf ==
  ASSUME NEW w, w.from \in Int, w.to \in Int, w.from <= w.to
  PROVE  /\ Len(Ranges(w)) \in Nat \ {0} /\ DOMAIN Ranges(w) = 1..Len(Ranges(w))
         /\ \A r \in DOMAIN Ranges(w) : Ranges(w)[r] \subseteq Start(w)..End(w)
         /\ \A x \in Start(w)..End(w) : \E r \in DOMAIN Ranges(w) : x \in Ranges(w)[r]
  <1> DEFINE s == Start(w)
             e == End(w)
             d == MaxQueryDays * DayLength
             n == (e - s) \div d + 1
             first(k) == s + (k - 1) * d
             last(k) == IF first(k) + d - 1 < e THEN first(k) + d - 1 ELSE e
  <1>1. s \in Int /\ e \in Int /\ s <= e
    <2>1. DayLength \in Nat \ {0}
      BY LimitsAssumption
    <2>2. w.from * DayLength <= w.to * DayLength /\ w.from * DayLength \in Int
          /\ w.to * DayLength \in Int /\ (w.to + 1) * DayLength = w.to * DayLength + DayLength
      BY <2>1, Times
    <2> QED
      BY <2>1, <2>2 DEF Start, End
  <1>2. d \in Nat \ {0}
    <2>1. MaxQueryDays \in Nat \ {0} /\ DayLength \in Nat \ {0}
      BY LimitsAssumption
    <2> QED
      BY <2>1
  <1>3. Ranges(w) = [k \in 1..n |-> first(k)..last(k)]
    BY DEF Ranges
  <1> HIDE DEF s, e, d
  <1>4. n \in Nat \ {0}
    BY <1>1, <1>2, Quotient
  <1> HIDE DEF n
  <1>5. Len(Ranges(w)) = n /\ DOMAIN Ranges(w) = 1..n
    BY <1>3, <1>4
  <1>6. ASSUME NEW k \in 1..n
        PROVE  (k - 1) * d \in Nat /\ first(k) \in Int /\ s <= first(k)
    BY <1>1, <1>2, <1>4
  <1>7. ASSUME NEW k \in 1..n
        PROVE  Ranges(w)[k] \subseteq s..e
    <2>1. Ranges(w)[k] = first(k)..last(k)
      BY <1>3
    <2>2. first(k) \in Int /\ s <= first(k)
      BY <1>6
    <2> HIDE DEF first
    <2>3. last(k) \in Int /\ last(k) <= e
      BY <1>1, <1>2, <2>2
    <2> QED
      BY <1>1, <2>1, <2>2, <2>3
  <1>8. ASSUME NEW x \in s..e
        PROVE  \E r \in 1..n : x \in Ranges(w)[r]
    <2> DEFINE q == (x - s) \div d
               m == (e - s) \div d
    <2>1. x - s \in Nat /\ e - s \in Nat /\ x - s <= e - s
      BY <1>1
    <2>2. q \in Nat /\ q * d <= x - s /\ x - s < q * d + d
      BY <1>2, <2>1, Quotient
    <2>3. m \in Nat /\ m * d <= e - s /\ e - s < m * d + d
      BY <1>2, <2>1, Quotient
    <2> HIDE DEF q, m
    <2>4. q <= m
      <3>1. SUFFICES ASSUME m + 1 <= q PROVE FALSE
        BY <2>2, <2>3
      <3>2. (m + 1) * d <= q * d /\ (m + 1) * d \in Int /\ q * d \in Int
        BY <1>2, <2>2, <2>3, <3>1, Times
      <3>3. (m + 1) * d = m * d + d /\ m * d \in Int
        BY <1>2, <2>3
      <3> QED
        BY <1>2, <2>1, <2>2, <2>3, <3>2, <3>3
    <2>5. q + 1 \in 1..n /\ q + 1 - 1 = q
      BY <2>2, <2>3, <2>4 DEF n, m
    <2>6. q * d \in Nat
      BY <1>2, <2>2
    <2>7. first(q + 1) = s + q * d
      BY <1>1, <1>2, <2>2, <2>5
    <2>8. x \in first(q + 1)..last(q + 1)
      <3> HIDE DEF first
      <3> QED
        BY <1>1, <1>2, <2>2, <2>6, <2>7
    <2> QED
      BY <1>3, <2>5, <2>8
  <1> QED
    BY <1>4, <1>5, <1>7, <1>8 DEF s, e

-----------------------------------------------------------------------------
(* What an approval says *)

\* An itinerary lasts from its first day to its last, whatever the order of its rows.
LEMMA ItineraryCovers ==
  ASSUME NEW rows, DOMAIN rows = 1..Len(rows), Len(rows) \in Nat,
         \A i \in DOMAIN rows, name \in {"startTime", "endTime"} : RowDate(rows[i], name) \in Int,
         ItineraryDates(rows) # Nothing
  PROVE  \E s, e \in Int :
           /\ ItineraryDates(rows) = <<s, e>>
           /\ \A i \in DOMAIN rows :
                s <= RowDate(rows[i], "startTime") /\ RowDate(rows[i], "endTime") <= e
  <1> DEFINE f == [i \in DOMAIN rows |-> RowDate(rows[i], "startTime")]
             g == [i \in DOMAIN rows |-> RowDate(rows[i], "endTime")]
             starts == {f[i] : i \in DOMAIN f}
             ends == {g[i] : i \in DOMAIN g}
             s == CHOOSE d \in starts : \A e \in starts : d <= e
             e == CHOOSE d \in ends : \A c \in ends : d >= c
  <1>1. rows # <<>> /\ ItineraryDates(rows) = <<s, e>>
    BY DEF ItineraryDates
  <1>2. starts # {} /\ ends # {} /\ starts \in SUBSET Int /\ ends \in SUBSET Int
    <2>1. DOMAIN rows # {}
      BY <1>1
    <2> QED
      BY <2>1
  <1>3. IsFiniteSet(starts) /\ IsFiniteSet(ends)
    <2>1. IsFiniteSet(DOMAIN rows)
      BY FS_Interval
    <2>2. IsFiniteSet(DOMAIN f) /\ IsFiniteSet(DOMAIN g)
      BY <2>1
    <2> HIDE DEF f, g
    <2> QED
      BY <2>2, RangeFinite
  <1>4. /\ \A i \in DOMAIN rows : RowDate(rows[i], "startTime") \in starts
        /\ \A i \in DOMAIN rows : RowDate(rows[i], "endTime") \in ends
    OBVIOUS
  <1> HIDE DEF starts, ends
  <1>5. s \in starts /\ \A d \in starts : s <= d
    BY <1>2, <1>3, Extremes
  <1>6. e \in ends /\ \A d \in ends : e >= d
    BY <1>2, <1>3, Extremes
  <1> HIDE DEF s, e
  <1> QED
    BY <1>1, <1>2, <1>4, <1>5, <1>6

\* The dates read from an approval cover the days it names.
LEMMA TripCovers ==
  ASSUME NEW a \in Approvals, Approval[a].code \in Configured,
         TripDates(Approval[a].code, Approval[a].values) # Nothing
  PROVE  LET dates == TripDates(Approval[a].code, Approval[a].values) IN
         /\ dates[1] \in Int /\ dates[2] \in Int
         /\ \A d \in Approval[a].days : d \in dates[1]..dates[2]
  <1> DEFINE code == Approval[a].code
             values == Approval[a].values
             t == Template[code]
             v == values[t.startDate]
             dates == TripDates(code, values)
  <1>1. DatesAreNumbers(code, values) /\ Approval[a].days \subseteq DaysNamed(code, values)
    BY ApprovalsAssumption
  <1>2. SUFFICES /\ dates[1] \in Int /\ dates[2] \in Int
                 /\ \A d \in DaysNamed(code, values) : d \in dates[1]..dates[2]
    BY <1>1
  <1> HIDE DEF code, values
  <1>3. dates # Nothing
    BY DEF code, values
  <1>4. CASE t.startDate # t.endDate
    <2> DEFINE s == ComponentDate(values, t.startDate)
               e == ComponentDate(values, t.endDate)
    <2>1. s \in Int /\ e \in Int /\ DaysNamed(code, values) = s..e
      BY <1>1, <1>4 DEF DatesAreNumbers, DaysNamed
    <2>2. dates = <<s, e>>
      BY <1>3, <1>4 DEF TripDates, Span
    <2> QED
      BY <2>1, <2>2
  <1>5. CASE t.startDate = t.endDate /\ v.type = "DDDateRangeField"
    <2>1. t.startDate \in DOMAIN values /\ dates = RangeDates(v.value)
      BY <1>3, <1>5 DEF TripDates
    <2>2. v.value \in Seq(Int) /\ DaysNamed(code, values) = v.value[1]..v.value[2]
      BY <1>1, <1>5, <2>1 DEF DatesAreNumbers, DaysNamed
    <2>3. dates = <<v.value[1], v.value[2]>> /\ Len(v.value) \in {2, 3}
      BY <1>3, <2>1 DEF RangeDates, Span
    <2> QED
      BY <2>2, <2>3
  <1>6. CASE t.startDate = t.endDate /\ v.type \in {"TableField", "DDTableField"}
    <2>1. t.startDate \in DOMAIN values /\ dates = ItineraryDates(v.value)
      BY <1>3, <1>6 DEF TripDates
    <2> DEFINE rows == v.value
    <2>2. /\ DOMAIN rows = 1..Len(rows) /\ Len(rows) \in Nat
          /\ \A i \in DOMAIN rows, name \in {"startTime", "endTime"} : RowDate(rows[i], name) \in Int
      BY <1>1, <1>6, <2>1 DEF DatesAreNumbers
    <2>3. DaysNamed(code, values)
            = UNION {RowDate(rows[i], "startTime")..RowDate(rows[i], "endTime") : i \in DOMAIN rows}
      BY <1>6, <2>1 DEF DaysNamed
    <2> HIDE DEF rows
    <2>4. PICK s \in Int, e \in Int :
            /\ ItineraryDates(rows) = <<s, e>>
            /\ \A i \in DOMAIN rows :
                 s <= RowDate(rows[i], "startTime") /\ RowDate(rows[i], "endTime") <= e
      BY <1>3, <2>1, <2>2, ItineraryCovers DEF rows
    <2>5. dates = <<s, e>>
      BY <2>1, <2>4 DEF rows
    <2>6. ASSUME NEW i \in DOMAIN rows,
                 NEW d \in RowDate(rows[i], "startTime")..RowDate(rows[i], "endTime")
          PROVE  d \in s..e
      BY <2>2, <2>4
    <2>7. \A d \in DaysNamed(code, values) : d \in s..e
      BY <2>3, <2>6
    <2> QED
      BY <2>5, <2>7
  <1> QED
    BY <1>3, <1>4, <1>5, <1>6 DEF TripDates

LEMMA OnlyIs ==
  ASSUME NEW set, IsFiniteSet(set), Only(set) # Nothing
  PROVE  Only(set) \in set
  <1>1. Cardinality(set) = 1 /\ Only(set) = CHOOSE x \in set : TRUE
    BY DEF Only
  <1>2. PICK x : set = {x}
    BY <1>1, FS_Singleton
  <1> QED
    BY <1>1, <1>2

\* The option an approval's value stands for is one of those it was shown as.
LEMMA AccountedAsShown ==
  ASSUME NEW a \in Approvals, Approval[a].code \in Configured, NEW field, NEW options,
         IsFiniteSet(options),
         AccountingOption(Approval[a].code, Approval[a].values, field, options) # Nothing
  PROVE  Match(field, Shown(a, field),
               AccountingOption(Approval[a].code, Approval[a].values, field, options))
  <1> DEFINE code == Approval[a].code
             values == Approval[a].values
             t == Template[code]
             id == SourceComponent(t, field)
             source == IF id \in DOMAIN t.options THEN t.options[id] ELSE {}
             raw == values[id].value
             tokens == Tokens(field, source, raw)
             fit == {o \in options : Match(field, tokens, o)}
             chosen == AccountingOption(code, values, field, options)
  <1>1. chosen = Only(fit)
    BY DEF AccountingOption
  <1>2. IsFiniteSet(fit)
    BY FS_Subset
  <1>3. chosen \in fit
    BY <1>1, <1>2, OnlyIs
  <1>4. IsFiniteSet(source)
    BY ApprovalsAssumption, OptionsAssumption, FS_EmptySet
  <1>5. IsFiniteSet(Chosen(source, raw))
    <2> HIDE DEF source, raw
    <2> QED
      BY <1>4, FS_Subset DEF Chosen
  <1>6. Shown(a, field) = {raw} \cup {o.label : o \in Chosen(source, raw)}
                            \cup {o.value : o \in Chosen(source, raw)}
    BY DEF Shown
  <1>7. tokens \subseteq Shown(a, field)
    <2> HIDE DEF source, raw
    <2>1. CASE source = {}
      BY <1>6, <2>1 DEF Tokens
    <2>2. CASE source # {}
      <3>1. Only(Chosen(source, raw)) # Nothing => Only(Chosen(source, raw)) \in Chosen(source, raw)
        BY <1>5, OnlyIs
      <3> QED
        BY <1>6, <2>2, <3>1 DEF Tokens
    <2> QED
      BY <2>1, <2>2
  <1>8. Match(field, tokens, chosen)
    BY <1>3
  <1> HIDE DEF tokens, chosen
  <1> QED
    BY <1>7, <1>8 DEF Match, chosen

-----------------------------------------------------------------------------
(* Decisions: what is known of an approval stays so while others are decided *)

Later(s, t) ==
  /\ s \in [Approvals -> Outcomes] /\ t \in [Approvals -> Outcomes]
  /\ \A a \in Approvals : s[a] # "RUNNING" => t[a] = s[a]

LEMMA AgreedLater ==
  ASSUME NEW s, NEW t, Later(s, t)
  PROVE  /\ AgreedIn(s) \subseteq AgreedIn(t)
         /\ \A a, u, w : Eligible(a, AgreedIn(s), u, w) => Eligible(a, AgreedIn(t), u, w)
  <1>1. AgreedIn(s) \subseteq AgreedIn(t)
    BY DEF Later, AgreedIn
  <1> QED
    BY <1>1 DEF Eligible

LEMMA PassedLater ==
  ASSUME NEW w, NEW s, NEW t, Later(s, t), NEW i, w.token \in Nat, Passed(i, w, t)
  PROVE  Passed(i, w, s)
  <1> DEFINE win == Head(w.windows)
  <1>1. ASSUME NEW p, NEW r,
               Rank(Places(Newest, InRange(p, r, w.user, win, t)), i) <= w.token
        PROVE  Rank(Places(Newest, InRange(p, r, w.user, win, s)), i) <= w.token
    <2> DEFINE S == Places(Newest, InRange(p, r, w.user, win, s))
               T == Places(Newest, InRange(p, r, w.user, win, t))
    <2>1. InRange(p, r, w.user, win, s) \subseteq InRange(p, r, w.user, win, t)
      BY DEF Later, InRange, Finished
    <2>2. S \subseteq T
      BY <2>1 DEF Places
    <2>3. IsFiniteSet(T)
      BY OrderFinite
    <2>4. Rank(S, i) \in Nat /\ Rank(T, i) \in Nat /\ Rank(S, i) <= Rank(T, i)
      BY <2>2, <2>3, RankGrows
    <2> QED
      BY <1>1, <2>4
  <1> QED
    BY <1>1 DEF Passed

LEMMA TruthfulLater ==
  ASSUME NEW w, NEW s, NEW t, Later(s, t), Truthful(w, s)
  PROVE  Truthful(w, t)
  <1>1. CASE w.answer.outcome \in {"visible", "unselectable"}
    BY <1>1, AgreedLater DEF Truthful
  <1>2. CASE w.answer.outcome = "excluded"
    BY <1>2 DEF Truthful
  <1>3. CASE w.answer.outcome = "not_found"
    BY <1>3 DEF Truthful
  <1> QED
    BY <1>1, <1>2, <1>3 DEF Truthful

LEMMA WorkingLater ==
  ASSUME NEW w, NEW s, NEW t, Later(s, t), Working(w, s)
  PROVE  Working(w, t)
  <1>1. w.asked \subseteq AgreedIn(t)
    BY AgreedLater DEF Working
  <1>2. Listing(w, s) => Listing(w, t)
    BY PassedLater DEF Listing, Working, Limits
  <1>3. Reading(w, s) => Reading(w, t)
    <2>1. \A a \in DOMAIN w.seen : a \in Approvals /\ (w.seen[a] \in Finished => w.seen[a] # "RUNNING")
      BY DEF Working, Limits, Finished
    <2>2. ReadRight(w, s) => ReadRight(w, t)
      BY <2>1 DEF ReadRight, Later
    <2> QED
      BY <2>2 DEF Reading
  <1>4. \A set : Right(set, w, s) => Right(set, w, t)
    BY AgreedLater DEF Right
  <1>5. Locating(w, s) => Locating(w, t)
    BY <1>3, <1>4 DEF Locating
  <1>6. Answered(w, s) => Answered(w, t)
    <2>1. OneTrip(w, s) => OneTrip(w, t)
      BY AgreedLater DEF OneTrip
    <2> QED
      BY <1>4, <2>1, TruthfulLater DEF Answered
  <1> QED
    BY <1>1, <1>2, <1>3, <1>5, <1>6 DEF Working

LEMMA DecideStep ==
  ASSUME IInv, NEW a \in Approvals, NEW s \in Finished \cup {"TERMINATED"}, Decide(a, s)
  PROVE  IInv'
  <1>1. Later(state, state')
    BY DEF IInv, Decide, Later, Outcomes
  <1>2. Working(op, state')
    BY <1>1, WorkingLater DEF IInv
  <1> QED
    BY <1>1, <1>2 DEF IInv, Decide, Later

-----------------------------------------------------------------------------
(* A request begins *)

LEMMA IdleWorks ==
  ASSUME NEW s
  PROVE  Working(Idle, s)
  <1>1. Whole(Idle)
    BY DEF Whole, Idle
  <1>2. Cardinality({}) = 0 /\ DOMAIN <<>> = {}
    BY FS_EmptySet
  <1>3. Len(Profiles) \in Nat
    BY ApprovalsAssumption
  <1>4. Limits(Idle)
    BY <1>2, <1>3, LimitsAssumption DEF Limits, Idle
  <1> QED
    BY <1>1, <1>4 DEF Working, Idle

\* Where a range begins, only what came before it has been passed.
LEMMA RangeBegins ==
  ASSUME NEW w, NEW s, w.token = 0, w.asked \subseteq AgreedIn(s), NEW i \in DOMAIN Newest,
         Newest[i] \in w.asked, Mine(Newest[i], w.user, Head(w.windows)), Passed(i, w, s)
  PROVE  \E p \in DOMAIN Profiles :
           /\ Approval[Newest[i]].code = Profiles[p]
           /\ \/ p < w.profile
              \/ p = w.profile /\ \E r \in DOMAIN Ranges(Head(w.windows)) :
                   Approval[Newest[i]].created \in Ranges(Head(w.windows))[r] /\ r < w.range
  <1> DEFINE win == Head(w.windows)
             a == Newest[i]
  <1>1. ASSUME NEW p, NEW r, Approval[a].code = Profiles[p],
               Approval[a].created \in Ranges(win)[r],
               Rank(Places(Newest, InRange(p, r, w.user, win, s)), i) <= 0
        PROVE  FALSE
    <2>1. a \in InRange(p, r, w.user, win, s)
      BY <1>1 DEF InRange, Mine, AgreedIn, Finished
    <2>2. i \in Places(Newest, InRange(p, r, w.user, win, s))
      BY <2>1 DEF Places
    <2>3. Rank(Places(Newest, InRange(p, r, w.user, win, s)), i) \in Nat \ {0}
      BY <2>2, RankCounts
    <2> QED
      BY <1>1, <2>3
  <1> QED
    BY <1>1 DEF Passed

LEMMA RoomAtStart ==
  ASSUME NEW w, w.from \in Int, w.to \in Int, Live(w)
  PROVE  1 \in DOMAIN Ranges(w)
  BY RangesOf DEF Live

\* A request that lists a window from its first range.
Starts(w, s) ==
  /\ Whole(w) /\ Limits(w) /\ w.at = "listing" /\ w.kind # "none"
  /\ w.kind = "diagnose" => w.target \in Targets
  /\ DOMAIN w.windows = 1..Len(w.windows) /\ Len(w.windows) \in Nat \ {0}
  /\ \A k \in DOMAIN w.windows : w.windows[k].from \in Int /\ w.windows[k].to \in Int
  /\ w.kind = "verify" => \A i \in DOMAIN w.picks :
       (\E k \in DOMAIN w.windows : w.windows[k] = w.picks[i].window)
       \/ Vouched(w.picks[i], w.user)
  /\ w.asked \subseteq AgreedIn(s) /\ w.listed = {} /\ w.seen = <<>>
  /\ w.profile = 1 /\ w.range = 1 /\ w.token = 0

LEMMA ListStarts ==
  ASSUME NEW w, NEW s, Starts(w, s)
  PROVE  Working(w, s)
  <1>1. Head(w.windows) = w.windows[1] /\ 1 \in DOMAIN w.windows
    BY DEF Starts
  <1>2. Live(Head(w.windows)) => w.range \in DOMAIN Ranges(Head(w.windows))
    BY <1>1, RoomAtStart DEF Starts
  <1>3. ASSUME NEW i \in DOMAIN Newest, Newest[i] \in w.asked,
               Mine(Newest[i], w.user, Head(w.windows)), Passed(i, w, s)
        PROVE  FALSE
    <2>1. PICK p \in DOMAIN Profiles :
            p < 1 \/ \E r \in DOMAIN Ranges(Head(w.windows)) :
                       Approval[Newest[i]].created \in Ranges(Head(w.windows))[r] /\ r < 1
      BY <1>3, RangeBegins DEF Starts
    <2>2. ~(p < 1)
      BY ApprovalsAssumption
    <2>3. \A r \in DOMAIN Ranges(Head(w.windows)) : ~(r < 1)
      BY DEF Ranges
    <2> QED
      BY <2>1, <2>2, <2>3
  <1>4. ListedRight(w)
    BY DEF ListedRight, Starts
  <1>5. Listing(w, s)
    BY <1>2, <1>3, <1>4 DEF Listing, Starts
  <1> QED
    BY <1>5 DEF Working, Starts

LEMMA IdleFields ==
  /\ Whole(Idle) /\ Idle.picks = <<>> /\ Idle.listed = {} /\ Idle.visited = {} /\ Idle.seen = <<>>
  /\ Idle.candidates = {} /\ Idle.profile = 1 /\ Idle.range = 1 /\ Idle.token = 0
  /\ Idle.pages = 0 /\ Idle.queue = <<>>
  BY DEF Whole, Idle

LEMMA StartLimits ==
  ASSUME NEW w, w.at = "listing", w.kind \in {"browse", "verify", "diagnose"},
         w.picks \in Picks \cup {<<>>}, w.listed = {}, w.visited = {}, w.seen = <<>>,
         w.candidates = {}, w.profile = 1, w.range = 1, w.token = 0, w.pages = 0, w.queue = <<>>
  PROVE  Limits(w)
  <1>1. Cardinality({}) = 0 /\ DOMAIN <<>> = {}
    BY FS_EmptySet
  <1>2. Len(Profiles) \in Nat
    BY ApprovalsAssumption
  <1> QED
    BY <1>1, <1>2, LimitsAssumption DEF Limits

LEMMA BrowseStep ==
  ASSUME IInv, NEW user \in Users, NEW win \in Windows, NEW keyword, Browse(user, win, keyword)
  PROVE  IInv'
  <1>0. PICK w : w = [Idle EXCEPT !.at = "listing", !.kind = "browse", !.user = user,
                            !.windows = <<win>>, !.keyword = keyword, !.asked = Agreed]
    OBVIOUS
  <1>1. op' = w /\ state' = state
    BY <1>0 DEF Browse
  <1>2. /\ Whole(w) /\ w.at = "listing" /\ w.kind = "browse" /\ w.windows = <<win>>
        /\ w.asked = Agreed /\ w.picks = <<>> /\ w.listed = {} /\ w.visited = {}
        /\ w.seen = <<>> /\ w.candidates = {} /\ w.profile = 1 /\ w.range = 1
        /\ w.token = 0 /\ w.pages = 0 /\ w.queue = <<>>
    BY <1>0, IdleFields DEF Whole
  <1>3. Limits(w)
    BY <1>2, StartLimits
  <1>4. /\ DOMAIN w.windows = 1..Len(w.windows) /\ Len(w.windows) \in Nat \ {0}
        /\ \A k \in DOMAIN w.windows : w.windows[k].from \in Int /\ w.windows[k].to \in Int
    BY <1>2, RequestsAssumption
  <1>5. w.asked \subseteq AgreedIn(state)
    BY <1>2 DEF Agreed, AgreedIn
  <1>6. w.kind # "none" /\ w.kind # "diagnose" /\ w.kind # "verify"
    BY <1>2
  <1>7. Starts(w, state)
    BY <1>2, <1>3, <1>4, <1>5, <1>6 DEF Starts
  <1>8. Working(w, state)
    BY <1>7, ListStarts
  <1> QED
    BY <1>1, <1>8 DEF IInv

LEMMA DiagnoseStep ==
  ASSUME IInv, NEW user \in Users, NEW win \in Windows, NEW keyword, NEW target \in Targets,
         Diagnose(user, win, keyword, target)
  PROVE  IInv'
  <1>0. PICK w : w = [Idle EXCEPT !.at = "listing", !.kind = "diagnose", !.user = user,
                            !.windows = <<win>>, !.keyword = keyword, !.target = target,
                            !.asked = Agreed]
    OBVIOUS
  <1>1. op' = w /\ state' = state
    BY <1>0 DEF Diagnose
  <1>2. /\ Whole(w) /\ w.at = "listing" /\ w.kind = "diagnose" /\ w.windows = <<win>>
        /\ w.target = target
        /\ w.asked = Agreed /\ w.picks = <<>> /\ w.listed = {} /\ w.visited = {}
        /\ w.seen = <<>> /\ w.candidates = {} /\ w.profile = 1 /\ w.range = 1
        /\ w.token = 0 /\ w.pages = 0 /\ w.queue = <<>>
    BY <1>0, IdleFields DEF Whole
  <1>3. Limits(w)
    BY <1>2, StartLimits
  <1>4. /\ DOMAIN w.windows = 1..Len(w.windows) /\ Len(w.windows) \in Nat \ {0}
        /\ \A k \in DOMAIN w.windows : w.windows[k].from \in Int /\ w.windows[k].to \in Int
    BY <1>2, RequestsAssumption
  <1>5. w.asked \subseteq AgreedIn(state)
    BY <1>2 DEF Agreed, AgreedIn
  <1>6. w.kind # "none" /\ w.kind # "verify" /\ w.target \in Targets
    BY <1>2
  <1>7. Starts(w, state)
    BY <1>2, <1>3, <1>4, <1>5, <1>6 DEF Starts
  <1>8. Working(w, state)
    BY <1>7, ListStarts
  <1> QED
    BY <1>1, <1>8 DEF IInv

\* Every window picked from is listed, and no other.
LEMMA WindowsOfPicks ==
  ASSUME NEW picks \in Picks, picks # <<>>
  PROVE  LET ws == WindowsOf(picks) IN
         /\ DOMAIN ws = 1..Len(ws) /\ Len(ws) \in Nat \ {0}
         /\ \A k \in DOMAIN ws : \E i \in DOMAIN picks : ws[k] = picks[i].window
         /\ \A i \in DOMAIN picks : \E k \in DOMAIN ws : ws[k] = picks[i].window
  <1> DEFINE S == {i \in DOMAIN picks : \A j \in 1..(i - 1) : picks[j].window # picks[i].window}
             o == InOrder(S)
             ws == WindowsOf(picks)
             n == Cardinality(S)
  <1>1. DOMAIN picks = 1..Len(picks) /\ Len(picks) \in Nat
    BY RequestsAssumption
  <1>2. DOMAIN picks # {}
    BY <1>1
  <1>3. S \subseteq 1..Len(picks)
    BY <1>1
  <1>4. IsFiniteSet(S) /\ S \in SUBSET Nat
    <2>1. IsFiniteSet(1..Len(picks)) /\ 1..Len(picks) \subseteq Nat
      BY <1>1, FS_Interval
    <2> HIDE DEF S
    <2> QED
      BY <1>3, <2>1, FS_Subset
  <1>5. \A i \in DOMAIN picks : \E m \in S : picks[m].window = picks[i].window
    <2> TAKE i \in DOMAIN picks
    <2> DEFINE T == {j \in DOMAIN picks : picks[j].window = picks[i].window}
    <2>1. T \subseteq Nat /\ T # {}
      BY <1>1
    <2>2. PICK m \in T : \A j \in T : m <= j
      <3> HIDE DEF T
      <3> QED
        BY <2>1, Least
    <2>3. ASSUME NEW j \in 1..(m - 1)
          PROVE  picks[j].window # picks[m].window
      <3>1. j \in DOMAIN picks /\ ~(m <= j)
        BY <1>1, <2>2
      <3> QED
        BY <2>2, <3>1
    <2> QED
      BY <2>2, <2>3
  <1>6. ws = [k \in DOMAIN o |-> picks[o[k]].window]
    BY DEF WindowsOf
  <1>7. S # {}
    BY <1>2, <1>5
  <1>8. \A i \in S : i \in DOMAIN picks
    OBVIOUS
  <1> HIDE DEF S
  <1>9. /\ n \in Nat /\ DOMAIN o = 1..n
        /\ \A k \in 1..n : o[k] \in S
        /\ \A i \in S : Rank(S, i) \in 1..n /\ o[Rank(S, i)] = i
    BY <1>4, InOrderLists
  <1>10. n # 0
    BY <1>4, <1>7, FS_EmptySet
  <1> HIDE DEF o, n, ws
  <1>11. DOMAIN ws = 1..n /\ Len(ws) = n
    BY <1>6, <1>9
  <1>12. \A k \in DOMAIN ws : \E i \in DOMAIN picks : ws[k] = picks[i].window
    BY <1>6, <1>8, <1>9, <1>11
  <1>13. \A m \in S : \E k \in DOMAIN ws : ws[k] = picks[m].window
    BY <1>6, <1>9, <1>11
  <1> QED
    BY <1>5, <1>9, <1>10, <1>11, <1>12, <1>13 DEF ws

LEMMA VerifyStep ==
  ASSUME IInv, NEW user \in Users, NEW picks \in Picks, Verify(user, picks)
  PROVE  IInv'
  <1> DEFINE ws == WindowsOf(picks)
  <1>0. PICK w : w = [Idle EXCEPT !.at = "listing", !.kind = "verify", !.user = user,
                            !.picks = picks, !.windows = ws, !.asked = Agreed]
    OBVIOUS
  <1>1. op' = w /\ state' = state /\ picks # <<>>
    BY <1>0 DEF Verify
  <1>2. /\ Whole(w) /\ w.at = "listing" /\ w.kind = "verify" /\ w.windows = ws
        /\ w.asked = Agreed /\ w.picks = picks /\ w.listed = {} /\ w.visited = {}
        /\ w.seen = <<>> /\ w.candidates = {} /\ w.profile = 1 /\ w.range = 1
        /\ w.token = 0 /\ w.pages = 0 /\ w.queue = <<>>
    BY <1>0, IdleFields DEF Whole
  <1>3. Limits(w)
    BY <1>2, StartLimits
  <1>4. /\ DOMAIN ws = 1..Len(ws) /\ Len(ws) \in Nat \ {0}
        /\ \A k \in DOMAIN ws : \E i \in DOMAIN picks : ws[k] = picks[i].window
        /\ \A i \in DOMAIN picks : \E k \in DOMAIN ws : ws[k] = picks[i].window
    BY <1>1, WindowsOfPicks
  <1> HIDE DEF ws
  <1>5. \A k \in DOMAIN ws : ws[k].from \in Int /\ ws[k].to \in Int
    BY <1>4, RequestsAssumption
  <1>6. w.asked \subseteq AgreedIn(state)
    BY <1>2 DEF Agreed, AgreedIn
  <1>7. w.kind # "none" /\ w.kind # "diagnose"
    BY <1>2
  <1>8. /\ DOMAIN w.windows = 1..Len(w.windows) /\ Len(w.windows) \in Nat \ {0}
        /\ \A k \in DOMAIN w.windows : w.windows[k].from \in Int /\ w.windows[k].to \in Int
        /\ \A i \in DOMAIN w.picks : \E k \in DOMAIN w.windows : w.windows[k] = w.picks[i].window
    BY <1>2, <1>4, <1>5
  <1>9. Starts(w, state)
    BY <1>2, <1>3, <1>6, <1>7, <1>8 DEF Starts
  <1>10. Working(w, state)
    BY <1>9, ListStarts
  <1> QED
    BY <1>1, <1>10 DEF IInv

-----------------------------------------------------------------------------
(* Listing *)

LEMMA GivesUp == IInv /\ op' = Idle /\ UNCHANGED state => IInv'
  BY IdleWorks DEF IInv

LEMMA AnswersNothing ==
  ASSUME IInv, op.kind = "diagnose", NEW outcome \in {"blocked", "incomplete"},
         op' = [op EXCEPT !.at = "answered", !.answer = [outcome |-> outcome]], UNCHANGED state
  PROVE  IInv'
  <1>1. PICK w : w = [op EXCEPT !.at = "answered", !.answer = [outcome |-> outcome]]
    OBVIOUS
  <1>2. Whole(op) /\ Limits(op) /\ op.asked \subseteq AgreedIn(state)
    BY DEF IInv, Working
  <1>3. /\ Whole(w) /\ w.at = "answered" /\ w.kind = "diagnose" /\ w.answer.outcome = outcome
        /\ w.picks = op.picks /\ w.asked = op.asked
        /\ w.listed = op.listed /\ w.visited = op.visited /\ w.seen = op.seen
        /\ w.candidates = op.candidates /\ w.profile = op.profile /\ w.range = op.range
        /\ w.token = op.token /\ w.pages = op.pages /\ w.queue = op.queue
    BY <1>1, <1>2 DEF Whole
  <1>4. Limits(w)
    BY <1>2, <1>3 DEF Limits
  <1>5. Truthful(w, state)
    BY <1>3 DEF Truthful
  <1>6. Working(w, state)
    BY <1>2, <1>3, <1>4, <1>5 DEF Working, Answered
  <1> QED
    BY <1>1, <1>6 DEF IInv

LEMMA ListRefusedStep ==
  ASSUME IInv, ListRefused
  PROVE  IInv'
  <1>1. CASE op.kind = "diagnose"
    <2>1. PICK outcome \in {"blocked", "incomplete"} :
            op' = [op EXCEPT !.at = "answered", !.answer = [outcome |-> outcome]]
      BY <1>1 DEF ListRefused
    <2>2. UNCHANGED state
      BY DEF ListRefused
    <2> QED
      BY <1>1, <2>1, <2>2, AnswersNothing
  <1>2. CASE op.kind # "diagnose"
    BY <1>2, GivesUp DEF ListRefused, Refuse
  <1> QED
    BY <1>1, <1>2

LEMMA FailsStep ==
  ASSUME IInv, Fails
  PROVE  IInv'
  <1>1. CASE op.kind = "diagnose"
    <2>1. PICK outcome \in {"blocked", "incomplete"} :
            op' = [op EXCEPT !.at = "answered", !.answer = [outcome |-> outcome]]
      BY <1>1 DEF Fails
    <2>2. UNCHANGED state
      BY DEF Fails
    <2> QED
      BY <1>1, <2>1, <2>2, AnswersNothing
  <1>2. CASE op.kind # "diagnose"
    BY <1>2, GivesUp DEF Fails, Refuse
  <1> QED
    BY <1>1, <1>2

\* An approval agreed when the user asked is listed once its range has been read past it,
\* however many were decided meanwhile.
LEMMA RangeRead ==
  ASSUME IInv, op.at = "listing", op.profile <= Len(Profiles), ListAllowed,
         NEW i \in DOMAIN Newest, Newest[i] \in op.asked,
         Mine(Newest[i], op.user, Window),
         Approval[Newest[i]].code = Profiles[op.profile],
         Approval[Newest[i]].created \in Ranges(Window)[op.range],
         LET at == Places(Newest, InRange(op.profile, op.range, op.user, Window, state)) IN
         ThePage.next # NoDate => Rank(at, i) <= ThePage.next
  PROVE  Newest[i] \in op.listed \cup Ids(ThePage)
  <1> DEFINE set == InRange(op.profile, op.range, op.user, Window, state)
             at == Places(Newest, set)
  <1>1. /\ op.profile \in DOMAIN Profiles /\ op.range \in DOMAIN Ranges(Window)
        /\ op.token \in Nat /\ op.asked \subseteq AgreedIn(state) /\ Listing(op, state)
    BY ApprovalsAssumption DEF IInv, Working, Limits, Listing, ListAllowed, Window
  <1>2. Newest[i] \in set
    BY <1>1 DEF InRange, Mine, AgreedIn, Finished
  <1>3. i \in at
    BY <1>2 DEF Places
  <1>4. ThePage = Page(set, op.token, PageSize)
    BY DEF ThePage, InRange
  <1>5. PageSize \in Nat \ {0}
    BY LimitsAssumption
  <1> HIDE DEF set
  <1>6. /\ Rank(at, i) \in Nat \ {0}
        /\ Rank(at, i) > op.token => Newest[i] \in Ids(ThePage)
    BY <1>1, <1>3, <1>4, <1>5, PageHolds DEF set
  <1>7. CASE Rank(at, i) <= op.token
    <2>1. Passed(i, op, state)
      BY <1>1, <1>7 DEF Passed, Window, set
    <2> QED
      BY <1>1, <2>1 DEF Listing, Window
  <1>8. CASE Rank(at, i) > op.token
    BY <1>6, <1>8
  <1> QED
    BY <1>1, <1>6, <1>7, <1>8

\* What a page leaves alone of a request.
Kept(u, w) ==
  /\ u.at = w.at /\ u.kind = w.kind /\ u.user = w.user /\ u.windows = w.windows
  /\ u.picks = w.picks /\ u.target = w.target /\ u.asked = w.asked /\ u.seen = w.seen
  /\ u.candidates = w.candidates /\ u.queue = w.queue /\ u.visited = w.visited

LEMMA PageIds ==
  ASSUME IInv, op.at = "listing", op.profile <= Len(Profiles), ListAllowed
  PROVE  /\ Ids(ThePage) \subseteq Approvals
         /\ \A a \in Ids(ThePage) : Mine(a, op.user, Window)
         /\ ThePage.next # NoDate => ThePage.next \in Nat
  <1> DEFINE set == InRange(op.profile, op.range, op.user, Window, state)
  <1>1. /\ op.profile \in DOMAIN Profiles /\ op.range \in DOMAIN Ranges(Window)
        /\ op.token \in Nat /\ Listing(op, state) /\ Live(Window)
    BY ApprovalsAssumption DEF IInv, Working, Limits, Listing, ListAllowed, Window
  <1>2. ThePage = Page(set, op.token, PageSize)
    BY DEF ThePage, InRange
  <1>3. PageSize \in Nat \ {0}
    BY LimitsAssumption
  <1>4. Window.from \in Int /\ Window.to \in Int
    BY <1>1 DEF Listing, Window
  <1>5. Ranges(Window)[op.range] \subseteq Start(Window)..End(Window)
    BY <1>1, <1>4, RangesOf DEF Live
  <1>6. Profiles[op.profile] \in Configured
    BY <1>1 DEF Configured
  <1>7. \A a \in set : Mine(a, op.user, Window)
    BY <1>5, <1>6 DEF InRange, Mine, InWindow
  <1> HIDE DEF set
  <1> QED
    BY <1>1, <1>2, <1>3, <1>7, PageHolds

LEMMA PageTaken ==
  ASSUME IInv, op.at = "listing", op.profile <= Len(Profiles), ListAllowed, PageAccepted(ThePage),
         NEW w, Whole(w), Kept(w, op), w.listed = op.listed \cup Ids(ThePage),
         w.pages \in 0..MaxPages, w.profile \in 1..(Len(Profiles) + 1), w.token \in Nat,
         w.range \in DOMAIN Ranges(Window),
         w.profile > Len(Profiles) => w.range = 1 /\ w.token = 0,
         \A i \in DOMAIN Newest :
           Newest[i] \in op.asked /\ Mine(Newest[i], op.user, Window) /\ Passed(i, w, state)
           => Newest[i] \in w.listed
  PROVE  Working(w, state)
  <1>1. Limits(op) /\ Listing(op, state) /\ op.asked \subseteq AgreedIn(state) /\ op.kind # "none"
        /\ op.seen = <<>> /\ (op.kind = "diagnose" => op.target \in Targets)
    BY DEF IInv, Working
  <1>2. Ids(ThePage) \subseteq Approvals /\ \A a \in Ids(ThePage) : Mine(a, op.user, Window)
    BY PageIds
  <1>3. w.range \in Nat \ {0}
    BY DEF Ranges
  <1>4. Cardinality(w.listed) <= MaxListed
    BY DEF PageAccepted
  <1>5. Limits(w)
    BY <1>1, <1>2, <1>3, <1>4 DEF Limits, Kept
  <1>6. ListedRight(w)
    BY <1>1, <1>2 DEF Listing, ListedRight, Kept, Window
  <1>7. Listing(w, state)
    BY <1>1, <1>6 DEF Listing, Kept, Window
  <1> QED
    BY <1>1, <1>5, <1>7 DEF Working, Kept

LEMMA ListPageStep ==
  ASSUME IInv, ListPage
  PROVE  IInv'
  <1> DEFINE page == ThePage
             n == Len(Ranges(Window))
  <1>1. /\ op.at = "listing" /\ op.profile <= Len(Profiles) /\ ListAllowed /\ PageAccepted(page)
        /\ UNCHANGED state
    BY DEF ListPage
  <1>2. Whole(op) /\ Limits(op) /\ Listing(op, state) /\ op.asked \subseteq AgreedIn(state)
    BY <1>1 DEF IInv, Working
  <1>3. PICK x : x = [op EXCEPT !.listed = @ \cup Ids(page), !.pages = @ + 1]
    OBVIOUS
  <1> HIDE DEF page
  <1>4. /\ Whole(x) /\ Kept(x, op) /\ x.listed = op.listed \cup Ids(page) /\ x.pages = op.pages + 1
        /\ x.profile = op.profile /\ x.range = op.range /\ x.token = op.token
    BY <1>2, <1>3 DEF Whole, Kept
  <1>5. x.pages \in 0..MaxPages /\ op.profile \in 1..Len(Profiles) /\ Len(Profiles) \in Nat
    <2>1. MaxPages \in Nat /\ Len(Profiles) \in Nat
      BY LimitsAssumption, ApprovalsAssumption
    <2>2. op.pages \in 0..MaxPages /\ op.profile \in 1..(Len(Profiles) + 1)
      BY <1>2 DEF Limits
    <2>3. op.pages < MaxPages /\ op.profile <= Len(Profiles)
      BY <1>1 DEF ListAllowed
    <2> QED
      BY <1>4, <2>1, <2>2, <2>3
  <1>6. /\ n \in Nat \ {0} /\ DOMAIN Ranges(Window) = 1..n /\ op.range \in 1..n
        /\ \A y \in Start(Window)..End(Window) : \E r \in DOMAIN Ranges(Window) :
             y \in Ranges(Window)[r]
    <2>1. Live(Window) /\ Window.from \in Int /\ Window.to \in Int
          /\ op.range \in DOMAIN Ranges(Window)
      BY <1>1, <1>2 DEF ListAllowed, Listing, Window
    <2> QED
      BY <2>1, RangesOf DEF Live
  <1> DEFINE Awaited(i) == Newest[i] \in op.asked /\ Mine(Newest[i], op.user, Window)
             Before(i) ==
               \E p \in DOMAIN Profiles :
                 /\ Approval[Newest[i]].code = Profiles[p]
                 /\ \/ p < op.profile
                    \/ p = op.profile /\ \E r \in DOMAIN Ranges(Window) :
                         Approval[Newest[i]].created \in Ranges(Window)[r] /\ r < op.range
  <1>7. ASSUME NEW i \in DOMAIN Newest, Awaited(i), Before(i)
        PROVE  Newest[i] \in op.listed
    <2>1. Passed(i, op, state)
      BY <1>7 DEF Passed, Window
    <2> QED
      BY <1>2, <1>7, <2>1 DEF Listing, Window
  <1>8. ASSUME NEW i \in DOMAIN Newest, Awaited(i),
               Approval[Newest[i]].code = Profiles[op.profile],
               Approval[Newest[i]].created \in Ranges(Window)[op.range], page.next = NoDate
        PROVE  Newest[i] \in x.listed
    BY <1>1, <1>4, <1>8, RangeRead DEF page
  <1>9. CASE page.next # NoDate
    <2>1. PICK w : w = [x EXCEPT !.token = page.next]
      OBVIOUS
    <2>2. op' = w
      BY <1>3, <1>9, <2>1 DEF ListPage, page
    <2>3. /\ Whole(w) /\ Kept(w, op) /\ w.listed = x.listed /\ w.pages = x.pages
          /\ w.profile = op.profile /\ w.range = op.range /\ w.token = page.next
      BY <1>4, <2>1 DEF Whole, Kept
    <2>4. page.next \in Nat
      BY <1>1, <1>9, PageIds DEF page
    <2>5. ASSUME NEW i \in DOMAIN Newest, Awaited(i), Passed(i, w, state)
          PROVE  Newest[i] \in w.listed
      <3>1. w.user = op.user /\ Head(w.windows) = Window
        BY <2>3 DEF Kept, Window
      <3>2. \/ Before(i)
            \/ /\ Approval[Newest[i]].code = Profiles[op.profile]
               /\ Approval[Newest[i]].created \in Ranges(Window)[op.range]
               /\ Rank(Places(Newest, InRange(op.profile, op.range, op.user, Window, state)), i)
                    <= page.next
        BY <2>3, <2>5, <3>1 DEF Passed
      <3>3. CASE Before(i)
        BY <1>4, <1>7, <2>3, <2>5, <3>3
      <3>4. CASE ~Before(i)
        BY <1>1, <1>4, <2>3, <2>5, <3>2, <3>4, RangeRead DEF page
      <3> QED
        BY <3>3, <3>4
    <2>6. /\ w.pages \in 0..MaxPages /\ w.profile \in 1..(Len(Profiles) + 1) /\ w.token \in Nat
          /\ w.range \in DOMAIN Ranges(Window)
          /\ w.profile > Len(Profiles) => w.range = 1 /\ w.token = 0
          /\ w.listed = op.listed \cup Ids(page)
      BY <1>4, <1>5, <1>6, <2>3, <2>4
    <2>7. Working(w, state)
      BY <1>1, <2>3, <2>5, <2>6, PageTaken DEF page
    <2> QED
      BY <1>1, <2>2, <2>7 DEF IInv
  <1>10. CASE page.next = NoDate /\ op.range # n
    <2>1. PICK w : w = [x EXCEPT !.range = @ + 1, !.token = 0]
      OBVIOUS
    <2>2. op' = w
      BY <1>3, <1>10, <2>1 DEF ListPage, page
    <2>3. /\ Whole(w) /\ Kept(w, op) /\ w.listed = x.listed /\ w.pages = x.pages
          /\ w.profile = op.profile /\ w.range = op.range + 1 /\ w.token = 0
      BY <1>4, <2>1 DEF Whole, Kept
    <2>4. ASSUME NEW i \in DOMAIN Newest, Awaited(i), Passed(i, w, state)
          PROVE  Newest[i] \in w.listed
      <3>1. w.user = op.user /\ Head(w.windows) = Window /\ w.asked = op.asked
        BY <2>3 DEF Kept, Window
      <3>2. PICK p \in DOMAIN Profiles :
              /\ Approval[Newest[i]].code = Profiles[p]
              /\ \/ p < w.profile
                 \/ p = w.profile /\ \E r \in DOMAIN Ranges(Window) :
                      Approval[Newest[i]].created \in Ranges(Window)[r] /\ r < w.range
        BY <1>2, <2>3, <2>4, <3>1, RangeBegins
      <3>3. \/ Before(i)
            \/ /\ Approval[Newest[i]].code = Profiles[op.profile]
               /\ Approval[Newest[i]].created \in Ranges(Window)[op.range]
        BY <1>6, <2>3, <3>2
      <3>4. CASE Before(i)
        BY <1>4, <1>7, <2>3, <2>4, <3>4
      <3>5. CASE ~Before(i)
        BY <1>8, <1>10, <2>3, <2>4, <3>3, <3>5
      <3> QED
        BY <3>4, <3>5
    <2>5. /\ w.pages \in 0..MaxPages /\ w.profile \in 1..(Len(Profiles) + 1) /\ w.token \in Nat
          /\ w.range \in DOMAIN Ranges(Window)
          /\ w.profile > Len(Profiles) => w.range = 1 /\ w.token = 0
          /\ w.listed = op.listed \cup Ids(page)
      BY <1>4, <1>5, <1>6, <1>10, <2>3
    <2>6. Working(w, state)
      BY <1>1, <2>3, <2>4, <2>5, PageTaken DEF page
    <2> QED
      BY <1>1, <2>2, <2>6 DEF IInv
  <1>11. CASE page.next = NoDate /\ op.range = n
    <2>1. PICK w : w = [x EXCEPT !.profile = @ + 1, !.range = 1, !.token = 0, !.pages = 0]
      OBVIOUS
    <2>2. op' = w
      BY <1>3, <1>11, <2>1 DEF ListPage, page
    <2>3. /\ Whole(w) /\ Kept(w, op) /\ w.listed = x.listed /\ w.pages = 0
          /\ w.profile = op.profile + 1 /\ w.range = 1 /\ w.token = 0
      BY <1>4, <2>1 DEF Whole, Kept
    <2>4. ASSUME NEW i \in DOMAIN Newest, Awaited(i), Passed(i, w, state)
          PROVE  Newest[i] \in w.listed
      <3>1. w.user = op.user /\ Head(w.windows) = Window /\ w.asked = op.asked
        BY <2>3 DEF Kept, Window
      <3>2. PICK p \in DOMAIN Profiles :
              /\ Approval[Newest[i]].code = Profiles[p]
              /\ \/ p < w.profile
                 \/ p = w.profile /\ \E r \in DOMAIN Ranges(Window) :
                      Approval[Newest[i]].created \in Ranges(Window)[r] /\ r < w.range
        BY <1>2, <2>3, <2>4, <3>1, RangeBegins
      <3>3. p <= op.profile
        BY <1>5, <1>6, <2>3, <3>2, ApprovalsAssumption
      <3>4. PICK r \in 1..n : Approval[Newest[i]].created \in Ranges(Window)[r]
        BY <1>6, <2>4 DEF Mine, InWindow
      <3>5. \/ Before(i)
            \/ /\ Approval[Newest[i]].code = Profiles[op.profile]
               /\ Approval[Newest[i]].created \in Ranges(Window)[op.range]
        BY <1>5, <1>6, <1>11, <3>2, <3>3, <3>4, ApprovalsAssumption
      <3>6. CASE Before(i)
        BY <1>4, <1>7, <2>3, <2>4, <3>6
      <3>7. CASE ~Before(i)
        BY <1>8, <1>11, <2>3, <2>4, <3>5, <3>7
      <3> QED
        BY <3>6, <3>7
    <2>5. /\ w.pages \in 0..MaxPages /\ w.profile \in 1..(Len(Profiles) + 1) /\ w.token \in Nat
          /\ w.range \in DOMAIN Ranges(Window)
          /\ w.profile > Len(Profiles) => w.range = 1 /\ w.token = 0
          /\ w.listed = op.listed \cup Ids(page)
      BY <1>4, <1>5, <1>6, <2>3, LimitsAssumption
    <2>6. Working(w, state)
      BY <1>1, <2>3, <2>4, <2>5, PageTaken DEF page
    <2> QED
      BY <1>1, <2>2, <2>6 DEF IInv
  <1> QED
    BY <1>9, <1>10, <1>11

\* A window that has been listed to its end has every approval that was agreed when the
\* user asked.
LEMMA AllListed ==
  ASSUME IInv, op.at = "listing", op.profile > Len(Profiles)
  PROVE  \A a \in op.asked : Mine(a, op.user, Window) => a \in op.listed
  <1> TAKE a \in op.asked
  <1>1. Listing(op, state) /\ op.asked \subseteq AgreedIn(state)
    BY DEF IInv, Working
  <1>2. HAVE Mine(a, op.user, Window)
  <1>3. PICK i \in DOMAIN Newest : a = Newest[i]
    BY <1>2 DEF Mine, Approvals
  <1>4. PICK p \in DOMAIN Profiles : Approval[a].code = Profiles[p]
    BY <1>2 DEF Mine, Configured
  <1>5. p < op.profile
    <2>1. Len(Profiles) \in Nat /\ p \in 1..Len(Profiles)
      BY ApprovalsAssumption
    <2>2. op.profile \in 1..(Len(Profiles) + 1)
      BY DEF IInv, Working, Limits
    <2> QED
      BY <2>1, <2>2
  <1>6. Passed(i, op, state)
    BY <1>3, <1>4, <1>5 DEF Passed
  <1> QED
    BY <1>1, <1>2, <1>3, <1>6 DEF Listing, Window

\* The picks of the window that is listed are what they were picked as.
LEMMA PicksProven ==
  ASSUME IInv, op.at = "listing", op.kind = "verify", Members, NEW i \in DOMAIN op.picks,
         op.picks[i].window = Window
  PROVE  Vouched(op.picks[i], op.user)
  <1>1. ListedRight(op)
    BY DEF IInv, Working, Listing
  <1>2. op.picks[i].id \in op.listed /\ Approval[op.picks[i].id].code = op.picks[i].code
    BY DEF Members, Proven
  <1> QED
    BY <1>1, <1>2 DEF ListedRight, Vouched, Window

\* A selection has as many approvals as are picked, at most.
LEMMA SelectionFits ==
  ASSUME NEW picks \in Picks \cup {<<>>}
  PROVE  Cardinality({picks[i].id : i \in DOMAIN picks}) <= MaxListed
  <1>1. DOMAIN picks = 1..Len(picks) /\ Len(picks) \in 0..MaxListed
    <2>1. CASE picks \in Picks
      BY <2>1, RequestsAssumption
    <2>2. CASE picks = <<>>
      <3>1. DOMAIN picks = 1..0 /\ Len(picks) = 0 /\ 0 \in 0..MaxListed
        BY <2>2, LimitsAssumption
      <3> QED
        BY <3>1
    <2> QED
      BY <2>1, <2>2
  <1>2. MaxListed \in Nat /\ Len(picks) \in Nat
    BY <1>1, LimitsAssumption
  <1>3. IsFiniteSet(DOMAIN picks) /\ Cardinality(DOMAIN picks) = Len(picks)
    <2> DEFINE m == Len(picks)
    <2>1. m \in Nat
      BY <1>2
    <2> HIDE DEF m
    <2>2. IsFiniteSet(1..m) /\ Cardinality(1..m) = m
      BY <2>1, FS_Interval
    <2> QED
      BY <1>1, <2>2 DEF m
  <1> DEFINE f == [i \in DOMAIN picks |-> picks[i].id]
             T == {f[i] : i \in DOMAIN f}
  <1>4. IsFiniteSet(DOMAIN f) /\ Cardinality(DOMAIN f) = Len(picks)
    BY <1>3
  <1>5. T = {picks[i].id : i \in DOMAIN picks}
    OBVIOUS
  <1>6. Cardinality(T) \in Nat /\ Cardinality(T) <= Len(picks)
    <2> HIDE DEF f
    <2> QED
      BY <1>4, RangeFinite
  <1> HIDE DEF T
  <1> QED
    BY <1>1, <1>2, <1>5, <1>6

LEMMA ListedStep ==
  ASSUME IInv, Listed
  PROVE  IInv'
  <1>1. op.at = "listing" /\ op.profile > Len(Profiles) /\ UNCHANGED state
    BY DEF Listed
  <1>2. /\ Whole(op) /\ Limits(op) /\ Listing(op, state) /\ op.asked \subseteq AgreedIn(state)
        /\ op.kind # "none" /\ op.seen = <<>> /\ (op.kind = "diagnose" => op.target \in Targets)
    BY <1>1 DEF IInv, Working
  <1>3. DOMAIN <<>> = {}
    OBVIOUS
  <1>4. CASE op.kind # "verify"
    <2>1. PICK w : w = [op EXCEPT !.at = "reading"]
      OBVIOUS
    <2>2. op' = w
      BY <1>4, <2>1 DEF Listed
    <2>3. /\ Whole(w) /\ w.at = "reading" /\ w.kind = op.kind /\ w.user = op.user
          /\ w.windows = op.windows /\ w.picks = op.picks /\ w.target = op.target
          /\ w.asked = op.asked /\ w.profile = op.profile /\ w.range = op.range
          /\ w.token = op.token /\ w.pages = op.pages /\ w.listed = op.listed
          /\ w.seen = op.seen /\ w.candidates = op.candidates /\ w.queue = op.queue
          /\ w.visited = op.visited
      BY <1>2, <2>1 DEF Whole
    <2>4. Limits(w)
      BY <1>2, <2>3 DEF Limits
    <2>5. ReadRight(w, state)
      BY <1>2, <1>3, <2>3 DEF ReadRight
    <2>6. ListedRight(w) /\ \A a \in w.asked : Mine(a, w.user, Head(w.windows)) => a \in w.listed
      BY <1>1, <1>2, <2>3, AllListed DEF Listing, ListedRight, Window
    <2>7. Reading(w, state)
      BY <1>4, <2>3, <2>5, <2>6 DEF Reading
    <2>8. Working(w, state)
      BY <1>2, <2>3, <2>4, <2>7 DEF Working
    <2> QED
      BY <1>1, <2>2, <2>8 DEF IInv
  <1>5. CASE op.kind = "verify" /\ ~Members
    BY <1>1, <1>5, GivesUp DEF Listed
  <1>6. CASE op.kind = "verify" /\ Members /\ Len(op.windows) = 1
    <2> DEFINE ids == {op.picks[i].id : i \in DOMAIN op.picks}
    <2>1. PICK w : w = [op EXCEPT !.at = "reading", !.listed = ids]
      OBVIOUS
    <2>2. op' = w
      BY <1>6, <2>1 DEF Listed
    <2>3. /\ Whole(w) /\ w.at = "reading" /\ w.kind = "verify" /\ w.user = op.user
          /\ w.windows = op.windows /\ w.picks = op.picks /\ w.target = op.target
          /\ w.asked = op.asked /\ w.profile = op.profile /\ w.range = op.range
          /\ w.token = op.token /\ w.pages = op.pages /\ w.listed = ids
          /\ w.seen = op.seen /\ w.candidates = op.candidates /\ w.queue = op.queue
          /\ w.visited = op.visited
      BY <1>2, <1>6, <2>1 DEF Whole
    <2>4. ASSUME NEW i \in DOMAIN op.picks
          PROVE  Vouched(op.picks[i], op.user)
      <3>1. CASE op.picks[i].window = Window
        BY <1>1, <1>6, <3>1, PicksProven
      <3>2. CASE op.picks[i].window # Window
        <4>1. \A k \in DOMAIN op.windows : op.windows[k] = Window
          BY <1>2, <1>6 DEF Listing, Window
        <4> QED
          BY <1>2, <1>6, <3>2, <4>1 DEF Listing
      <3> QED
        BY <3>1, <3>2
    <2>5. ids \subseteq Approvals
      BY <2>4 DEF Vouched, Mine
    <2>6. Cardinality(ids) <= MaxListed
      BY <1>2, SelectionFits DEF Limits
    <2>7. Limits(w)
      BY <1>2, <2>3, <2>5, <2>6 DEF Limits
    <2>8. ReadRight(w, state)
      BY <1>2, <1>3, <2>3 DEF ReadRight
    <2>9. Reading(w, state)
      BY <2>3, <2>4, <2>8 DEF Reading
    <2>10. Working(w, state)
      BY <1>2, <2>3, <2>7, <2>9 DEF Working
    <2> QED
      BY <1>1, <2>2, <2>10 DEF IInv
  <1>7. CASE op.kind = "verify" /\ Members /\ Len(op.windows) # 1
    <2>0. PICK rest : rest = Tail(op.windows)
      OBVIOUS
    <2>1. PICK w : w = [op EXCEPT !.windows = rest, !.listed = {}, !.profile = 1]
      OBVIOUS
    <2>2. op' = w
      BY <1>7, <2>0, <2>1 DEF Listed
    <2>3. /\ Whole(w) /\ w.at = "listing" /\ w.kind = "verify" /\ w.user = op.user
          /\ w.windows = rest /\ w.picks = op.picks /\ w.target = op.target
          /\ w.asked = op.asked /\ w.profile = 1 /\ w.range = op.range
          /\ w.token = op.token /\ w.pages = op.pages /\ w.listed = {}
          /\ w.seen = op.seen /\ w.candidates = op.candidates /\ w.queue = op.queue
          /\ w.visited = op.visited
      BY <1>1, <1>2, <1>7, <2>1 DEF Whole
    <2>4. op.range = 1 /\ op.token = 0
      BY <1>1, <1>2 DEF Listing
    <2>5. DOMAIN op.windows = 1..Len(op.windows) /\ Len(op.windows) \in Nat /\ Len(op.windows) > 1
      <3>1. DOMAIN op.windows = 1..Len(op.windows) /\ Len(op.windows) \in Nat \ {0}
        BY <1>2 DEF Listing
      <3>2. \A n \in Nat \ {0} : n # 1 => n > 1
        OBVIOUS
      <3> QED
        BY <1>7, <3>1, <3>2
    <2>6. /\ DOMAIN w.windows = 1..(Len(op.windows) - 1) /\ Len(w.windows) = Len(op.windows) - 1
          /\ \A k \in 1..(Len(op.windows) - 1) : w.windows[k] = op.windows[k + 1]
      BY <2>0, <2>3, <2>5
    <2>7. Len(w.windows) \in Nat \ {0} /\ DOMAIN w.windows = 1..Len(w.windows)
      BY <2>5, <2>6
    <2>8. \A k \in DOMAIN w.windows : k + 1 \in DOMAIN op.windows /\ w.windows[k] = op.windows[k + 1]
      BY <2>5, <2>6
    <2>9. \A k \in DOMAIN w.windows : w.windows[k].from \in Int /\ w.windows[k].to \in Int
      BY <1>2, <2>8 DEF Listing
    <2>10. ASSUME NEW i \in DOMAIN w.picks
           PROVE  (\E k \in DOMAIN w.windows : w.windows[k] = w.picks[i].window)
                  \/ Vouched(w.picks[i], w.user)
      <3>1. CASE w.picks[i].window = Window
        BY <1>1, <1>7, <2>3, <3>1, PicksProven
      <3>2. CASE ~Vouched(w.picks[i], w.user) /\ w.picks[i].window # Window
        <4>1. PICK k \in DOMAIN op.windows : op.windows[k] = w.picks[i].window
          BY <1>2, <1>7, <2>3, <3>2 DEF Listing
        <4>2. k # 1
          BY <2>5, <3>2, <4>1 DEF Window
        <4>3. k - 1 \in DOMAIN w.windows /\ w.windows[k - 1] = op.windows[k]
          BY <2>5, <2>6, <4>2
        <4> QED
          BY <4>1, <4>3
      <3> QED
        BY <3>1, <3>2
    <2>11. Limits(w)
      <3>1. Cardinality({}) = 0 /\ Len(Profiles) \in Nat /\ MaxListed \in Nat
        BY FS_EmptySet, ApprovalsAssumption, LimitsAssumption
      <3>2. w.profile \in 1..(Len(Profiles) + 1) /\ Cardinality(w.listed) <= MaxListed
            /\ w.listed \subseteq Approvals
        BY <2>3, <3>1
      <3> QED
        BY <1>2, <2>3, <3>2 DEF Limits
    <2>12. Starts(w, state)
      BY <1>2, <2>3, <2>4, <2>7, <2>9, <2>10, <2>11 DEF Starts
    <2>13. Working(w, state)
      BY <2>12, ListStarts
    <2> QED
      BY <1>1, <2>2, <2>13 DEF IInv
  <1> QED
    BY <1>4, <1>5, <1>6, <1>7

-----------------------------------------------------------------------------
(* Details, and what is made of them *)

\* Where a request goes on with the same list.
Onward(u, w) ==
  /\ u.kind = w.kind /\ u.user = w.user /\ u.keyword = w.keyword /\ u.windows = w.windows
  /\ u.picks = w.picks /\ u.asked = w.asked /\ u.listed = w.listed

LEMMA DetailsRead ==
  ASSUME NEW w, NEW u, NEW s, ReadRight(w, s), u.asked = w.asked, w.asked \subseteq AgreedIn(s),
         \A a \in DOMAIN u.seen : u.seen[a] = s[a] \/ (a \in DOMAIN w.seen /\ u.seen[a] = w.seen[a])
  PROVE  ReadRight(u, s)
  BY DEF ReadRight, AgreedIn

LEMMA ReadingKept ==
  ASSUME NEW w, NEW u, NEW s, Reading(w, s), ReadRight(u, s), Onward(u, w)
  PROVE  Reading(u, s)
  BY DEF Reading, ListedRight, Onward

LEMMA ReadStep ==
  ASSUME IInv, NEW a \in Approvals, Read(a)
  PROVE  IInv'
  <1> DEFINE seen == [b \in DOMAIN op.seen \cup {a} |-> IF b = a THEN state[a] ELSE op.seen[b]]
  <1>1. op.at = "reading" /\ UNCHANGED state
    BY DEF Read
  <1>2. Whole(op) /\ Limits(op) /\ Reading(op, state) /\ op.asked \subseteq AgreedIn(state)
        /\ (op.kind = "diagnose" => op.target \in Targets)
    BY <1>1 DEF IInv, Working
  <1>3. PICK w : w = [op EXCEPT !.seen = seen]
    OBVIOUS
  <1>4. op' = w
    BY <1>3 DEF Read
  <1>5. DOMAIN seen = DOMAIN op.seen \cup {a}
        /\ \A b \in DOMAIN seen : seen[b] = state[b] \/ (b \in DOMAIN op.seen /\ seen[b] = op.seen[b])
    OBVIOUS
  <1> HIDE DEF seen
  <1>6. /\ Whole(w) /\ Onward(w, op) /\ w.at = "reading" /\ w.target = op.target
        /\ w.profile = op.profile /\ w.range = op.range /\ w.token = op.token
        /\ w.pages = op.pages /\ w.seen = seen /\ w.candidates = op.candidates
        /\ w.queue = op.queue /\ w.visited = op.visited
    BY <1>1, <1>2, <1>3 DEF Whole, Onward
  <1>7. Limits(w)
    BY <1>2, <1>5, <1>6 DEF Limits, Onward
  <1>8. ReadRight(w, state)
    BY <1>2, <1>5, <1>6, DetailsRead DEF Reading, Onward
  <1>9. Reading(w, state)
    BY <1>2, <1>6, <1>8, ReadingKept
  <1>10. Working(w, state)
    BY <1>2, <1>6, <1>7, <1>9 DEF Working, Onward
  <1> QED
    BY <1>1, <1>4, <1>10 DEF IInv

LEMMA JudgedFields ==
  ASSUME NEW a
  PROVE  LET j == Judged(a)
             code == Approval[a].code
             values == Approval[a].values
         IN /\ j.dates = TripDates(code, values)
            /\ j.type = TypeOption(code, values).option /\ j.own = TypeOption(code, values).own
            /\ j.company = AccountingOption(code, values, "company", CompanyOptions)
            /\ j.budget = AccountingOption(code, values, "budgetCode", BudgetOptions)
            /\ j.selectable => j.company # Nothing /\ j.budget # Nothing
            /\ j.rejection = "none" <=> /\ Approval[a].owner = op.user /\ op.seen[a] = "agree"
                                        /\ j.dates # Nothing
  <1> DEFINE code == Approval[a].code
             values == Approval[a].values
             dates == TripDates(code, values)
             type == TypeOption(code, values)
             company == AccountingOption(code, values, "company", CompanyOptions)
             budget == AccountingOption(code, values, "budgetCode", BudgetOptions)
             j == Judged(a)
  <1>1. /\ j.dates = dates /\ j.type = type.option /\ j.own = type.own
        /\ j.company = company /\ j.budget = budget
        /\ j.selectable = (company # Nothing /\ budget # Nothing /\ type.option # Nothing)
        /\ j.rejection = IF Approval[a].owner # op.user THEN "ORIGINATOR_MISMATCH"
                         ELSE IF op.seen[a] \notin Finished THEN "NOT_COMPLETED"
                         ELSE IF op.seen[a] # "agree" THEN "NOT_AGREED"
                         ELSE IF dates = Nothing THEN "DATE_FIELDS_INVALID" ELSE "none"
    BY DEF Judged, Judgement
  <1> HIDE DEF j, dates, type, company, budget
  <1>2. j.rejection = "none" <=> /\ Approval[a].owner = op.user /\ op.seen[a] = "agree"
                                 /\ j.dates # Nothing
    BY <1>1 DEF Finished
  <1> QED
    BY <1>1, <1>2 DEF j, dates, type, company, budget

\* When all is read, the candidates are those the user should be offered.
LEMMA CandidatesRight ==
  ASSUME IInv, AllRead, op.kind # "verify"
  PROVE  Right(Candidates, op, state) /\ Candidates \subseteq op.listed
  <1>1. /\ Reading(op, state) /\ Limits(op) /\ op.listed \subseteq DOMAIN op.seen
        /\ op.asked \subseteq AgreedIn(state)
    BY DEF IInv, Working, AllRead
  <1>2. ASSUME NEW a \in Approvals, Due(a, op)
        PROVE  a \in Candidates
    <2>1. /\ a \in op.asked /\ Mine(a, op.user, Head(op.windows))
          /\ TripDates(Approval[a].code, Approval[a].values) # Nothing
      BY <1>2 DEF Due, Eligible, Mine
    <2>2. a \in op.listed /\ a \in DOMAIN op.seen
      BY <1>1, <2>1 DEF Reading
    <2>3. op.seen[a] = "agree"
      BY <1>1, <2>1, <2>2 DEF Reading, ReadRight
    <2>4. Judged(a).rejection = "none"
      BY <2>1, <2>3, JudgedFields DEF Mine
    <2> QED
      BY <1>2, <2>2, <2>4 DEF Candidates, MatchesQuery, Due, Fits
  <1>3. ASSUME NEW a \in Candidates
        PROVE  Eligible(a, AgreedIn(state), op.user, Head(op.windows)) /\ Fits(a, op)
    <2>1. /\ a \in op.listed /\ a \in DOMAIN op.seen /\ Judged(a).rejection = "none"
          /\ MatchesQuery(a)
      BY <1>1 DEF Candidates
    <2>2. op.seen[a] = "agree" /\ TripDates(Approval[a].code, Approval[a].values) # Nothing
      BY <2>1, JudgedFields
    <2>3. state[a] = "agree"
      BY <1>1, <2>1, <2>2 DEF Reading, ReadRight, Finished
    <2>4. Mine(a, op.user, Head(op.windows))
      BY <1>1, <2>1 DEF Reading, ListedRight
    <2> QED
      BY <2>1, <2>2, <2>3, <2>4 DEF Mine, Eligible, AgreedIn, Fits, MatchesQuery
  <1> QED
    BY <1>2, <1>3 DEF Right, Candidates

LEMMA AnswerStep ==
  ASSUME IInv, Answer
  PROVE  IInv'
  <1>1. AllRead /\ op.kind = "browse" /\ UNCHANGED state
    BY DEF Answer
  <1>2. Whole(op) /\ Limits(op) /\ op.asked \subseteq AgreedIn(state)
    BY DEF IInv, Working
  <1>3. Right(Candidates, op, state)
    BY <1>1, CandidatesRight
  <1>4. PICK set : set = Candidates
    OBVIOUS
  <1>5. PICK w : w = [op EXCEPT !.at = "answered", !.answer = set]
    OBVIOUS
  <1>6. op' = w
    BY <1>4, <1>5 DEF Answer
  <1>7. /\ Whole(w) /\ Onward(w, op) /\ w.at = "answered" /\ w.kind = "browse" /\ w.answer = set
        /\ w.profile = op.profile /\ w.range = op.range /\ w.token = op.token
        /\ w.pages = op.pages /\ w.seen = op.seen /\ w.candidates = op.candidates
        /\ w.queue = op.queue /\ w.visited = op.visited
    BY <1>1, <1>2, <1>5 DEF Whole, Onward
  <1>8. Limits(w)
    BY <1>2, <1>7 DEF Limits, Onward
  <1>9. Right(set, w, state)
    BY <1>3, <1>4, <1>7 DEF Right, Due, Fits, Onward
  <1>10. Answered(w, state)
    BY <1>7, <1>9 DEF Answered
  <1>11. Working(w, state)
    BY <1>2, <1>7, <1>8, <1>10 DEF Working, Onward
  <1> QED
    BY <1>1, <1>6, <1>11 DEF IInv

\* What the answer to a verified selection is made of.
Selected == {Judged(a) : a \in op.listed}
Unanimous ==
  /\ \A j \in Selected : j.rejection = "none" /\ j.selectable
  /\ Cardinality({Approval[a].department : a \in op.listed}) = 1 /\ Agree(Selected)

\* Of each approval selected: it is the user's, agreed, and filed in its window.
LEMMA SelectedRight ==
  ASSUME IInv, AllRead, op.kind = "verify", Unanimous, NEW i \in DOMAIN op.picks
  PROVE  LET p == op.picks[i] IN
         /\ p.id \in op.listed /\ p.id \in Approvals /\ Approval[p.id].code \in Configured
         /\ Judged(p.id) \in Selected /\ Approval[p.id].code = p.code
         /\ Eligible(p.id, AgreedIn(state), op.user, p.window)
  <1> DEFINE p == op.picks[i]
  <1>1. Reading(op, state) /\ op.listed \subseteq DOMAIN op.seen
    BY DEF IInv, Working, AllRead
  <1>2. p.id \in op.listed /\ Vouched(p, op.user)
    BY <1>1 DEF Reading
  <1>3. Judged(p.id) \in Selected /\ Judged(p.id).rejection = "none"
    BY <1>2 DEF Selected, Unanimous
  <1>4. op.seen[p.id] = "agree" /\ TripDates(Approval[p.id].code, Approval[p.id].values) # Nothing
    BY <1>3, JudgedFields
  <1>5. p.id \in AgreedIn(state)
    BY <1>1, <1>2, <1>4 DEF Reading, ReadRight, Finished, AgreedIn, Vouched, Mine
  <1> QED
    BY <1>2, <1>3, <1>4, <1>5 DEF Vouched, Mine, Eligible

\* They are all of one department and one kind of trip.
LEMMA SelectedAlike ==
  ASSUME IInv, AllRead, op.kind = "verify", Unanimous, NEW a \in op.listed, NEW b \in op.listed
  PROVE  /\ Approval[a].department = Approval[b].department
         /\ SameType(a, b)
  <1> DEFINE f == [x \in op.listed |-> Approval[x].department]
             T == {f[x] : x \in DOMAIN f}
  <1>1. op.listed \subseteq Approvals
    BY DEF IInv, Working, Limits
  <1>2. IsFiniteSet(op.listed)
    BY <1>1, OrderFinite, FS_Subset
  <1>3. IsFiniteSet(T)
    BY <1>2, RangeFinite
  <1>4. T = {Approval[x].department : x \in op.listed}
    OBVIOUS
  <1>5. PICK d : T = {d}
    <2> HIDE DEF T
    <2> QED
      BY <1>3, <1>4, FS_Singleton DEF Unanimous
  <1>6. Approval[a].department = Approval[b].department
    BY <1>4, <1>5
  <1>7. Judged(a).type.value = Judged(b).type.value /\ Judged(a).own = Judged(b).own
    BY DEF Unanimous, Agree, Selected
  <1>8. \A x \in {a, b} :
          /\ TypeOption(Approval[x].code, Approval[x].values).option = Judged(x).type
          /\ TypeOption(Approval[x].code, Approval[x].values).own = Judged(x).own
    BY JudgedFields
  <1> QED
    BY <1>6, <1>7, <1>8 DEF SameType

\* The dates answered cover the days of every one.
LEMMA SelectedCovered ==
  ASSUME IInv, AllRead, op.kind = "verify", Unanimous, NEW i \in DOMAIN op.picks,
         NEW day \in Approval[op.picks[i].id].days
  PROVE  LET starts == {j.dates[1] : j \in Selected}
             ends == {j.dates[2] : j \in Selected}
         IN day \in (CHOOSE d \in starts : \A e \in starts : d <= e)..
                    (CHOOSE d \in ends : \A e \in ends : d >= e)
  <1> DEFINE dates(a) == TripDates(Approval[a].code, Approval[a].values)
             f == [a \in op.listed |-> dates(a)[1]]
             g == [a \in op.listed |-> dates(a)[2]]
             starts == {f[a] : a \in DOMAIN f}
             ends == {g[a] : a \in DOMAIN g}
             start == CHOOSE d \in starts : \A e \in starts : d <= e
             end == CHOOSE d \in ends : \A e \in ends : d >= e
             id == op.picks[i].id
  <1>1. /\ starts = {j.dates[1] : j \in Selected}
        /\ ends = {j.dates[2] : j \in Selected}
    <2>1. \A a : Judged(a).dates = dates(a)
      BY JudgedFields
    <2>2. /\ {j.dates[1] : j \in Selected} = {Judged(a).dates[1] : a \in op.listed}
          /\ {j.dates[2] : j \in Selected} = {Judged(a).dates[2] : a \in op.listed}
      BY DEF Selected
    <2> HIDE DEF dates
    <2>3. starts = {dates(a)[1] : a \in op.listed} /\ ends = {dates(a)[2] : a \in op.listed}
      OBVIOUS
    <2> QED
      BY <2>1, <2>2, <2>3
  <1>2. \A a \in op.listed : dates(a)[1] \in Int /\ dates(a)[2] \in Int
    <2> TAKE a \in op.listed
    <2>1. PICK k \in DOMAIN op.picks : op.picks[k].id = a
      BY DEF IInv, Working, AllRead, Reading
    <2>2. a \in Approvals /\ Approval[a].code \in Configured /\ dates(a) # Nothing
      BY <2>1, SelectedRight DEF Eligible
    <2> QED
      BY <2>2, TripCovers
  <1>3. id \in op.listed /\ day \in dates(id)[1]..dates(id)[2]
    <2>1. /\ id \in op.listed /\ id \in Approvals /\ Approval[id].code \in Configured
          /\ dates(id) # Nothing
      BY SelectedRight DEF Eligible
    <2> QED
      BY <2>1, TripCovers
  <1>4. IsFiniteSet(op.listed)
    BY OrderFinite, FS_Subset DEF IInv, Working, Limits
  <1>5. IsFiniteSet(starts) /\ IsFiniteSet(ends)
    <2>1. IsFiniteSet(DOMAIN f) /\ IsFiniteSet(DOMAIN g)
      BY <1>4
    <2> HIDE DEF f, g
    <2> QED
      BY <2>1, RangeFinite
  <1>6. starts \in SUBSET Int /\ ends \in SUBSET Int
    BY <1>2
  <1>7. dates(id)[1] \in starts /\ dates(id)[2] \in ends
    BY <1>3
  <1> HIDE DEF starts, ends, dates
  <1>8. start \in starts /\ \A d \in starts : start <= d
    BY <1>5, <1>6, <1>7, Extremes
  <1>9. end \in ends /\ \A d \in ends : end >= d
    BY <1>5, <1>6, <1>7, Extremes
  <1> HIDE DEF start, end
  <1>10. day \in start..end
    <2>1. start \in Int /\ end \in Int /\ dates(id)[1] \in Int /\ dates(id)[2] \in Int
      BY <1>6, <1>7, <1>8, <1>9
    <2>2. start <= dates(id)[1] /\ end >= dates(id)[2]
      BY <1>7, <1>8, <1>9
    <2>3. day \in Int /\ dates(id)[1] <= day /\ day <= dates(id)[2]
      BY <1>3, <2>1
    <2> QED
      BY <2>1, <2>2, <2>3
  <1> QED
    BY <1>1, <1>10 DEF start, end

\* The company and the budget answered are what an approver saw of every one.
LEMMA SelectedCharged ==
  ASSUME IInv, AllRead, op.kind = "verify", Unanimous, NEW i \in DOMAIN op.picks,
         NEW one \in Selected
  PROVE  LET id == op.picks[i].id IN
         /\ {one.company.label, one.company.value} \cap Shown(id, "company") # {}
         /\ {Squeezed[one.budget.label], Squeezed[one.budget.value]}
              \cap {Squeezed[t] : t \in Shown(id, "budgetCode")} # {}
  <1> DEFINE id == op.picks[i].id
             j == Judged(id)
             code == Approval[id].code
             values == Approval[id].values
  <1>1. id \in Approvals /\ code \in Configured /\ j \in Selected
    BY SelectedRight
  <1>2. j.company = one.company /\ j.budget = one.budget /\ j.selectable
    BY <1>1 DEF Unanimous, Agree
  <1>3. /\ j.company = AccountingOption(code, values, "company", CompanyOptions)
        /\ j.budget = AccountingOption(code, values, "budgetCode", BudgetOptions)
        /\ j.company # Nothing /\ j.budget # Nothing
    BY <1>2, JudgedFields
  <1>4. IsFiniteSet(CompanyOptions) /\ IsFiniteSet(BudgetOptions)
    BY OptionsAssumption
  <1>5. /\ Match("company", Shown(id, "company"), j.company)
        /\ Match("budgetCode", Shown(id, "budgetCode"), j.budget)
    BY <1>1, <1>3, <1>4, AccountedAsShown
  <1>6. Shown(id, "company") \cap {one.company.value, one.company.label} # {}
    BY <1>2, <1>5 DEF Match
  <1>7. {Squeezed[t] : t \in Shown(id, "budgetCode")}
          \cap {Squeezed[one.budget.value], Squeezed[one.budget.label]} # {}
    BY <1>2, <1>5 DEF Match
  <1> QED
    BY <1>6, <1>7

LEMMA VerifiedStep ==
  ASSUME IInv, Verified
  PROVE  IInv'
  <1> DEFINE starts == {j.dates[1] : j \in Selected}
             ends == {j.dates[2] : j \in Selected}
             one == CHOOSE j \in Selected : TRUE
             made == [company |-> one.company, budget |-> one.budget, type |-> one.type,
                      start |-> CHOOSE d \in starts : \A e \in starts : d <= e,
                      end |-> CHOOSE d \in ends : \A e \in ends : d >= e]
  <1>1. /\ AllRead /\ op.kind = "verify" /\ UNCHANGED state
        /\ op' = IF Unanimous THEN [op EXCEPT !.at = "answered", !.answer = made] ELSE Idle
    BY DEF Verified, Selected, Unanimous
  <1> HIDE DEF made
  <1>2. CASE ~Unanimous
    BY <1>1, <1>2, GivesUp
  <1>3. CASE Unanimous
    <2>1. Whole(op) /\ Limits(op) /\ op.asked \subseteq AgreedIn(state)
      BY DEF IInv, Working
    <2>2. PICK w : w = [op EXCEPT !.at = "answered", !.answer = made]
      OBVIOUS
    <2>3. op' = w
      BY <1>1, <1>3, <2>2
    <2>4. /\ Whole(w) /\ Onward(w, op) /\ w.at = "answered" /\ w.kind = "verify"
          /\ w.answer = made
          /\ w.profile = op.profile /\ w.range = op.range /\ w.token = op.token
          /\ w.pages = op.pages /\ w.seen = op.seen /\ w.candidates = op.candidates
          /\ w.queue = op.queue /\ w.visited = op.visited
      BY <1>1, <2>1, <2>2 DEF Whole, Onward
    <2>5. Limits(w)
      BY <2>1, <2>4 DEF Limits, Onward
    <2>6. w.picks = op.picks /\ w.user = op.user
      BY <2>4 DEF Onward
    <2>7. /\ made.start = CHOOSE d \in starts : \A e \in starts : d <= e
          /\ made.end = CHOOSE d \in ends : \A e \in ends : d >= e
          /\ made.company = one.company /\ made.budget = one.budget
      BY DEF made
    <2>8. OneTrip(w, state)
      <3> SUFFICES ASSUME NEW i \in DOMAIN op.picks, NEW k \in DOMAIN op.picks
                   PROVE  LET p == op.picks[i]
                              a == Approval[p.id]
                              b == Approval[op.picks[k].id]
                          IN /\ Eligible(p.id, AgreedIn(state), op.user, p.window)
                             /\ a.code = p.code /\ a.department = b.department
                             /\ SameType(p.id, op.picks[k].id)
                             /\ \A d \in a.days : d \in made.start..made.end
        BY <2>4, <2>6 DEF OneTrip
      <3>1. /\ op.picks[i].id \in op.listed /\ op.picks[k].id \in op.listed
            /\ Eligible(op.picks[i].id, AgreedIn(state), op.user, op.picks[i].window)
            /\ Approval[op.picks[i].id].code = op.picks[i].code
        BY <1>1, <1>3, SelectedRight
      <3>2. \A d \in Approval[op.picks[i].id].days : d \in made.start..made.end
        BY <1>1, <1>3, <2>7, SelectedCovered
      <3> QED
        BY <1>1, <1>3, <3>1, <3>2, SelectedAlike
    <2>9. Charged(w)
      <3> SUFFICES ASSUME NEW i \in DOMAIN op.picks
                   PROVE  LET id == op.picks[i].id IN
                     /\ {made.company.label, made.company.value} \cap Shown(id, "company") # {}
                     /\ {Squeezed[made.budget.label], Squeezed[made.budget.value]}
                          \cap {Squeezed[t] : t \in Shown(id, "budgetCode")} # {}
        BY <2>4, <2>6 DEF Charged
      <3>1. one \in Selected
        BY <1>1, <1>3, SelectedRight
      <3> HIDE DEF one
      <3> QED
        BY <1>1, <1>3, <2>7, <3>1, SelectedCharged
    <2>10. Answered(w, state)
      BY <2>4, <2>8, <2>9 DEF Answered
    <2>11. Working(w, state)
      BY <2>1, <2>4, <2>5, <2>10 DEF Working, Onward
    <2> QED
      BY <1>1, <2>3, <2>11 DEF IInv
  <1> QED
    BY <1>2, <1>3

-----------------------------------------------------------------------------
(* A diagnosis *)

LEMMA CandidateStep ==
  ASSUME IInv, Candidate
  PROVE  IInv'
  <1>1. AllRead /\ op.kind = "diagnose" /\ UNCHANGED state
    BY DEF Candidate
  <1>2. Whole(op) /\ Limits(op) /\ Reading(op, state) /\ op.asked \subseteq AgreedIn(state)
        /\ op.target \in Targets /\ op.listed \subseteq DOMAIN op.seen
    BY <1>1 DEF IInv, Working, AllRead
  <1>3. Right(Candidates, op, state) /\ Candidates \subseteq op.listed
    BY <1>1, CandidatesRight
  <1>4. PICK set : set = Candidates
    OBVIOUS
  <1>5. PICK w : w = [op EXCEPT !.at = "locating", !.candidates = set]
    OBVIOUS
  <1>6. op' = w
    BY <1>4, <1>5 DEF Candidate
  <1>7. /\ Whole(w) /\ Onward(w, op) /\ w.at = "locating" /\ w.candidates = set
        /\ w.target = op.target /\ w.profile = op.profile /\ w.range = op.range
        /\ w.token = op.token /\ w.pages = op.pages /\ w.seen = op.seen
        /\ w.queue = op.queue /\ w.visited = op.visited
    BY <1>2, <1>5 DEF Whole, Onward
  <1>8. Limits(w)
    BY <1>2, <1>3, <1>4, <1>7 DEF Limits, Onward
  <1>9. Right(set, w, state)
    BY <1>3, <1>4, <1>7 DEF Right, Due, Fits, Onward
  <1>10. Reading(w, state)
    BY <1>2, <1>7, ReadingKept DEF Reading, ReadRight, Onward
  <1>11. Locating(w, state)
    BY <1>1, <1>2, <1>7, <1>9, <1>10 DEF Locating, Onward
  <1>12. Working(w, state)
    BY <1>2, <1>7, <1>8, <1>11 DEF Working, Onward
  <1> QED
    BY <1>1, <1>6, <1>12 DEF IInv

\* What is located stays right while the approval is looked for.
LEMMA LocatingKept ==
  ASSUME NEW w, NEW u, NEW s, Locating(w, s), ReadRight(u, s), Onward(u, w),
         u.candidates = w.candidates, DOMAIN w.seen \subseteq DOMAIN u.seen
  PROVE  Locating(u, s)
  <1>1. Reading(u, s)
    BY ReadingKept DEF Locating
  <1>2. Right(u.candidates, u, s)
    BY DEF Locating, Right, Due, Fits, Onward
  <1> QED
    BY <1>1, <1>2 DEF Locating, Onward

\* An approval that was to be listed has been read.
LEMMA DueIsRead ==
  ASSUME NEW w, NEW s, Locating(w, s), NEW a \in Approvals, Due(a, w)
  PROVE  a \in w.listed /\ a \in DOMAIN w.seen
  BY DEF Locating, Reading, Due, Eligible, Mine

\* The approval has been found: it is to be judged.
LEMMA FoundWorks ==
  ASSUME IInv, op.at \in {"locating", "looking"}, UNCHANGED state, NEW target, NEW seen,
         op' = [op EXCEPT !.at = "judging", !.target = target, !.seen = seen],
         DOMAIN op.seen \subseteq DOMAIN seen, DOMAIN seen \subseteq Approvals,
         \A a \in DOMAIN seen : seen[a] = state[a] \/ (a \in DOMAIN op.seen /\ seen[a] = op.seen[a])
  PROVE  IInv'
  <1>1. Whole(op) /\ Limits(op) /\ Locating(op, state) /\ op.asked \subseteq AgreedIn(state)
    BY DEF IInv, Working
  <1>2. PICK w : w = [op EXCEPT !.at = "judging", !.target = target, !.seen = seen]
    OBVIOUS
  <1>3. /\ Whole(w) /\ Onward(w, op) /\ w.at = "judging" /\ w.candidates = op.candidates
        /\ w.profile = op.profile /\ w.range = op.range /\ w.token = op.token
        /\ w.pages = op.pages /\ w.seen = seen /\ w.queue = op.queue /\ w.visited = op.visited
    BY <1>1, <1>2 DEF Whole, Onward
  <1>4. Limits(w)
    BY <1>1, <1>3 DEF Limits, Onward
  <1>5. ReadRight(w, state)
    BY <1>1, <1>3, DetailsRead DEF Locating, Reading, Onward
  <1>6. Locating(w, state)
    BY <1>1, <1>3, <1>5, LocatingKept
  <1>7. Working(w, state)
    BY <1>1, <1>3, <1>4, <1>6 DEF Working, Onward
  <1> QED
    BY <1>2, <1>7 DEF IInv

\* It is nowhere: none that was to be listed is the one that was named.
LEMMA NotFoundWorks ==
  ASSUME IInv, op.at \in {"locating", "looking"}, UNCHANGED state, op' = NotFound,
         \A a \in op.listed : ~NamedBy(a, op.target)
  PROVE  IInv'
  <1>1. Whole(op) /\ Limits(op) /\ Locating(op, state) /\ op.asked \subseteq AgreedIn(state)
    BY DEF IInv, Working
  <1>2. PICK w : w = [op EXCEPT !.at = "answered", !.answer = [outcome |-> "not_found"]]
    OBVIOUS
  <1>3. op' = w
    BY <1>2 DEF NotFound
  <1>4. /\ Whole(w) /\ Onward(w, op) /\ w.at = "answered" /\ w.kind = "diagnose"
        /\ w.target = op.target /\ w.answer.outcome = "not_found"
        /\ w.profile = op.profile /\ w.range = op.range /\ w.token = op.token
        /\ w.pages = op.pages /\ w.seen = op.seen /\ w.candidates = op.candidates
        /\ w.queue = op.queue /\ w.visited = op.visited
    BY <1>1, <1>2 DEF Whole, Onward, Locating
  <1>5. Limits(w)
    BY <1>1, <1>4 DEF Limits, Onward
  <1>6. \A a \in Approvals : NamedBy(a, w.target) => ~Due(a, op)
    BY <1>1, <1>4, DueIsRead
  <1>7. Truthful(w, state)
    BY <1>4, <1>6 DEF Truthful, Due, Fits, Onward
  <1>8. Working(w, state)
    BY <1>1, <1>4, <1>5, <1>7 DEF Working, Answered, Onward
  <1> QED
    BY <1>3, <1>8 DEF IInv

\* It is looked for: the request keeps its list, and what it reads is added to its details.
LEMMA LooksOn ==
  ASSUME IInv, op.at \in {"locating", "looking"}, UNCHANGED state,
         NEW w, op' = w, Whole(w), Onward(w, op), w.at = "looking", w.target = op.target,
         w.candidates = op.candidates, w.profile \in 1..(Len(Profiles) + 1), w.range = op.range,
         w.token \in Nat, w.pages \in 0..MaxLookupPages, w.queue \in Seq(Approvals),
         w.visited \subseteq Approvals, Cardinality(w.visited) <= LookupLimit,
         DOMAIN op.seen \subseteq DOMAIN w.seen, DOMAIN w.seen \subseteq Approvals,
         \A a \in DOMAIN w.seen :
           w.seen[a] = state[a] \/ (a \in DOMAIN op.seen /\ w.seen[a] = op.seen[a]),
         op.target.kind = "number" => \A a \in op.listed : ~NamedBy(a, op.target)
  PROVE  IInv'
  <1>1. /\ Whole(op) /\ Limits(op) /\ Locating(op, state) /\ op.asked \subseteq AgreedIn(state)
        /\ op.target \in Targets
    BY DEF IInv, Working, Locating
  <1>2. MaxLookupPages \in Nat /\ MaxPages \in Nat /\ MaxLookupPages <= MaxPages
    BY LimitsAssumption
  <1>3. w.pages \in 0..MaxPages /\ w.pages <= MaxLookupPages
    BY <1>2
  <1>4. Limits(w)
    BY <1>1, <1>3 DEF Limits, Onward
  <1>5. ReadRight(w, state)
    BY <1>1, DetailsRead DEF Locating, Reading, Onward
  <1>6. Locating(w, state)
    BY <1>1, <1>5, LocatingKept
  <1>7. \A a \in w.listed : op.target.kind = "number" => ~NamedBy(a, w.target)
    BY DEF Onward
  <1>8. Working(w, state)
    BY <1>1, <1>4, <1>6, <1>7 DEF Working, Onward
  <1> QED
    BY <1>8 DEF IInv

LEMMA LocateStep ==
  ASSUME IInv, Locate
  PROVE  IInv'
  <1> DEFINE known == {a \in Remembered : Named(a)}
  <1>1. op.at = "locating" /\ UNCHANGED state
    BY DEF Locate
  <1>2. /\ Whole(op) /\ Limits(op) /\ Locating(op, state) /\ op.asked \subseteq AgreedIn(state)
        /\ op.kind = "diagnose" /\ op.target \in Targets
    BY <1>1 DEF IInv, Working, Locating
  <1>3. known = {} => \A a \in op.listed : ~NamedBy(a, op.target)
    BY <1>2 DEF Locating, Remembered, Named, NamedBy
  <1>4. Cardinality({}) = 0 /\ Len(Profiles) \in Nat /\ LookupLimit \in Nat /\ MaxLookupPages \in Nat
        /\ <<>> \in Seq(Approvals)
    BY FS_EmptySet, ApprovalsAssumption, LimitsAssumption
  <1>5. CASE op' = [op EXCEPT !.at = "answered", !.answer = [outcome |-> "blocked"]]
    BY <1>1, <1>2, <1>5, AnswersNothing
  <1>6. CASE \E a : op' = Found(a, a \in op.listed)
    <2>1. PICK a : op' = Found(a, a \in op.listed)
      BY <1>6
    <2>2. PICK target : target = [kind |-> "found", id |-> a, known |-> a \in op.listed]
      OBVIOUS
    <2>3. op' = [op EXCEPT !.at = "judging", !.target = target, !.seen = op.seen]
      <3>1. PICK u : u = [op EXCEPT !.at = "judging", !.target = target]
        OBVIOUS
      <3>2. u = [op EXCEPT !.at = "judging", !.target = target, !.seen = op.seen]
        BY <1>2, <3>1 DEF Whole
      <3> QED
        BY <2>1, <2>2, <3>1, <3>2 DEF Found
    <2>4. DOMAIN op.seen \subseteq Approvals
      BY <1>2 DEF Limits
    <2> QED
      BY <1>1, <2>3, <2>4, FoundWorks
  <1>7. CASE known = {} /\ op' = NotFound
    BY <1>1, <1>3, <1>7, NotFoundWorks
  <1>8. CASE known = {} /\ op.target.kind = "number" /\ op' = Look(op.target.number[1])
    <2>1. PICK m : m = op.target.number[1]
      OBVIOUS
    <2>2. PICK w : w = [op EXCEPT !.at = "looking", !.minute = m, !.profile = 1, !.token = 0,
                                  !.pages = 0, !.visited = {}, !.queue = <<>>]
      OBVIOUS
    <2>3. op' = w
      BY <1>8, <2>1, <2>2 DEF Look
    <2>4. /\ Whole(w) /\ Onward(w, op) /\ w.at = "looking" /\ w.target = op.target
          /\ w.candidates = op.candidates /\ w.profile = 1 /\ w.range = op.range
          /\ w.token = 0 /\ w.pages = 0 /\ w.queue = <<>> /\ w.visited = {} /\ w.seen = op.seen
      BY <1>2, <2>2 DEF Whole, Onward
    <2>5. /\ w.profile \in 1..(Len(Profiles) + 1) /\ w.token \in Nat
          /\ w.pages \in 0..MaxLookupPages /\ w.queue \in Seq(Approvals)
          /\ w.visited \subseteq Approvals /\ Cardinality(w.visited) <= LookupLimit
          /\ DOMAIN op.seen \subseteq DOMAIN w.seen /\ DOMAIN w.seen \subseteq Approvals
          /\ \A a \in DOMAIN w.seen :
               w.seen[a] = state[a] \/ (a \in DOMAIN op.seen /\ w.seen[a] = op.seen[a])
      BY <1>2, <1>4, <2>4 DEF Limits
    <2> QED
      BY <1>1, <1>3, <1>8, <2>3, <2>4, <2>5, LooksOn
  <1>9. CASE /\ known = {} /\ op.target.kind = "id"
             /\ LET a == op.target.id IN
                op' = [Look(Approval[a].created) EXCEPT
                         !.seen = [b \in DOMAIN @ \cup {a} |-> IF b = a THEN state[a] ELSE @[b]]]
    <2> DEFINE a == op.target.id
               seen == [b \in DOMAIN op.seen \cup {a} |-> IF b = a THEN state[a] ELSE op.seen[b]]
    <2>1. PICK m : m = Approval[a].created
      OBVIOUS
    <2>2. PICK x : x = [op EXCEPT !.at = "looking", !.minute = m, !.profile = 1, !.token = 0,
                                  !.pages = 0, !.visited = {}, !.queue = <<>>]
      OBVIOUS
    <2>3. /\ Whole(x) /\ Onward(x, op) /\ x.at = "looking" /\ x.target = op.target
          /\ x.candidates = op.candidates /\ x.profile = 1 /\ x.range = op.range
          /\ x.token = 0 /\ x.pages = 0 /\ x.queue = <<>> /\ x.visited = {} /\ x.seen = op.seen
      BY <1>2, <2>2 DEF Whole, Onward
    <2>4. op' = [x EXCEPT !.seen = [b \in DOMAIN @ \cup {a} |-> IF b = a THEN state[a] ELSE @[b]]]
      BY <1>9, <2>1, <2>2 DEF Look
    <2>5. PICK w : w = [x EXCEPT !.seen = seen]
      OBVIOUS
    <2>6. op' = w
      <3>1. op' = [x EXCEPT !.seen = [b \in DOMAIN x.seen \cup {a} |->
                                        IF b = a THEN state[a] ELSE x.seen[b]]]
        BY <2>3, <2>4 DEF Whole
      <3> QED
        BY <2>3, <2>5, <3>1
    <2>7. DOMAIN seen = DOMAIN op.seen \cup {a}
          /\ \A b \in DOMAIN seen : seen[b] = state[b] \/ (b \in DOMAIN op.seen /\ seen[b] = op.seen[b])
      OBVIOUS
    <2>8. a \in Approvals
      BY <1>2, <1>9 DEF Targets
    <2> HIDE DEF seen
    <2>9. /\ Whole(w) /\ Onward(w, op) /\ w.at = "looking" /\ w.target = op.target
          /\ w.candidates = op.candidates /\ w.profile = 1 /\ w.range = op.range
          /\ w.token = 0 /\ w.pages = 0 /\ w.queue = <<>> /\ w.visited = {} /\ w.seen = seen
      BY <2>3, <2>5 DEF Whole, Onward
    <2>10. /\ w.profile \in 1..(Len(Profiles) + 1) /\ w.token \in Nat
           /\ w.pages \in 0..MaxLookupPages /\ w.queue \in Seq(Approvals)
           /\ w.visited \subseteq Approvals /\ Cardinality(w.visited) <= LookupLimit
           /\ DOMAIN op.seen \subseteq DOMAIN w.seen /\ DOMAIN w.seen \subseteq Approvals
           /\ \A b \in DOMAIN w.seen :
                w.seen[b] = state[b] \/ (b \in DOMAIN op.seen /\ w.seen[b] = op.seen[b])
      BY <1>2, <1>4, <2>7, <2>8, <2>9 DEF Limits
    <2>11. op.target.kind # "number"
      BY <1>9
    <2> QED
      BY <1>1, <2>6, <2>9, <2>10, <2>11, LooksOn
  <1> QED
    <2>1. CASE op.target.kind = "number" /\ known = {}
      BY <1>7, <1>8, <2>1, <1>5, <1>6 DEF Locate
    <2> QED
      BY <1>5, <1>6, <1>9, <2>1 DEF Locate

LEMMA LookUpStep ==
  ASSUME IInv, LookUp
  PROVE  IInv'
  <1> DEFINE set == {a \in Approvals : /\ Approval[a].code = Profiles[op.profile]
                                       /\ Approval[a].created = op.minute}
             page == Page(set, op.token, PageSize)
             new == Among(page.ids, Approvals \ op.visited)
  <1>1. op.at = "looking" /\ op.profile <= Len(Profiles) /\ UNCHANGED state
    BY DEF LookUp
  <1>2. /\ Whole(op) /\ Limits(op) /\ Locating(op, state) /\ op.asked \subseteq AgreedIn(state)
        /\ op.kind = "diagnose" /\ op.pages <= MaxLookupPages
        /\ (op.target.kind = "number" => \A a \in op.listed : ~NamedBy(a, op.target))
    BY <1>1 DEF IInv, Working, Locating, Limits
  <1>3. op.token \in Nat /\ PageSize \in Nat \ {0}
    BY <1>2, LimitsAssumption DEF Limits
  <1> HIDE DEF set
  <1>4. /\ Ids(page) \subseteq Approvals
        /\ page.ids \in Seq(Approvals) /\ DOMAIN page.ids = 1..Len(page.ids)
        /\ page.next # NoDate => page.next \in Nat
    BY <1>3, PageHolds
  <1>5. op' = IF op.pages = MaxLookupPages
              THEN [op EXCEPT !.at = "answered", !.answer = [outcome |-> "incomplete"]]
              ELSE LET read == [op EXCEPT !.pages = @ + 1, !.queue = new]
                   IN IF page.next # NoDate THEN [read EXCEPT !.token = page.next]
                      ELSE [read EXCEPT !.profile = @ + 1, !.token = 0, !.pages = 0]
    BY DEF LookUp, TooMany, set
  <1>6. new \in Seq(Approvals)
    <2> DEFINE n == Cardinality(Places(page.ids, Approvals \ op.visited))
    <2>1. Len(page.ids) \in Nat
      BY <1>4
    <2> HIDE DEF page
    <2>2. /\ n \in Nat /\ DOMAIN new = 1..n
          /\ \A k \in 1..n : new[k] \in Approvals \ op.visited
      BY <1>4, <2>1, AmongLists DEF page
    <2>3. new = [k \in DOMAIN new |-> new[k]]
      BY DEF Among
    <2> HIDE DEF new, n
    <2> QED
      BY <2>2, <2>3
  <1> HIDE DEF page, new
  <1>7. CASE op.pages = MaxLookupPages
    BY <1>1, <1>2, <1>5, <1>7, AnswersNothing
  <1>8. CASE op.pages # MaxLookupPages
    <2>1. PICK x : x = [op EXCEPT !.pages = @ + 1, !.queue = new]
      OBVIOUS
    <2>2. /\ Whole(x) /\ Onward(x, op) /\ x.at = "looking" /\ x.target = op.target
          /\ x.candidates = op.candidates /\ x.profile = op.profile /\ x.range = op.range
          /\ x.pages = op.pages + 1 /\ x.queue = new /\ x.visited = op.visited
          /\ x.seen = op.seen
      BY <1>1, <1>2, <2>1 DEF Whole, Onward
    <2>3. op' = IF page.next # NoDate THEN [x EXCEPT !.token = page.next]
                ELSE [x EXCEPT !.profile = @ + 1, !.token = 0, !.pages = 0]
      BY <1>5, <1>8, <2>1
    <2>4. PICK w : op' = w /\ w = IF page.next # NoDate THEN [x EXCEPT !.token = page.next]
                                  ELSE [x EXCEPT !.profile = @ + 1, !.token = 0, !.pages = 0]
      BY <2>3
    <2>5. /\ Whole(w) /\ Onward(w, op) /\ w.at = "looking" /\ w.target = op.target
          /\ w.candidates = op.candidates /\ w.range = op.range /\ w.queue = new
          /\ w.visited = op.visited /\ w.seen = op.seen
          /\ w.profile = (IF page.next # NoDate THEN op.profile ELSE op.profile + 1)
          /\ w.token = (IF page.next # NoDate THEN page.next ELSE 0)
          /\ w.pages = (IF page.next # NoDate THEN op.pages + 1 ELSE 0)
      BY <2>2, <2>4 DEF Whole, Onward
    <2>6. w.profile \in 1..(Len(Profiles) + 1) /\ w.token \in Nat /\ w.pages \in 0..MaxLookupPages
      <3>1. Len(Profiles) \in Nat /\ MaxLookupPages \in Nat /\ MaxPages \in Nat
        BY ApprovalsAssumption, LimitsAssumption
      <3>2. op.profile \in 1..(Len(Profiles) + 1) /\ op.pages \in 0..MaxPages
        BY <1>2 DEF Limits
      <3>3. op.profile <= Len(Profiles) /\ op.pages <= MaxLookupPages /\ op.pages # MaxLookupPages
        BY <1>1, <1>2, <1>8
      <3> QED
        BY <1>4, <2>5, <3>1, <3>2, <3>3
    <2>7. w.visited \subseteq Approvals /\ Cardinality(w.visited) <= LookupLimit
      BY <1>2, <2>5 DEF Limits
    <2>8. /\ DOMAIN op.seen \subseteq DOMAIN w.seen /\ DOMAIN w.seen \subseteq Approvals
          /\ \A b \in DOMAIN w.seen :
               w.seen[b] = state[b] \/ (b \in DOMAIN op.seen /\ w.seen[b] = op.seen[b])
      BY <1>2, <2>5 DEF Limits
    <2>9. w.queue \in Seq(Approvals)
      BY <1>6, <2>5
    <2> QED
      BY <1>1, <1>2, <2>4, <2>5, <2>6, <2>7, <2>8, <2>9, LooksOn
  <1> QED
    BY <1>7, <1>8

LEMMA LookAtStep ==
  ASSUME IInv, LookAt
  PROVE  IInv'
  <1> DEFINE a == Head(op.queue)
             visited == op.visited \cup {a}
             read == IF op.target.kind = "number" \/ Named(a) THEN {a} ELSE {}
             seen == [b \in DOMAIN op.seen \cup read |->
                        IF b \in DOMAIN op.seen THEN op.seen[b] ELSE state[b]]
  <1>1. op.at = "looking" /\ op.queue # <<>> /\ UNCHANGED state
    BY DEF LookAt
  <1>2. /\ Whole(op) /\ Limits(op) /\ Locating(op, state) /\ op.pages <= MaxLookupPages
        /\ (op.target.kind = "number" => \A b \in op.listed : ~NamedBy(b, op.target))
    BY <1>1 DEF IInv, Working, Limits
  <1>3. a \in Approvals /\ Tail(op.queue) \in Seq(Approvals)
    BY <1>1, <1>2 DEF Limits
  <1>4. /\ DOMAIN op.seen \subseteq DOMAIN seen /\ DOMAIN seen \subseteq Approvals
        /\ \A b \in DOMAIN seen : seen[b] = state[b] \/ (b \in DOMAIN op.seen /\ seen[b] = op.seen[b])
    BY <1>2, <1>3 DEF Limits
  <1>5. op' = IF Cardinality(visited) > LookupLimit
              THEN [op EXCEPT !.at = "answered", !.answer = [outcome |-> "incomplete"]]
              ELSE IF Named(a) THEN [Found(a, TRUE) EXCEPT !.seen = seen]
              ELSE [op EXCEPT !.queue = Tail(@), !.visited = visited, !.seen = seen]
    BY DEF LookAt, TooMany
  <1> HIDE DEF a, seen
  <1>6. visited \subseteq Approvals /\ Cardinality(visited) \in Nat
    <2>1. visited \subseteq Approvals
      BY <1>2, <1>3 DEF Limits
    <2> QED
      BY <2>1, OrderFinite, FS_Subset, FS_CardinalityType
  <1> HIDE DEF visited
  <1>7. CASE Cardinality(visited) > LookupLimit
    <2>1. op.kind = "diagnose" /\ op.asked \subseteq AgreedIn(state)
      BY <1>1 DEF IInv, Working, Locating
    <2> QED
      BY <1>1, <1>2, <1>5, <1>7, <2>1, AnswersNothing
  <1>8. CASE ~(Cardinality(visited) > LookupLimit) /\ Named(a)
    <2>1. PICK target : target = [kind |-> "found", id |-> a, known |-> TRUE]
      OBVIOUS
    <2>2. op' = [op EXCEPT !.at = "judging", !.target = target, !.seen = seen]
      BY <1>5, <1>8, <2>1 DEF Found
    <2> QED
      BY <1>1, <1>4, <2>2, FoundWorks
  <1>9. CASE ~(Cardinality(visited) > LookupLimit) /\ ~Named(a)
    <2>1. PICK rest : rest = Tail(op.queue)
      OBVIOUS
    <2>2. PICK w : w = [op EXCEPT !.queue = rest, !.visited = visited, !.seen = seen]
      OBVIOUS
    <2>3. op' = w
      BY <1>5, <1>9, <2>1, <2>2
    <2>4. /\ Whole(w) /\ Onward(w, op) /\ w.at = "looking" /\ w.target = op.target
          /\ w.candidates = op.candidates /\ w.profile = op.profile /\ w.range = op.range
          /\ w.token = op.token /\ w.pages = op.pages /\ w.queue = rest
          /\ w.visited = visited /\ w.seen = seen
      BY <1>1, <1>2, <2>2 DEF Whole, Onward
    <2>5. w.pages \in 0..MaxLookupPages
      BY <1>2, <2>4, LimitsAssumption DEF Limits
    <2>6. /\ w.profile \in 1..(Len(Profiles) + 1) /\ w.token \in Nat
          /\ w.queue \in Seq(Approvals)
          /\ w.visited \subseteq Approvals /\ Cardinality(w.visited) <= LookupLimit
      BY <1>2, <1>3, <1>9, <1>6, <2>1, <2>4, LimitsAssumption DEF Limits
    <2> QED
      BY <1>1, <1>2, <1>4, <2>3, <2>4, <2>5, <2>6, LooksOn
  <1> QED
    BY <1>8, <1>9, <1>7

LEMMA LookedUpStep ==
  ASSUME IInv, LookedUp
  PROVE  IInv'
  <1>1. op.at = "looking" /\ UNCHANGED state
    BY DEF LookedUp
  <1>2. /\ Whole(op) /\ Limits(op) /\ op.target \in Targets
        /\ (op.target.kind = "number" => \A a \in op.listed : ~NamedBy(a, op.target))
    BY <1>1 DEF IInv, Working, Locating
  <1>3. CASE op.target.kind = "id"
    <2>1. PICK target : target = [kind |-> "found", id |-> op.target.id, known |-> FALSE]
      OBVIOUS
    <2>2. PICK u : u = [op EXCEPT !.at = "judging", !.target = target]
      OBVIOUS
    <2>3. u = [op EXCEPT !.at = "judging", !.target = target, !.seen = op.seen]
      BY <1>2, <2>2 DEF Whole
    <2>4. op' = u
      BY <1>3, <2>1, <2>2 DEF LookedUp, Found
    <2>5. DOMAIN op.seen \subseteq Approvals
      BY <1>2 DEF Limits
    <2> QED
      BY <1>1, <2>3, <2>4, <2>5, FoundWorks
  <1>4. CASE op.target.kind # "id"
    <2>1. op.target.kind = "number"
      BY <1>2, <1>4 DEF Targets
    <2> QED
      BY <1>1, <1>2, <1>4, <2>1, NotFoundWorks DEF LookedUp
  <1> QED
    BY <1>3, <1>4

\* What is said of an approval that was found follows from the candidates.
LEMMA ExplainStep ==
  ASSUME IInv, Explain
  PROVE  IInv'
  <1>1. op.at = "judging" /\ UNCHANGED state
    BY DEF Explain
  <1>2. /\ Whole(op) /\ Limits(op) /\ Locating(op, state) /\ op.asked \subseteq AgreedIn(state)
        /\ op.kind = "diagnose" /\ Right(op.candidates, op, state)
    BY <1>1 DEF IInv, Working, Locating
  <1>3. PICK a, outcome, reason : /\ a = op.target.id /\ outcome = Outcome(a)
                                  /\ reason = Reason(a, op.target.known)
    OBVIOUS
  <1>4. PICK w : w = [op EXCEPT !.at = "answered",
                                !.answer = [outcome |-> outcome, reason |-> reason, id |-> a]]
    OBVIOUS
  <1>5. op' = w
    BY <1>3, <1>4 DEF Explain
  <1>6. /\ Whole(w) /\ Onward(w, op) /\ w.at = "answered" /\ w.kind = "diagnose"
        /\ w.answer.outcome = outcome /\ w.answer.id = a
        /\ w.profile = op.profile /\ w.range = op.range /\ w.token = op.token
        /\ w.pages = op.pages /\ w.seen = op.seen /\ w.candidates = op.candidates
        /\ w.queue = op.queue /\ w.visited = op.visited
    BY <1>2, <1>4 DEF Whole, Onward
  <1>7. Limits(w)
    BY <1>2, <1>6 DEF Limits, Onward
  <1>8. CASE a \in op.candidates
    <2>1. outcome \in {"visible", "unselectable"}
      BY <1>3, <1>8 DEF Outcome
    <2>2. Eligible(a, AgreedIn(state), op.user, Head(op.windows))
      BY <1>2, <1>8 DEF Right, Limits
    <2>3. Truthful(w, state)
      BY <1>6, <2>1, <2>2 DEF Truthful, Onward
    <2> QED
      BY <1>1, <1>2, <1>5, <1>6, <1>7, <2>3 DEF IInv, Working, Answered, Onward
  <1>9. CASE a \notin op.candidates
    <2>1. outcome = "excluded"
      BY <1>3, <1>9 DEF Outcome
    <2>2. ~Due(a, op)
      BY <1>2, <1>9 DEF Right, Due, Eligible, AgreedIn
    <2>3. ~Due(a, w)
      BY <1>6, <2>2 DEF Due, Fits, Onward
    <2>4. Truthful(w, state)
      BY <1>6, <2>1, <2>3 DEF Truthful
    <2> QED
      BY <1>1, <1>2, <1>5, <1>6, <1>7, <2>4 DEF IInv, Working, Answered, Onward
  <1> QED
    BY <1>8, <1>9

-----------------------------------------------------------------------------
(* The theorems *)

LEMMA Started == Init => IInv
  <1> SUFFICES ASSUME Init PROVE IInv
    OBVIOUS
  <1>1. op = Idle
    BY DEF Init
  <1>2. Working(op, state)
    BY <1>1, IdleWorks
  <1> QED
    BY <1>2 DEF IInv, Init, Outcomes, Finished

LEMMA Sound == IInv /\ [Next]_vars => IInv'
  <1> SUFFICES ASSUME IInv, [Next]_vars PROVE IInv'
    OBVIOUS
  <1>1. ASSUME NEW a \in Approvals, Read(a) \/ \E s \in Finished \cup {"TERMINATED"} : Decide(a, s)
        PROVE  IInv'
    BY <1>1, ReadStep, DecideStep
  <1>2. ASSUME NEW u \in Users, NEW win \in Windows, NEW k \in Keywords,
               Browse(u, win, k) \/ \E t \in Targets : Diagnose(u, win, k, t)
        PROVE  IInv'
    BY <1>2, BrowseStep, DiagnoseStep
  <1>3. ASSUME NEW u \in Users, NEW p \in Picks, Verify(u, p)
        PROVE  IInv'
    BY <1>3, VerifyStep
  <1>4. CASE ListPage \/ ListRefused \/ Listed \/ Answer \/ Verified \/ Fails
    BY <1>4, ListPageStep, ListRefusedStep, ListedStep, AnswerStep, VerifiedStep, FailsStep
  <1>5. CASE Candidate \/ Locate \/ LookUp \/ LookAt \/ LookedUp \/ Explain
    BY <1>5, CandidateStep, LocateStep, LookUpStep, LookAtStep, LookedUpStep, ExplainStep
  <1>6. CASE Close
    BY <1>6, GivesUp DEF Close
  <1>7. CASE UNCHANGED vars
    BY <1>7 DEF IInv, vars
  <1> QED
    BY <1>1, <1>2, <1>3, <1>4, <1>5, <1>6, <1>7 DEF Next

LEMMA InvariantShows ==
  ASSUME IInv
  PROVE  Inv /\ VerifiedIsOneTrip /\ ChargedAsApproved /\ DiagnosisIsTrue
  <1>1. /\ Limits(op) /\ Agreed = AgreedIn(state)
        /\ op.at = "answered" => Answered(op, state)
    BY DEF IInv, Working, Agreed, AgreedIn
  <1>2. TypeOK
    BY <1>1, LimitsAssumption DEF TypeOK, IInv, Limits, Outcomes
  <1>3. NothingIsOverlooked
    <2> SUFFICES ASSUME op.at = "answered", op.kind = "browse", NEW a \in Approvals
                 PROVE  /\ Due(a, op) => a \in op.answer
                        /\ a \in op.answer => Eligible(a, Agreed, op.user, Window) /\ Fits(a, op)
      BY DEF NothingIsOverlooked, Due, Fits, Window
    <2> QED
      BY <1>1 DEF Answered, Right, Window
  <1>4. VerifiedIsOneTrip
    BY <1>1 DEF VerifiedIsOneTrip, Answered, OneTrip, SameType
  <1>5. ChargedAsApproved
    BY <1>1 DEF ChargedAsApproved, Answered, Charged
  <1>6. DiagnosisIsTrue
    <2> SUFFICES ASSUME op.at = "answered", op.kind = "diagnose"
                 PROVE  CASE op.answer.outcome \in {"visible", "unselectable"} ->
                               Eligible(op.answer.id, Agreed, op.user, Window)
                          [] op.answer.outcome = "excluded" -> ~Due(op.answer.id, op)
                          [] op.answer.outcome = "not_found" ->
                               \A a \in Approvals : Named(a) => ~Due(a, op)
                          [] OTHER -> TRUE
      BY DEF DiagnosisIsTrue, Due, Fits, Window
    <2>1. Truthful(op, state)
      BY <1>1 DEF Answered
    <2>2. \A a \in Approvals : Named(a) <=> NamedBy(a, op.target)
      BY DEF Named, NamedBy
    <2> QED
      BY <1>1, <2>1, <2>2 DEF Truthful, Window
  <1> QED
    BY <1>2, <1>3, <1>4, <1>5, <1>6 DEF Inv

\* What is known of a request's list, its details and its candidates holds at all times,
\* whatever is decided between two of its steps.
THEOREM RequestInvariant == Spec => []IInv
  <1>1. Init => IInv
    BY Started
  <1>2. IInv /\ [Next]_vars => IInv'
    BY Sound
  <1> QED
    BY <1>1, <1>2, PTL DEF Spec

\* A list that is answered holds every approval that was agreed when the user asked, and
\* none that may not be picked; and a request keeps within its limits.
THEOREM ListsOverlookNothing == Spec => []Inv
  <1>1. IInv => Inv
    BY InvariantShows
  <1> QED
    BY <1>1, RequestInvariant, PTL

\* A selection that is verified is one trip: of one traveller, one department and one kind,
\* in the windows it was picked from, with dates that cover every day of it.
THEOREM SelectionIsOneTrip == Spec => []VerifiedIsOneTrip
  <1>1. IInv => VerifiedIsOneTrip
    BY InvariantShows
  <1> QED
    BY <1>1, RequestInvariant, PTL

\* It is charged to a company and a budget that the approvers of each approval saw.
THEOREM SelectionChargedAsApproved == Spec => []ChargedAsApproved
  <1>1. IInv => ChargedAsApproved
    BY InvariantShows
  <1> QED
    BY <1>1, RequestInvariant, PTL

\* What an administrator is told of an approval is so.
THEOREM DiagnosesAreTrue == Spec => []DiagnosisIsTrue
  <1>1. IInv => DiagnosisIsTrue
    BY InvariantShows
  <1> QED
    BY <1>1, RequestInvariant, PTL

=============================================================================
