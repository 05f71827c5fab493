--------------------------- MODULE OaTemplatesProofs ---------------------------
(***************************************************************************)
(* Proofs that the catalog of OA templates stays usable and means what the *)
(* administrator confirmed, however requests overlap and forms change.     *)
(*                                                                         *)
(* The first part is about forms alone: what a container hands down to its *)
(* items, and which fields a valid mapping can fill in.  The second is     *)
(* about rows: a catalog refreshed with compatible forms is a catalog that *)
(* can be used, with the same choices.  The third is the inductive         *)
(* invariant: every schema anybody holds is an edition that was live, and  *)
(* a request that read the row holds a catalog that the row, as long as it *)
(* has that version, still agrees with.                                    *)
(***************************************************************************)
EXTENDS OaTemplates, FiniteSetTheorems, WellFoundedInduction, TLAPS

-----------------------------------------------------------------------------
(* The inductive invariant *)

States == {"idle", "inspecting", "reviewing", "confirming", "loading", "again", "diagnosing",
           "answered"}
Operations ==
  [at : States,
   travel : Seq(TravelCodes), seen : Seq(Schemas), reviewed : Seq(Schemas),
   plan : {0} \cup DOMAIN Plans, version : 0..MaxVersion, read : Rows \cup {Undone},
   tries : 0..MaxConfigCasAttempts, asked : [Codes -> Nat] \cup {Undone},
   answer : Rows \cup {Undone}]

LiveForms ==
  /\ live \in [Codes -> [form : Nat, modified : Nat]]
  /\ \A c \in Codes : live[c].form \in DOMAIN Forms[c] /\ live[c].modified <= MaxEdits

\* Schema s is an edition of form c, and none that l does not know yet.
Of(s, c, l) ==
  /\ s \in Schemas /\ s.code = c /\ s.form \in DOMAIN Forms[c] /\ Known[c][s.form] # Undone
  /\ s.modified <= l[c].modified
  /\ s.modified = l[c].modified => s.form = l[c].form

CodesOf(r) == [i \in DOMAIN r.profiles |-> r.profiles[i].code]
CodeAt(travel, k) == IF k = 1 THEN Code ELSE travel[k - 1]
SchemaAt(r, k) == IF k = 1 THEN r.schema ELSE r.profiles[k - 1].schema

Alike(r) ==
  /\ SameContract(r.schema, r.confirmed, r.mapping)
  /\ \A i \in DOMAIN r.profiles :
       SameContract(r.profiles[i].schema, r.profiles[i].confirmed, r.profiles[i].mapping)

\* A row that can be used, with schemas of forms that l knows.
Stored(r, l) ==
  /\ r \in Rows /\ Usable(r) /\ Alike(r)
  /\ Of(r.schema, Code, l)
  /\ \A i \in DOMAIN r.profiles : Of(r.profiles[i].schema, r.profiles[i].code, l)

Seen(w, l) ==
  /\ Len(w.seen) <= Len(w.travel) + 1
  /\ \A k \in DOMAIN w.seen : Of(w.seen[k], CodeAt(w.travel, k), l)

\* A request that read the row: the row is as new, and means the same if it is no newer.
Based(w, r, l) ==
  /\ w.read # Undone /\ Stored(w.read, l)
  /\ w.travel = CodesOf(w.read) /\ w.version = w.read.version
  /\ r # Undone /\ w.version <= r.version
  /\ w.version = r.version => Choices(r) = Choices(w.read)
  /\ w.asked \in [Codes -> Nat] /\ \A c \in Codes : w.asked[c] <= l[c].modified

\* What it saw since is no older than its question, nor than the catalog it read.
Fresh(w) ==
  \A k \in DOMAIN w.seen :
    /\ w.seen[k].modified >= w.asked[w.seen[k].code]
    /\ w.seen[k].modified >= SchemaAt(w.read, k).modified

FreshAnswer(w) ==
  /\ w.answer.schema.modified >= w.asked[Code]
  /\ \A i \in DOMAIN w.answer.profiles :
       LET p == w.answer.profiles[i] IN p.schema.modified >= w.asked[p.code]

Working(w, r, l) ==
  /\ Seen(w, l)
  /\ w.at = "idle" => w = Idle
  /\ w.at = "confirming" => w.version < MaxVersion /\ w.plan \in DOMAIN Plans
  /\ w.at \in {"loading", "again", "diagnosing"} => Based(w, r, l)
  /\ w.at \in {"loading", "diagnosing"} => Fresh(w)
  /\ w.at = "answered" => FreshAnswer(w)

StoredRow == row # Undone => Stored(row, live)

IInv ==
  /\ LiveForms /\ StoredRow /\ op \in [Requests -> Operations]
  /\ \A o \in Requests : Working(op[o], row, live)

-----------------------------------------------------------------------------
(* Forms: what containers hand down *)

LEMMA Least ==
  ASSUME NEW S, S \subseteq Nat, S # {}
  PROVE  \E f \in S : \A g \in S : f <= g
  <1>1. IsWellFoundedOn(OpToRel(<, Nat), Nat)
    BY NatLessThanWellFounded
  <1>2. \E f \in S : \A g \in S : <<g, f>> \notin OpToRel(<, Nat)
    BY <1>1, WFMin
  <1>3. ASSUME NEW f \in Nat, NEW g \in Nat, <<g, f>> \notin OpToRel(<, Nat)
        PROVE  f <= g
    <2>1. <<g, f>> \in Nat \X Nat /\ <<g, f>>[1] = g /\ <<g, f>>[2] = f
      OBVIOUS
    <2> QED
      BY <1>3, <2>1 DEF OpToRel
  <1> QED
    BY <1>2, <1>3

IsTree(items) ==
  Len(items) \in Nat /\ \A i \in 1..Len(items) : items[i].parent \in 0..(i - 1)

\* The bodies of the two functions that recur along the parents of an item.
Top == [disabled |-> FALSE, hidden |-> FALSE, table |-> FALSE, complex |-> FALSE, owner |-> NoId]
Down(up, p) ==
  [disabled |-> up.disabled \/ p.disabled, hidden |-> up.hidden \/ p.hidden,
   table |-> up.table \/ p.type \in SubtableTypes,
   complex |-> up.complex \/ p.type \notin LayoutTypes,
   owner |-> IF p.id = NoId THEN up.owner ELSE p.id]
AboveStep(items, f, i) ==
  IF i = 0 \/ items[i].parent = 0 THEN Top ELSE Down(f[items[i].parent], items[items[i].parent])
ChainStep(items, f, i) == IF i = 0 THEN {} ELSE {i} \cup f[items[i].parent]
Chain(items) == CHOOSE f : f = [i \in 0..Len(items) |-> ChainStep(items, f, i)]

\* A function that looks at an item's parent only exists: it can be built item by item.
LEMMA AboveUnfolds ==
  ASSUME NEW items, IsTree(items)
  PROVE  Above(items) = [i \in 0..Len(items) |-> AboveStep(items, Above(items), i)]
  <1> DEFINE n == Len(items)
             B(g, i) == AboveStep(items, g, i)
             S == {m \in 0..n : ~\E g : g = [i \in 0..m |-> B(g, i)]}
  <1>0. n \in Nat
    BY DEF IsTree
  <1>1. \A g, h : \A i \in 0..n : (\A j \in 0..n : j < i => g[j] = h[j]) => B(g, i) = B(h, i)
    BY DEF AboveStep, IsTree
  <1> HIDE DEF B, n
  <1>2. S = {}
    <2>1. SUFFICES ASSUME S # {} PROVE FALSE
      OBVIOUS
    <2>2. PICK m \in S : \A k \in S : m <= k
      <3>1. S \subseteq Nat
        BY <1>0
      <3> HIDE DEF S
      <3> QED
        BY <2>1, <3>1, Least
    <2>3. m # 0
      <3>1. [i \in 0..0 |-> B(<<>>, i)] = [i \in 0..0 |-> B([j \in 0..0 |-> B(<<>>, j)], i)]
        BY <1>0, <1>1
      <3> QED
        BY <3>1, <2>2
    <2>4. PICK g : g = [i \in 0..(m - 1) |-> B(g, i)]
      <3>1. m - 1 \in 0..n /\ ~(m <= m - 1)
        BY <1>0, <2>2, <2>3
      <3>2. m - 1 \notin S
        BY <2>2, <3>1
      <3> QED
        BY <3>1, <3>2
    <2>5. m \in 1..n
      BY <1>0, <2>2, <2>3
    <2> HIDE DEF S
    <2> DEFINE h == [i \in 0..m |-> B(g, i)]
    <2>6. \A i \in 0..m : B(h, i) = B(g, i)
      <3> TAKE i \in 0..m
      <3>1. \A j \in 0..(m - 1) : h[j] = g[j]
        BY <1>0, <2>5, <2>4
      <3>2. \A j \in 0..n : j < i => j \in 0..(m - 1)
        BY <1>0, <2>5
      <3>3. i \in 0..n
        BY <1>0, <2>5
      <3> HIDE DEF h
      <3> QED
        BY <1>1, <3>1, <3>2, <3>3
    <2>7. h = [i \in 0..m |-> B(h, i)]
      BY <2>6
    <2> QED
      BY <2>2, <2>7 DEF S
  <1>3. \E g : g = [i \in 0..n |-> B(g, i)]
    BY <1>0, <1>2
  <1>4. Above(items) = CHOOSE g : g = [i \in 0..n |-> B(g, i)]
    BY DEF Above, B, n, AboveStep, Top, Down
  <1> QED
    BY <1>3, <1>4 DEF B, n

LEMMA ChainUnfolds ==
  ASSUME NEW items, IsTree(items)
  PROVE  Chain(items) = [i \in 0..Len(items) |-> ChainStep(items, Chain(items), i)]
  <1> DEFINE n == Len(items)
             B(g, i) == ChainStep(items, g, i)
             S == {m \in 0..n : ~\E g : g = [i \in 0..m |-> B(g, i)]}
  <1>0. n \in Nat
    BY DEF IsTree
  <1>1. \A g, h : \A i \in 0..n : (\A j \in 0..n : j < i => g[j] = h[j]) => B(g, i) = B(h, i)
    <2> TAKE g, h
    <2> TAKE i \in 0..n
    <2> HAVE \A j \in 0..n : j < i => g[j] = h[j]
    <2>1. i # 0 => items[i].parent \in 0..n /\ items[i].parent < i
      BY DEF IsTree
    <2>2. i # 0 => g[items[i].parent] = h[items[i].parent]
      BY <2>1
    <2> QED
      BY <2>2 DEF ChainStep
  <1> HIDE DEF B, n
  <1>2. S = {}
    <2>1. SUFFICES ASSUME S # {} PROVE FALSE
      OBVIOUS
    <2>2. PICK m \in S : \A k \in S : m <= k
      <3>1. S \subseteq Nat
        BY <1>0
      <3> HIDE DEF S
      <3> QED
        BY <2>1, <3>1, Least
    <2>3. m # 0
      <3>1. [i \in 0..0 |-> B(<<>>, i)] = [i \in 0..0 |-> B([j \in 0..0 |-> B(<<>>, j)], i)]
        BY <1>0, <1>1
      <3> QED
        BY <3>1, <2>2
    <2>4. PICK g : g = [i \in 0..(m - 1) |-> B(g, i)]
      <3>1. m - 1 \in 0..n /\ ~(m <= m - 1)
        BY <1>0, <2>2, <2>3
      <3>2. m - 1 \notin S
        BY <2>2, <3>1
      <3> QED
        BY <3>1, <3>2
    <2>5. m \in 1..n
      BY <1>0, <2>2, <2>3
    <2> HIDE DEF S
    <2> DEFINE h == [i \in 0..m |-> B(g, i)]
    <2>6. \A i \in 0..m : B(h, i) = B(g, i)
      <3> TAKE i \in 0..m
      <3>1. \A j \in 0..(m - 1) : h[j] = g[j]
        BY <1>0, <2>5, <2>4
      <3>2. \A j \in 0..n : j < i => j \in 0..(m - 1)
        BY <1>0, <2>5
      <3>3. i \in 0..n
        BY <1>0, <2>5
      <3> HIDE DEF h
      <3> QED
        BY <1>1, <3>1, <3>2, <3>3
    <2>7. h = [i \in 0..m |-> B(h, i)]
      BY <2>6
    <2> QED
      BY <2>2, <2>7 DEF S
  <1>3. \E g : g = [i \in 0..n |-> B(g, i)]
    BY <1>0, <1>2
  <1> QED
    BY <1>3 DEF B, n, Chain

\* An item that inherits nothing has around it only containers that hand nothing down.
LEMMA AroundIsShown ==
  ASSUME NEW items, IsTree(items), NEW k \in 0..Len(items),
         \A i \in 1..Len(items) : items[i].hidden \in BOOLEAN /\ items[i].disabled \in BOOLEAN,
         ~Above(items)[k].hidden, ~Above(items)[k].disabled, ~Above(items)[k].table
  PROVE  \A j \in Around(items, k) \ {k} :
           ~items[j].hidden /\ ~items[j].disabled /\ items[j].type \notin SubtableTypes
  <1> DEFINE n == Len(items)
             above == Above(items)
             chain == Chain(items)
             Clear(i) == ~above[i].hidden /\ ~above[i].disabled /\ ~above[i].table
             Open(j) == ~items[j].hidden /\ ~items[j].disabled /\ items[j].type \notin SubtableTypes
             S == {i \in 0..n : Clear(i) /\ ~\A j \in chain[i] \ {i} : Open(j)}
  <1>1. n \in Nat
    BY DEF IsTree
  <1>2. \A i : Around(items, i) = chain[i]
    BY DEF Around, Chain, ChainStep
  <1>3. chain[0] = {} /\ \A i \in 1..n : chain[i] = {i} \cup chain[items[i].parent]
    BY <1>1, ChainUnfolds DEF ChainStep
  <1>4. \A i \in 1..n : items[i].parent # 0 =>
          above[i] = Down(above[items[i].parent], items[items[i].parent])
    BY <1>1, AboveUnfolds DEF AboveStep
  <1>5. \A i \in 1..n : items[i].parent # 0 /\ Clear(i) =>
          Clear(items[i].parent) /\ Open(items[i].parent)
    <2> TAKE i \in 1..n
    <2> HAVE items[i].parent # 0 /\ Clear(i)
    <2> DEFINE up == above[items[i].parent]
               p == items[items[i].parent]
    <2>1. above[i] = Down(up, p)
      BY <1>4
    <2>2. /\ above[i].hidden = (up.hidden \/ p.hidden)
          /\ above[i].disabled = (up.disabled \/ p.disabled)
          /\ above[i].table = (up.table \/ p.type \in SubtableTypes)
      BY <2>1 DEF Down
    <2> QED
      BY <2>2
  <1> HIDE DEF above, chain, n
  <1>6. S = {}
    <2>1. SUFFICES ASSUME S # {} PROVE FALSE
      OBVIOUS
    <2>2. PICK i \in S : \A g \in S : i <= g
      <3>1. S \subseteq Nat
        BY <1>1
      <3> HIDE DEF S
      <3> QED
        BY <2>1, <3>1, Least
    <2>3. i \in 1..n
      BY <1>1, <1>3, <2>2
    <2> DEFINE p == items[i].parent
    <2>4. p \in 0..(i - 1)
      BY <2>3 DEF IsTree, n
    <2>5. p # 0
      BY <1>3, <2>2, <2>3
    <2>6. Clear(p) /\ Open(p)
      BY <1>5, <2>2, <2>3, <2>5
    <2>7. p \in 1..n /\ p < i
      BY <1>1, <2>3, <2>4, <2>5
    <2>8. \A j \in chain[p] \ {p} : Open(j)
      <3>1. p \notin S
        BY <2>2, <2>7, <1>1, <2>3
      <3> QED
        BY <3>1, <2>6, <2>7, <1>1
    <2>9. \A j \in chain[i] \ {i} : Open(j)
      BY <1>3, <2>3, <2>6, <2>8
    <2> QED
      BY <2>2, <2>9
  <1>7. k \notin S
    BY <1>6
  <1> QED
    BY <1>2, <1>7 DEF above, n

\* A field that a valid mapping names can be filled in.
LEMMA MappedIsShown ==
  ASSUME NEW form, Wellformed(form.items), ValidForm(form), NEW code, NEW mapping,
         ValidTemplateMapping([code |-> code, components |-> Components(form)], mapping)
  PROVE  LET items == form.items IN
         \A i \in DOMAIN items : items[i].id \in Mapped(mapping) =>
           /\ \A j \in Around(items, i) : ~items[j].hidden /\ ~items[j].disabled
           /\ \A j \in Around(items, i) \ {i} : items[j].type \notin SubtableTypes
  <1> DEFINE items == form.items
             named == {i \in DOMAIN items : items[i].id # NoId}
             components == Components(form)
  <1>1. /\ IsTree(items) /\ DOMAIN items = 1..Len(items)
        /\ \A i \in 1..Len(items) : items[i].hidden \in BOOLEAN /\ items[i].disabled \in BOOLEAN
    BY DEF Wellformed, IsSequence, IsTree
  <1>2. /\ DOMAIN components = {items[i].id : i \in named}
        /\ \A id \in DOMAIN components :
             components[id] = Component(items, CHOOSE i \in named : items[i].id = id)
    BY DEF Components
  <1>3. \A i, j \in named : i # j => items[i].id # items[j].id
    BY DEF ValidForm
  <1>4. /\ Mapped(mapping) \subseteq DOMAIN components
        /\ \A f \in DOMAIN mapping :
             ComponentSupports(components[mapping[f]], f, ReimbursementFields[f])
    BY DEF ValidTemplateMapping, ValidMapping
  <1>5. \A id \in Mapped(mapping) : Shown(components[id]) /\ ~components[id].subtable
    BY <1>4 DEF Mapped, ComponentSupports
  <1> SUFFICES ASSUME NEW i \in DOMAIN items, items[i].id \in Mapped(mapping)
               PROVE  /\ \A j \in Around(items, i) : ~items[j].hidden /\ ~items[j].disabled
                      /\ \A j \in Around(items, i) \ {i} : items[j].type \notin SubtableTypes
    OBVIOUS
  <1>6. i \in named /\ \A k \in named : items[k].id = items[i].id => k = i
    BY <1>2, <1>3, <1>4
  <1>7. (CHOOSE k \in named : items[k].id = items[i].id) = i
    BY <1>6
  <1>8. components[items[i].id] = Component(items, i)
    BY <1>2, <1>4, <1>7
  <1>9. /\ ~items[i].disabled /\ ~items[i].hidden
        /\ ~Above(items)[i].disabled /\ ~Above(items)[i].hidden /\ ~Above(items)[i].table
    <2>1. Shown(Component(items, i)) /\ ~Component(items, i).subtable
      BY <1>5, <1>8
    <2> QED
      BY <2>1 DEF Shown, Component
  <1>10. \A j \in Around(items, i) \ {i} :
           ~items[j].hidden /\ ~items[j].disabled /\ items[j].type \notin SubtableTypes
    <2>1. i \in 0..Len(items)
      BY <1>1
    <2> QED
      BY <1>1, <1>9, <2>1, AroundIsShown
  <1> QED
    BY <1>9, <1>10

-----------------------------------------------------------------------------
(* Schemas: what is compatible, and what they offer *)

LEMMA CompatibleKeepsContract ==
  ASSUME NEW s, NEW t, NEW u, NEW mapping, Compatible(s, t, mapping), SameContract(s, u, mapping)
  PROVE  SameContract(t, u, mapping)
  BY DEF Compatible, CompatibleChange, SameContract

LEMMA OfLater ==
  ASSUME NEW s, NEW c, NEW l, NEW m, s \in Schemas, l[c].modified \in Nat, m[c].modified \in Nat,
         l[c].modified <= m[c].modified, l[c].modified = m[c].modified => l[c] = m[c], Of(s, c, l)
  PROVE  Of(s, c, m)
  BY DEF Of, Schemas

LEMMA RangeFinite ==
  ASSUME NEW f, IsFiniteSet(DOMAIN f)
  PROVE  IsFiniteSet({f[x] : x \in DOMAIN f})
  <1> DEFINE g == [x \in DOMAIN f |-> f[x]]
  <1>1. g \in Surjection(DOMAIN f, {f[x] : x \in DOMAIN f})
    BY DEF Surjection
  <1> QED
    BY <1>1, FS_Surjection

\* The options of a component of a form that can be read are offered by the form, and finite.
LEMMA OptionsOffered ==
  ASSUME NEW c \in Codes, NEW f \in DOMAIN Forms[c], Known[c][f] # Undone, NEW mapping
  PROVE  /\ OptionsOf([code |-> c, components |-> Known[c][f]], mapping) \subseteq OptionsOn(c)
         /\ IsFiniteSet(OptionsOf([code |-> c, components |-> Known[c][f]], mapping))
  <1> DEFINE form == Forms[c][f]
             known == Known[c][f]
             options == OptionsOf([code |-> c, components |-> known], mapping)
  <1>1. ValidForm(form) /\ known = Components(form)
    BY DEF Known
  <1>2. CASE options = {}
    BY <1>2, FS_EmptySet
  <1>3. CASE options # {}
    <2>1. mapping["travelType"] \in DOMAIN known /\ options = known[mapping["travelType"]].options
      BY <1>3 DEF OptionsOf
    <2>2. options \subseteq OptionsOn(c)
      BY <2>1 DEF OptionsOn
    <2>3. PICK i \in DOMAIN form.items : known[mapping["travelType"]] = Component(form.items, i)
      <3> DEFINE id == mapping["travelType"]
                 named == {i \in DOMAIN form.items : form.items[i].id # NoId}
      <3>1. /\ DOMAIN known = {form.items[i].id : i \in named}
            /\ \A d \in DOMAIN known :
                 known[d] = Component(form.items, CHOOSE i \in named : form.items[i].id = d)
        BY <1>1 DEF Components
      <3>2. \E i \in named : form.items[i].id = id
        BY <2>1, <3>1
      <3>3. (CHOOSE i \in named : form.items[i].id = id) \in named
        BY <3>2
      <3> QED
        BY <2>1, <3>1, <3>3
    <2>4. options = {form.items[i].options[k] : k \in DOMAIN form.items[i].options}
      <3>1. options = Component(form.items, i).options
        BY <2>1, <2>3
      <3> HIDE DEF options, form
      <3> QED
        BY <3>1 DEF Component
    <2>5. DOMAIN form.items[i].options = 1..Len(form.items[i].options)
          /\ Len(form.items[i].options) \in Nat
      <3>1. Wellformed(form.items)
        BY FormsAssumption
      <3> QED
        BY <3>1 DEF Wellformed, IsSequence
    <2>6. IsFiniteSet(DOMAIN form.items[i].options)
      BY <2>5, FS_Interval
    <2>7. IsFiniteSet(options)
      <3> HIDE DEF options
      <3> QED
        BY <2>4, <2>6, RangeFinite
    <2> QED
      BY <2>2, <2>7
  <1> QED
    BY <1>2, <1>3

\* Where one option has a value, choosing finds it.
LEMMA TheOption ==
  ASSUME NEW options, IsFiniteSet(options), NEW v,
         Cardinality({o \in options : o.value = v}) = 1
  PROVE  LET o == CHOOSE o \in {o \in options : o.value = v} : TRUE
         IN o \in options /\ o.value = v
  <1>1. {o \in options : o.value = v} # {}
    <2>1. SUFFICES ASSUME {o \in options : o.value = v} = {} PROVE FALSE
      OBVIOUS
    <2> QED
      BY <2>1, FS_EmptySet
  <1> QED
    BY <1>1

-----------------------------------------------------------------------------
(* Rows: a refreshed catalog *)

LEMMA RowFields ==
  ASSUME NEW r \in Rows
  PROVE  /\ r.code = Code /\ r.version \in 1..MaxVersion /\ r.version \in Nat
         /\ r.schema \in Schemas /\ r.confirmed \in Schemas /\ r.mapping \in Mappings
         /\ r.allowed \in Seq(TravelCodes) /\ r.status \in {"COMPATIBLE", "DRIFTED"}
         /\ r.profiles \in Seq(Profiles) /\ DOMAIN r.profiles = 1..Len(r.profiles)
         /\ Len(r.profiles) \in Nat
         /\ \A i \in DOMAIN r.profiles : r.profiles[i] \in Profiles
  BY DEF Rows

LEMMA ProfileFields ==
  ASSUME NEW p \in Profiles
  PROVE  /\ p.code \in TravelCodes /\ p.schema \in Schemas /\ p.confirmed \in Schemas
         /\ p.option \in OptionsOn(Code)
         /\ \E V \in SUBSET Values : p.types \in [V -> OptionsOn(Code)]
  BY DEF Profiles

\* The choice of Refreshed, and a profile of what it returns.
Shows(own, mapping, option) ==
  CHOOSE o \in CurrentOptions(own, mapping, option.value) : TRUE
ShownTypes(own, mapping, types) == [v \in DOMAIN types |-> Shows(own, mapping, types[v])]
NewProfile(p, s, own, mapping) ==
  [p EXCEPT !.schema = s, !.option = Shows(own, mapping, p.option),
            !.types = ShownTypes(own, mapping, p.types)]

\* An option found by its value has that value, and is one the form offers.
LEMMA ShowsOption ==
  ASSUME NEW l, NEW s, Of(s, Code, l), NEW mapping, NEW option,
         Cardinality(CurrentOptions(Read(s), mapping, option.value)) = 1
  PROVE  /\ Shows(Read(s), mapping, option) \in OptionsOn(Code)
         /\ ExactOption(Read(s), mapping, Shows(Read(s), mapping, option))
         /\ Shows(Read(s), mapping, option).value = option.value
  <1> DEFINE options == OptionsOf(Read(s), mapping)
  <1>1. s.code = Code /\ Code \in Codes /\ s.form \in DOMAIN Forms[Code] /\ Known[Code][s.form] # Undone
    BY DEF Of, Codes
  <1>2. Read(s) = [code |-> Code, components |-> Known[Code][s.form]]
    BY <1>1 DEF Read
  <1>3. options \subseteq OptionsOn(Code) /\ IsFiniteSet(options)
    BY <1>1, <1>2, OptionsOffered
  <1>4. CurrentOptions(Read(s), mapping, option.value) = {o \in options : o.value = option.value}
    BY DEF CurrentOptions
  <1> HIDE DEF options
  <1>5. /\ Shows(Read(s), mapping, option) \in options
        /\ Shows(Read(s), mapping, option).value = option.value
    <2>1. Cardinality({o \in options : o.value = option.value}) = 1
      BY <1>4
    <2>2. Shows(Read(s), mapping, option) = CHOOSE o \in {o \in options : o.value = option.value} : TRUE
      BY <1>4 DEF Shows
    <2> QED
      BY <1>3, <2>1, <2>2, TheOption
  <1> QED
    BY <1>3, <1>5 DEF ExactOption, options

LEMMA ProfileRefreshes ==
  ASSUME NEW p \in Profiles, NEW l, NEW own, Of(own, Code, l), NEW s, Of(s, p.code, l), NEW mapping,
         NEW old, NEW older, ValidTypes(old, p.mapping, p.types, older, mapping),
         RefreshesProfile(p, s, Read(own), mapping)
  PROVE  LET q == NewProfile(p, s, Read(own), mapping) IN
         /\ q \in Profiles
         /\ q.code = p.code /\ q.mapping = p.mapping /\ q.confirmed = p.confirmed
         /\ q.schema = s
         /\ q.option.value = p.option.value
         /\ DOMAIN q.types = DOMAIN p.types
         /\ \A v \in DOMAIN p.types : q.types[v].value = p.types[v].value
         /\ ExactOption(Read(own), mapping, q.option)
         /\ ValidTypes(Read(s), q.mapping, q.types, Read(own), mapping)
  <1> DEFINE option == Shows(Read(own), mapping, p.option)
             types == ShownTypes(Read(own), mapping, p.types)
  <1>1. option \in OptionsOn(Code) /\ ExactOption(Read(own), mapping, option)
        /\ option.value = p.option.value
    BY ShowsOption DEF RefreshesProfile
  <1>2. DOMAIN types = DOMAIN p.types
    BY DEF ShownTypes
  <1>3. \A v \in DOMAIN p.types : types[v] \in OptionsOn(Code)
          /\ ExactOption(Read(own), mapping, types[v]) /\ types[v].value = p.types[v].value
    <2> TAKE v \in DOMAIN p.types
    <2>1. Cardinality(CurrentOptions(Read(own), mapping, p.types[v].value)) = 1
      BY DEF RefreshesProfile
    <2>2. types[v] = Shows(Read(own), mapping, p.types[v])
      BY DEF ShownTypes
    <2> HIDE DEF types
    <2> QED
      BY <2>1, <2>2, ShowsOption
  <1>4. PICK V \in SUBSET Values : p.types \in [V -> OptionsOn(Code)]
    BY ProfileFields
  <1>5. types \in [V -> OptionsOn(Code)]
    BY <1>3, <1>4 DEF ShownTypes
  <1>6. ValidTypes(Read(s), p.mapping, types, Read(own), mapping)
    <2>1. CASE "travelType" \notin DOMAIN p.mapping
      <3>1. p.types = <<>>
        BY <2>1 DEF ValidTypes
      <3>2. DOMAIN types = {}
        BY <3>1, <1>2
      <3>3. types = <<>>
        BY <3>2 DEF ShownTypes
      <3> QED
        BY <2>1, <3>3 DEF ValidTypes
    <2>2. CASE "travelType" \in DOMAIN p.mapping
      <3>1. OptionsOf(old, p.mapping) # {} /\ DOMAIN p.types = {o.value : o \in OptionsOf(old, p.mapping)}
        BY <2>2 DEF ValidTypes
      <3>2. DOMAIN p.types # {}
        BY <3>1
      <3>3. p.types # <<>>
        BY <3>2
      <3>4. DOMAIN p.types = {o.value : o \in OptionsOf(Read(s), p.mapping)}
        BY <3>3 DEF RefreshesProfile
      <3>5. OptionsOf(Read(s), p.mapping) # {}
        BY <3>2, <3>4
      <3> HIDE DEF types
      <3> QED
        BY <2>2, <3>4, <3>5, <1>2, <1>3 DEF ValidTypes
    <2> QED
      BY <2>1, <2>2
  <1> HIDE DEF option, types
  <1>7. PICK p1 : p1 = [p EXCEPT !.schema = s]
    OBVIOUS
  <1>8. PICK p2 : p2 = [p1 EXCEPT !.option = option]
    OBVIOUS
  <1>9. PICK p3 : p3 = [p2 EXCEPT !.types = types]
    OBVIOUS
  <1>10. p1 \in Profiles /\ p1.schema = s /\ p1.code = p.code /\ p1.mapping = p.mapping
         /\ p1.confirmed = p.confirmed
    BY <1>7 DEF Profiles, Of
  <1>11. p2 \in Profiles /\ p2.schema = s /\ p2.code = p.code /\ p2.mapping = p.mapping
         /\ p2.confirmed = p.confirmed /\ p2.option = option
    BY <1>8, <1>10, <1>1 DEF Profiles
  <1>12. p3 \in Profiles /\ p3.schema = s /\ p3.code = p.code /\ p3.mapping = p.mapping
         /\ p3.confirmed = p.confirmed /\ p3.option = option /\ p3.types = types
    BY <1>9, <1>11, <1>5 DEF Profiles
  <1>13. NewProfile(p, s, Read(own), mapping) = p3
    BY <1>7, <1>8, <1>9 DEF NewProfile, option, types
  <1> QED
    BY <1>1, <1>2, <1>3, <1>6, <1>12, <1>13

\* What a refresh returns: the schemas seen, and every choice as it was.
Kept(r, q) ==
  /\ q.code = r.code /\ q.version = r.version /\ q.confirmed = r.confirmed
  /\ q.mapping = r.mapping /\ q.allowed = r.allowed
  /\ Len(q.profiles) = Len(r.profiles) /\ DOMAIN q.profiles = DOMAIN r.profiles
  /\ \A i \in DOMAIN r.profiles :
       LET p == r.profiles[i]
           n == q.profiles[i]
       IN /\ n.code = p.code /\ n.mapping = p.mapping /\ n.confirmed = p.confirmed
          /\ n.option.value = p.option.value
          /\ DOMAIN n.types = DOMAIN p.types
          /\ \A v \in DOMAIN p.types : n.types[v].value = p.types[v].value

LEMMA KeptChoices ==
  ASSUME NEW r, NEW q, Kept(r, q)
  PROVE  Choices(q) = Choices(r) /\ CodesOf(q) = CodesOf(r)
  <1>1. \A i \in DOMAIN r.profiles :
          [v \in DOMAIN q.profiles[i].types |-> q.profiles[i].types[v].value]
            = [v \in DOMAIN r.profiles[i].types |-> r.profiles[i].types[v].value]
    BY DEF Kept
  <1>2. Choices(q).profiles = Choices(r).profiles
    BY <1>1 DEF Kept, Choices
  <1>3. CodesOf(q) = CodesOf(r)
    BY DEF Kept, CodesOf
  <1> QED
    BY <1>2, <1>3 DEF Kept, Choices

\* The schemas seen are of a catalog's forms, and those a catalog has taken over.
Covers(seen, r, l) ==
  /\ Of(seen[1], Code, l)
  /\ \A i \in DOMAIN r.profiles : Of(seen[i + 1], r.profiles[i].code, l)
Takes(q, r, seen) ==
  /\ q.schema = seen[1]
  /\ \A i \in DOMAIN r.profiles : q.profiles[i].schema = seen[i + 1]

LEMMA RefreshedIsStored ==
  ASSUME NEW r, NEW l, NEW seen, r \in Rows, Usable(r), Alike(r), Refreshes(r, seen),
         Covers(seen, r, l)
  PROVE  LET q == Refreshed(r, seen) IN Stored(q, l) /\ Kept(r, q) /\ Takes(q, r, seen)
  <1> DEFINE own == Read(seen[1])
             ps == [i \in DOMAIN r.profiles |->
                      NewProfile(r.profiles[i], seen[i + 1], own, r.mapping)]
  <1>1. \A i \in DOMAIN r.profiles :
          /\ ps[i] = NewProfile(r.profiles[i], seen[i + 1], own, r.mapping)
          /\ ps[i] \in Profiles /\ ps[i].schema = seen[i + 1]
          /\ ps[i].code = r.profiles[i].code /\ ps[i].mapping = r.profiles[i].mapping
          /\ ps[i].confirmed = r.profiles[i].confirmed
          /\ ps[i].option.value = r.profiles[i].option.value
          /\ DOMAIN ps[i].types = DOMAIN r.profiles[i].types
          /\ \A v \in DOMAIN r.profiles[i].types :
               ps[i].types[v].value = r.profiles[i].types[v].value
          /\ ExactOption(own, r.mapping, ps[i].option)
          /\ ValidTypes(Read(seen[i + 1]), ps[i].mapping, ps[i].types, own, r.mapping)
    <2> TAKE i \in DOMAIN r.profiles
    <2> DEFINE p == r.profiles[i]
    <2>1. p \in Profiles
      BY RowFields
    <2>2. Of(seen[1], Code, l) /\ Of(seen[i + 1], p.code, l)
      BY DEF Covers
    <2>3. ValidTypes(Read(p.schema), p.mapping, p.types, Read(r.schema), r.mapping)
      BY DEF Usable
    <2>4. RefreshesProfile(p, seen[i + 1], own, r.mapping)
      BY DEF Refreshes
    <2>5. ps[i] = NewProfile(p, seen[i + 1], own, r.mapping)
      OBVIOUS
    <2> HIDE DEF p, ps
    <2>6. LET q == NewProfile(p, seen[i + 1], own, r.mapping) IN
          /\ q \in Profiles
          /\ q.code = p.code /\ q.mapping = p.mapping /\ q.confirmed = p.confirmed
          /\ q.schema = seen[i + 1]
          /\ q.option.value = p.option.value
          /\ DOMAIN q.types = DOMAIN p.types
          /\ \A v \in DOMAIN p.types : q.types[v].value = p.types[v].value
          /\ ExactOption(own, r.mapping, q.option)
          /\ ValidTypes(Read(seen[i + 1]), q.mapping, q.types, own, r.mapping)
      BY <2>1, <2>2, <2>3, <2>4, ProfileRefreshes
    <2> QED
      BY <2>5, <2>6 DEF p
  <1>2. DOMAIN ps = 1..Len(r.profiles) /\ Len(r.profiles) \in Nat
    BY RowFields
  <1>3. DOMAIN ps = DOMAIN r.profiles
    OBVIOUS
  <1> HIDE DEF ps
  <1>4. ps \in Seq(Profiles) /\ Len(ps) = Len(r.profiles)
    <2>1. ps \in [1..Len(r.profiles) -> Profiles]
      <3>1. \A i \in 1..Len(r.profiles) : ps[i] \in Profiles
        BY <1>1, <1>2, <1>3
      <3> QED
        BY <3>1, <1>2 DEF ps
    <2> QED
      BY <2>1, <1>2
  <1>5. PICK q1 : q1 = [r EXCEPT !.schema = seen[1]]
    OBVIOUS
  <1>6. PICK compatible : compatible = "COMPATIBLE"
    OBVIOUS
  <1>7. PICK q2 : q2 = [q1 EXCEPT !.status = compatible]
    OBVIOUS
  <1>8. PICK q : q = [q2 EXCEPT !.profiles = ps]
    OBVIOUS
  <1>9. seen[1] \in Schemas /\ compatible \in {"COMPATIBLE", "DRIFTED"}
    BY <1>6 DEF Of, Covers
  <1>10. /\ q1 \in Rows /\ q1.schema = seen[1] /\ q1.code = r.code /\ q1.version = r.version
         /\ q1.confirmed = r.confirmed /\ q1.mapping = r.mapping /\ q1.allowed = r.allowed
    BY <1>5, <1>9 DEF Rows
  <1>11. /\ q2 \in Rows /\ q2.schema = seen[1] /\ q2.code = r.code /\ q2.version = r.version
         /\ q2.confirmed = r.confirmed /\ q2.mapping = r.mapping /\ q2.allowed = r.allowed
         /\ q2.status = compatible
    BY <1>7, <1>9, <1>10 DEF Rows
  <1>12. /\ q \in Rows /\ q.schema = seen[1] /\ q.code = r.code /\ q.version = r.version
         /\ q.confirmed = r.confirmed /\ q.mapping = r.mapping /\ q.allowed = r.allowed
         /\ q.status = compatible /\ q.profiles = ps
    BY <1>8, <1>4, <1>11 DEF Rows
  <1>13. Refreshed(r, seen) = q
    BY <1>5, <1>6, <1>7, <1>8 DEF Refreshed, ps, NewProfile, Shows, ShownTypes
  <1>14. Kept(r, q)
    BY <1>1, <1>3, <1>4, <1>12 DEF Kept
  <1>15. \A i \in DOMAIN r.profiles : q.profiles[i].schema = seen[i + 1]
    BY <1>1, <1>12
  <1>16. Usable(q)
    <2>1. q.schema.code = q.code
      BY <1>12, RowFields DEF Of, Covers
    <2>2. Fits[q.schema.form][q.mapping]
      BY <1>12 DEF Refreshes
    <2>3. q.profiles # <<>>
      <3>1. r.profiles # <<>> /\ r.profiles \in Seq(Profiles)
        BY RowFields DEF Usable
      <3>2. Len(r.profiles) # 0
        BY <3>1
      <3> QED
        BY <3>2, <1>4, <1>12
    <2>4. ASSUME NEW i \in DOMAIN q.profiles
          PROVE  LET p == q.profiles[i] IN
                 /\ p.schema.code = p.code /\ p.code # q.code
                 /\ ValidTravelMapping(Read(p.schema), p.mapping)
                 /\ ExactOption(Read(q.schema), q.mapping, p.option)
                 /\ ValidTypes(Read(p.schema), p.mapping, p.types, Read(q.schema), q.mapping)
      <3>1. i \in DOMAIN r.profiles
        BY <1>3, <1>12
      <3>2. r.profiles[i].code # r.code
        BY <3>1 DEF Usable
      <3>3. ValidTravelMapping(Read(seen[i + 1]), r.profiles[i].mapping)
        BY <3>1 DEF Refreshes, RefreshesProfile
      <3>4. seen[i + 1].code = r.profiles[i].code
        BY <3>1 DEF Of, Covers
      <3> QED
        BY <3>1, <3>2, <3>3, <3>4, <1>1, <1>12
    <2>5. {q.profiles[i].code : i \in DOMAIN q.profiles} = {r.profiles[i].code : i \in DOMAIN r.profiles}
      BY <1>14 DEF Kept
    <2>6. Cardinality({q.profiles[i].code : i \in DOMAIN q.profiles}) = Len(q.profiles)
      BY <2>5, <1>14 DEF Kept, Usable
    <2>7. CodesOf(q) = CodesOf(r) /\ r.allowed = CodesOf(r)
      BY <1>14, KeptChoices DEF Usable, CodesOf
    <2>8. q.allowed = [i \in DOMAIN q.profiles |-> q.profiles[i].code]
      BY <2>7, <1>12 DEF CodesOf
    <2>9. ValidRelation(Read(q.schema), q.mapping, q.code, q.allowed)
      BY <2>7, <1>12 DEF Refreshes, CodesOf
    <2> QED
      BY <2>1, <2>2, <2>3, <2>4, <2>6, <2>8, <2>9 DEF Usable
  <1>17. Alike(q)
    <2>1. SameContract(q.schema, q.confirmed, q.mapping)
      BY <1>12, CompatibleKeepsContract DEF Refreshes, Alike
    <2>2. ASSUME NEW i \in DOMAIN r.profiles
          PROVE  SameContract(q.profiles[i].schema, q.profiles[i].confirmed, q.profiles[i].mapping)
      <3>1. Compatible(r.profiles[i].schema, seen[i + 1], r.profiles[i].mapping)
        BY DEF Refreshes, RefreshesProfile
      <3>2. SameContract(r.profiles[i].schema, r.profiles[i].confirmed, r.profiles[i].mapping)
        BY DEF Alike
      <3>3. SameContract(seen[i + 1], r.profiles[i].confirmed, r.profiles[i].mapping)
        BY <3>1, <3>2, CompatibleKeepsContract
      <3> QED
        BY <3>3, <1>1, <1>12
    <2> QED
      BY <2>1, <2>2, <1>3, <1>12 DEF Alike
  <1>18. Stored(q, l)
    <2>1. \A i \in DOMAIN q.profiles : Of(q.profiles[i].schema, q.profiles[i].code, l)
      BY <1>1, <1>3, <1>12 DEF Covers
    <2> QED
      BY <2>1, <1>12, <1>16, <1>17 DEF Stored, Covers
  <1> QED
    BY <1>12, <1>13, <1>14, <1>15, <1>18 DEF Takes

-----------------------------------------------------------------------------
(* Requests: the fields of an operation *)

LEMMA OperationFields ==
  ASSUME NEW w \in Operations
  PROVE  /\ w.at \in States /\ w.travel \in Seq(TravelCodes) /\ w.seen \in Seq(Schemas)
         /\ w.reviewed \in Seq(Schemas) /\ w.plan \in {0} \cup DOMAIN Plans
         /\ w.version \in 0..MaxVersion /\ w.read \in Rows \cup {Undone}
         /\ w.tries \in 0..MaxConfigCasAttempts /\ w.asked \in [Codes -> Nat] \cup {Undone}
         /\ w.answer \in Rows \cup {Undone}
  BY DEF Operations

\* What two operations have in common, but for the fields named.
SameBut(u, w, names) ==
  /\ "at" \notin names => u.at = w.at
  /\ "travel" \notin names => u.travel = w.travel
  /\ "seen" \notin names => u.seen = w.seen
  /\ "reviewed" \notin names => u.reviewed = w.reviewed
  /\ "plan" \notin names => u.plan = w.plan
  /\ "version" \notin names => u.version = w.version
  /\ "read" \notin names => u.read = w.read
  /\ "tries" \notin names => u.tries = w.tries
  /\ "asked" \notin names => u.asked = w.asked
  /\ "answer" \notin names => u.answer = w.answer

LEMMA SetAt ==
  ASSUME NEW w \in Operations, NEW v, v \in States
  PROVE  LET u == [w EXCEPT !.at = v] IN
         u \in Operations /\ u.at = v /\ SameBut(u, w, {"at"})
  BY DEF Operations, SameBut

LEMMA SetTravel ==
  ASSUME NEW w \in Operations, NEW v, v \in Seq(TravelCodes)
  PROVE  LET u == [w EXCEPT !.travel = v] IN
         u \in Operations /\ u.travel = v /\ SameBut(u, w, {"travel"})
  BY DEF Operations, SameBut

LEMMA SetSeen ==
  ASSUME NEW w \in Operations, NEW v, v \in Seq(Schemas)
  PROVE  LET u == [w EXCEPT !.seen = v] IN
         u \in Operations /\ u.seen = v /\ SameBut(u, w, {"seen"})
  BY DEF Operations, SameBut

LEMMA SetReviewed ==
  ASSUME NEW w \in Operations, NEW v, v \in Seq(Schemas)
  PROVE  LET u == [w EXCEPT !.reviewed = v] IN
         u \in Operations /\ u.reviewed = v /\ SameBut(u, w, {"reviewed"})
  BY DEF Operations, SameBut

LEMMA SetPlan ==
  ASSUME NEW w \in Operations, NEW v, v \in {0} \cup DOMAIN Plans
  PROVE  LET u == [w EXCEPT !.plan = v] IN
         u \in Operations /\ u.plan = v /\ SameBut(u, w, {"plan"})
  BY DEF Operations, SameBut

LEMMA SetVersion ==
  ASSUME NEW w \in Operations, NEW v, v \in 0..MaxVersion
  PROVE  LET u == [w EXCEPT !.version = v] IN
         u \in Operations /\ u.version = v /\ SameBut(u, w, {"version"})
  BY DEF Operations, SameBut

LEMMA SetRead ==
  ASSUME NEW w \in Operations, NEW v, v \in Rows \cup {Undone}
  PROVE  LET u == [w EXCEPT !.read = v] IN
         u \in Operations /\ u.read = v /\ SameBut(u, w, {"read"})
  BY DEF Operations, SameBut

LEMMA SetTries ==
  ASSUME NEW w \in Operations, NEW v, v \in 0..MaxConfigCasAttempts
  PROVE  LET u == [w EXCEPT !.tries = v] IN
         u \in Operations /\ u.tries = v /\ SameBut(u, w, {"tries"})
  BY DEF Operations, SameBut

LEMMA SetAsked ==
  ASSUME NEW w \in Operations, NEW v, v \in [Codes -> Nat] \cup {Undone}
  PROVE  LET u == [w EXCEPT !.asked = v] IN
         u \in Operations /\ u.asked = v /\ SameBut(u, w, {"asked"})
  BY DEF Operations, SameBut

LEMMA SetAnswer ==
  ASSUME NEW w \in Operations, NEW v, v \in Rows \cup {Undone}
  PROVE  LET u == [w EXCEPT !.answer = v] IN
         u \in Operations /\ u.answer = v /\ SameBut(u, w, {"answer"})
  BY DEF Operations, SameBut

-----------------------------------------------------------------------------
(* Requests: what an advance of the row, or of the live forms, leaves as it is *)

LEMMA IdleWorks ==
  /\ Idle \in Operations /\ Idle.at = "idle" /\ Idle.travel = <<>> /\ Idle.seen = <<>>
  /\ Idle.tries = 0 /\ Idle.asked = Undone
  /\ \A r, l : Working(Idle, r, l)
  <1>1. Idle \in Operations
    BY BoundsAssumption DEF Idle, Operations, States, MaxConfigCasAttempts
  <1>2. Idle.at = "idle" /\ Idle.travel = <<>> /\ Idle.seen = <<>> /\ Idle.tries = 0
        /\ Idle.asked = Undone
    BY DEF Idle
  <1>3. Len(<<>>) = 0 /\ DOMAIN <<>> = {}
    OBVIOUS
  <1>4. \A l : Seen(Idle, l)
    BY <1>2, <1>3 DEF Seen
  <1> QED
    BY <1>1, <1>2, <1>4 DEF Working

\* The row goes to its next version at most, and while it has a version means the same.
Advance(r, q) ==
  /\ q.version \in {r.version, r.version + 1}
  /\ q.version = r.version => Choices(q) = Choices(r)

Later(l, m) ==
  \A c \in Codes :
    /\ l[c].modified \in Nat /\ m[c].modified \in Nat /\ l[c].modified <= m[c].modified
    /\ l[c].modified = m[c].modified => l[c] = m[c]

\* The code of a schema read is that of one of the forms.
LEMMA CodeOfForm ==
  ASSUME NEW w \in Operations, NEW k \in 1..(Len(w.travel) + 1)
  PROVE  CodeAt(w.travel, k) \in Codes
  <1>1. w.travel \in Seq(TravelCodes)
    BY OperationFields
  <1>2. k # 1 => k - 1 \in 1..Len(w.travel)
    BY <1>1
  <1> QED
    BY <1>1, <1>2 DEF CodeAt, Codes

LEMMA StoredLater ==
  ASSUME NEW r, NEW l, NEW m, Later(l, m), Stored(r, l)
  PROVE  Stored(r, m)
  <1>1. r \in Rows
    BY DEF Stored
  <1>2. Of(r.schema, Code, m)
    BY <1>1, RowFields, OfLater DEF Stored, Later, Codes
  <1>3. ASSUME NEW i \in DOMAIN r.profiles
        PROVE  Of(r.profiles[i].schema, r.profiles[i].code, m)
    <2>1. r.profiles[i] \in Profiles
      BY <1>1, RowFields
    <2>2. r.profiles[i].code \in Codes /\ r.profiles[i].schema \in Schemas
      BY <2>1, ProfileFields DEF Codes
    <2>3. Of(r.profiles[i].schema, r.profiles[i].code, l)
      BY DEF Stored
    <2> QED
      BY <2>2, <2>3, OfLater DEF Later
  <1> QED
    BY <1>1, <1>2, <1>3 DEF Stored

LEMMA WorkingLater ==
  ASSUME NEW w \in Operations, NEW r, NEW l, NEW m, Later(l, m), Working(w, r, l)
  PROVE  Working(w, r, m)
  <1>1. Seen(w, m)
    <2> SUFFICES ASSUME NEW k \in DOMAIN w.seen
                 PROVE  Of(w.seen[k], CodeAt(w.travel, k), m)
      BY DEF Working, Seen
    <2>1. w.seen \in Seq(Schemas) /\ w.travel \in Seq(TravelCodes) /\ Len(w.seen) <= Len(w.travel) + 1
      BY OperationFields DEF Working, Seen
    <2>2. k \in 1..(Len(w.travel) + 1) /\ w.seen[k] \in Schemas
      BY <2>1
    <2>3. CodeAt(w.travel, k) \in Codes
      BY <2>2, CodeOfForm
    <2>4. Of(w.seen[k], CodeAt(w.travel, k), l)
      BY DEF Working, Seen
    <2> QED
      BY <2>2, <2>3, <2>4, OfLater DEF Later
  <1>2. Based(w, r, l) => Based(w, r, m)
    <2> HAVE Based(w, r, l)
    <2>1. Stored(w.read, m)
      BY StoredLater DEF Based
    <2>2. w.asked \in [Codes -> Nat] /\ \A c \in Codes : w.asked[c] <= m[c].modified
      BY DEF Based, Later
    <2> QED
      BY <2>1, <2>2 DEF Based
  <1> QED
    BY <1>1, <1>2 DEF Working

LEMMA WorkingAdvance ==
  ASSUME NEW w \in Operations, NEW r, NEW q, NEW l, Working(w, r, l),
         r # Undone => q # Undone /\ r \in Rows /\ q \in Rows /\ Advance(r, q)
  PROVE  Working(w, q, l)
  <1>1. Based(w, r, l) => Based(w, q, l)
    <2> HAVE Based(w, r, l)
    <2>1. r \in Rows /\ q \in Rows /\ Advance(r, q) /\ q # Undone /\ w.version <= r.version
      BY DEF Based
    <2>2. r.version \in Nat /\ q.version \in Nat
      BY <2>1, RowFields
    <2>3. w.version \in Nat
      BY OperationFields, BoundsAssumption
    <2>4. w.version <= q.version
      BY <2>1, <2>2, <2>3 DEF Advance
    <2>5. w.version = q.version => r.version = q.version
      BY <2>1, <2>2, <2>3 DEF Advance
    <2>6. w.version = q.version => Choices(q) = Choices(w.read)
      BY <2>1, <2>5 DEF Advance, Based
    <2> QED
      BY <2>1, <2>4, <2>6 DEF Based
  <1> QED
    BY <1>1 DEF Working

-----------------------------------------------------------------------------
(* One step of one request *)

GoesOn(s) ==
  op[s].at = "loading" /\ op'[s] # op[s] /\ row' # row =>
    /\ row'.schema.modified >= row.schema.modified
    /\ \A i \in DOMAIN row.profiles :
         row'.profiles[i].schema.modified >= row.profiles[i].schema.modified

\* What a step keeps: the invariant, and the two action properties.
Sound ==
  /\ IInv'
  /\ row # Undone => Advance(row, row')
  /\ \A s \in Submitters : GoesOn(s)

LEMMA LiveLater ==
  ASSUME LiveForms
  PROVE  Later(live, live)
  BY DEF LiveForms, Later

\* A request that moves, with the row or without.
LEMMA RequestMoves ==
  ASSUME IInv, NEW o \in Requests, NEW w \in Operations, op' = [op EXCEPT ![o] = w], live' = live,
         row' # Undone => Stored(row', live),
         row # Undone => row' # Undone /\ Advance(row, row'),
         Working(w, row', live), o \in Submitters => GoesOn(o)
  PROVE  Sound
  <1>1. LiveForms'
    BY DEF IInv, LiveForms
  <1>2. StoredRow'
    BY DEF StoredRow
  <1>3. op' \in [Requests -> Operations] /\ op'[o] = w /\ \A p \in Requests \ {o} : op'[p] = op[p]
    BY DEF IInv
  <1>4. ASSUME NEW p \in Requests
        PROVE  Working(op'[p], row', live')
    <2>1. CASE p = o
      BY <2>1, <1>3
    <2>2. CASE p # o
      <3>1. op[p] \in Operations /\ Working(op[p], row, live)
        BY DEF IInv
      <3>2. row # Undone => row \in Rows /\ row' \in Rows
        BY DEF IInv, StoredRow, Stored
      <3>3. Working(op[p], row', live)
        BY <3>1, <3>2, WorkingAdvance
      <3> QED
        BY <3>3, <2>2, <1>3
    <2> QED
      BY <2>1, <2>2
  <1>5. ASSUME NEW s \in Submitters
        PROVE  GoesOn(s)
    BY <1>3 DEF GoesOn, Requests
  <1> QED
    BY <1>1, <1>2, <1>3, <1>4, <1>5 DEF Sound, IInv

LEMMA AdvanceSame == \A r : Advance(r, r)
  BY DEF Advance

LEMMA RowAlone ==
  ASSUME IInv, NEW o \in Requests, NEW w \in Operations, op' = [op EXCEPT ![o] = w],
         live' = live, row' = row, Working(w, row, live)
  PROVE  Sound
  <1>1. row' # Undone => Stored(row', live)
    BY DEF IInv, StoredRow
  <1>2. row # Undone => row' # Undone /\ Advance(row, row')
    BY AdvanceSame
  <1>3. Working(w, row', live) /\ GoesOn(o)
    BY DEF GoesOn
  <1> QED
    BY <1>1, <1>2, <1>3, RequestMoves

LEMMA GivesUp ==
  ASSUME IInv, NEW o \in Requests, op' = [op EXCEPT ![o] = Idle], UNCHANGED <<live, row>>
  PROVE  Sound
  BY IdleWorks, RowAlone

LEMMA PublishStep ==
  ASSUME IInv, NEW c \in Codes, NEW form \in 2..Len(Forms[c]), Publish(c, form)
  PROVE  Sound
  <1>1. live \in [Codes -> [form : Nat, modified : Nat]] /\ LiveForms
    BY DEF IInv, LiveForms
  <1>2. form \in DOMAIN Forms[c] /\ form \in Nat
    BY FormsAssumption DEF IsSequence
  <1>3. PICK w : w = [form |-> form, modified |-> live[c].modified + 1]
    OBVIOUS
  <1>4. w \in [form : Nat, modified : Nat] /\ w.form = form /\ w.modified = live[c].modified + 1
    BY <1>1, <1>2, <1>3
  <1>5. live' = [live EXCEPT ![c] = w]
    BY <1>3 DEF Publish
  <1>6. /\ live' \in [Codes -> [form : Nat, modified : Nat]]
        /\ live'[c] = w /\ \A d \in Codes \ {c} : live'[d] = live[d]
    BY <1>1, <1>4, <1>5
  <1>7. Later(live, live')
    BY <1>1, <1>4, <1>6 DEF Later
  <1>8. LiveForms'
    BY <1>1, <1>2, <1>4, <1>6, BoundsAssumption DEF LiveForms, Publish
  <1>9. row' = row /\ op' = op
    BY DEF Publish
  <1>10. StoredRow'
    BY <1>7, <1>9, StoredLater DEF IInv, StoredRow
  <1>11. ASSUME NEW p \in Requests
         PROVE  Working(op'[p], row', live')
    BY <1>7, <1>9, WorkingLater DEF IInv
  <1>12. row # Undone => Advance(row, row')
    BY <1>9, AdvanceSame
  <1> QED
    BY <1>8, <1>9, <1>10, <1>11, <1>12 DEF Sound, IInv, GoesOn

-----------------------------------------------------------------------------
(* Reading the live forms *)

LEMMA SchemaAtCode ==
  ASSUME NEW r, NEW l, Stored(r, l), NEW travel, travel = CodesOf(r), NEW k \in 1..(Len(travel) + 1)
  PROVE  Of(SchemaAt(r, k), CodeAt(travel, k), l)
  <1>1. r.profiles \in Seq(Profiles) /\ DOMAIN r.profiles = 1..Len(r.profiles)
    BY RowFields DEF Stored
  <1>2. Len(travel) = Len(r.profiles)
    BY <1>1 DEF CodesOf
  <1>3. CASE k = 1
    BY <1>3 DEF SchemaAt, CodeAt, Stored
  <1>4. CASE k # 1
    <2>1. k - 1 \in DOMAIN r.profiles
      BY <1>1, <1>2, <1>4
    <2>2. travel[k - 1] = r.profiles[k - 1].code
      BY <2>1 DEF CodesOf
    <2> QED
      BY <1>4, <2>1, <2>2 DEF SchemaAt, CodeAt, Stored
  <1> QED
    BY <1>3, <1>4

LEMMA FetchStep ==
  ASSUME IInv, NEW o \in Requests, Fetch(o)
  PROVE  Sound
  <1> DEFINE u == op[o]
             n == Len(u.seen) + 1
             c == ToRead(o)[n]
             s == Schema(c)
  <1>1. u \in Operations /\ Working(u, row, live) /\ LiveForms
    BY DEF IInv
  <1>2. /\ u.seen \in Seq(Schemas) /\ u.travel \in Seq(TravelCodes)
        /\ Len(u.seen) <= Len(u.travel) + 1
    BY <1>1, OperationFields DEF Working, Seen
  <1>3. /\ u.at \in {"inspecting", "confirming", "loading", "diagnosing"}
        /\ Len(u.seen) # Len(<<Code>> \o u.travel)
        /\ Known[c][live[c].form] # Undone
        /\ op' = [op EXCEPT ![o].seen = Append(@, s)]
        /\ UNCHANGED <<live, row>>
    BY DEF Fetch, AllSeen, ToRead
  <1>4. n \in 1..(Len(u.travel) + 1)
    <2>1. Len(<<Code>> \o u.travel) = Len(u.travel) + 1
      BY <1>2
    <2> QED
      BY <1>2, <1>3, <2>1
  <1>5. c = CodeAt(u.travel, n) /\ c \in Codes
    <2>1. c = CodeAt(u.travel, n)
      BY <1>2, <1>4 DEF ToRead, CodeAt
    <2> QED
      BY <2>1, <1>1, <1>4, CodeOfForm
  <1>6. Of(s, c, live) /\ s \in Schemas /\ s.code = c /\ s.modified = live[c].modified
    BY <1>1, <1>3, <1>5 DEF Schema, Of, Schemas, LiveForms
  <1> HIDE DEF c, s
  <1>7. PICK seen : seen = Append(u.seen, s)
    OBVIOUS
  <1>8. /\ seen \in Seq(Schemas) /\ Len(seen) = n /\ seen[n] = s
        /\ \A k \in 1..n : k # n => k \in DOMAIN u.seen /\ seen[k] = u.seen[k]
        /\ DOMAIN seen = 1..n
    BY <1>2, <1>6, <1>7
  <1>9. PICK w : w = [u EXCEPT !.seen = seen]
    OBVIOUS
  <1>10. w \in Operations /\ w.seen = seen /\ SameBut(w, u, {"seen"})
    BY <1>1, <1>8, <1>9, SetSeen
  <1>11. op' = [op EXCEPT ![o] = w]
    BY <1>3, <1>7, <1>9
  <1>12. Seen(w, live)
    <2>1. w.travel = u.travel
      BY <1>10 DEF SameBut
    <2>2. \A k \in DOMAIN seen : Of(seen[k], CodeAt(u.travel, k), live)
      BY <1>1, <1>5, <1>6, <1>8 DEF Working, Seen
    <2> QED
      BY <1>4, <1>8, <1>10, <2>1, <2>2 DEF Seen
  <1>13. Based(u, row, live) => Based(w, row, live)
    BY <1>10 DEF Based, SameBut
  <1>14. u.at \in {"loading", "diagnosing"} => Fresh(w)
    <2> HAVE u.at \in {"loading", "diagnosing"}
    <2>1. Based(u, row, live) /\ Fresh(u)
      BY <1>1 DEF Working
    <2>2. w.read = u.read /\ w.asked = u.asked
      BY <1>10 DEF SameBut
    <2>3. s.modified >= u.asked[s.code]
      BY <2>1, <1>1, <1>5, <1>6 DEF Based, LiveForms
    <2>4. s.modified >= SchemaAt(u.read, n).modified
      <3>1. Of(SchemaAt(u.read, n), c, live)
        BY <2>1, <1>4, <1>5, SchemaAtCode DEF Based
      <3> QED
        BY <3>1, <1>1, <1>5, <1>6 DEF Of, LiveForms, Schemas
    <2>5. \A k \in DOMAIN seen :
            /\ seen[k].modified >= u.asked[seen[k].code]
            /\ seen[k].modified >= SchemaAt(u.read, k).modified
      BY <2>1, <2>3, <2>4, <1>8 DEF Fresh
    <2> QED
      BY <2>2, <2>5, <1>10 DEF Fresh
  <1>15. Working(w, row, live)
    BY <1>1, <1>3, <1>10, <1>12, <1>13, <1>14 DEF Working, SameBut
  <1> QED
    BY <1>3, <1>10, <1>11, <1>15, RowAlone

-----------------------------------------------------------------------------
(* Administrators *)

LEMMA StartInspectionStep ==
  ASSUME IInv, NEW a \in Administrators, StartInspection(a)
  PROVE  Sound
  <1>1. a \in Requests
    BY DEF Requests
  <1>2. PICK travel \in Requested :
          op' = [op EXCEPT ![a] = [Idle EXCEPT !.at = "inspecting", !.travel = travel]]
    BY DEF StartInspection
  <1>3. PICK at : at = "inspecting"
    OBVIOUS
  <1>4. PICK w1 : w1 = [Idle EXCEPT !.at = at]
    OBVIOUS
  <1>5. PICK w : w = [w1 EXCEPT !.travel = travel]
    OBVIOUS
  <1>6. at \in States /\ travel \in Seq(TravelCodes)
    BY <1>3, RequestedAssumption DEF States
  <1>7. w1 \in Operations /\ w1.at = at /\ SameBut(w1, Idle, {"at"})
    BY <1>4, <1>6, IdleWorks, SetAt
  <1>8. w \in Operations /\ w.travel = travel /\ SameBut(w, w1, {"travel"})
    BY <1>5, <1>6, <1>7, SetTravel
  <1>9. w.at = "inspecting" /\ w.seen = <<>>
    BY <1>3, <1>7, <1>8, IdleWorks DEF SameBut
  <1>10. Len(<<>>) = 0 /\ DOMAIN <<>> = {} /\ Len(w.travel) \in Nat
    BY <1>6, <1>8
  <1>11. Working(w, row, live)
    BY <1>9, <1>10 DEF Working, Seen
  <1>12. op' = [op EXCEPT ![a] = w]
    BY <1>2, <1>3, <1>4, <1>5
  <1>13. UNCHANGED <<live, row>>
    BY DEF StartInspection
  <1> QED
    BY <1>1, <1>8, <1>11, <1>12, <1>13, RowAlone

\* A catalog observed to have drifted says as much as before.
LEMMA DriftedIsStored ==
  ASSUME NEW r, NEW l, Stored(r, l)
  PROVE  LET q == [r EXCEPT !.status = "DRIFTED"] IN
         /\ Stored(q, l) /\ Kept(r, q) /\ q.schema = r.schema /\ q.profiles = r.profiles
         /\ q.status = "DRIFTED"
  <1>1. PICK drifted : drifted = "DRIFTED"
    OBVIOUS
  <1>2. PICK q : q = [r EXCEPT !.status = drifted]
    OBVIOUS
  <1>3. /\ q \in Rows /\ q.code = r.code /\ q.version = r.version /\ q.schema = r.schema
        /\ q.confirmed = r.confirmed /\ q.mapping = r.mapping /\ q.allowed = r.allowed
        /\ q.profiles = r.profiles /\ q.status = drifted
    BY <1>1, <1>2 DEF Stored, Rows
  <1>4. Usable(q) /\ Alike(q)
    BY <1>3 DEF Usable, Alike, Stored
  <1>5. Stored(q, l)
    BY <1>3, <1>4 DEF Stored
  <1>6. Kept(r, q)
    BY <1>3 DEF Kept
  <1> QED
    BY <1>1, <1>2, <1>3, <1>5, <1>6

LEMMA KeptAdvances ==
  ASSUME NEW r, NEW q, Kept(r, q)
  PROVE  Advance(r, q)
  BY KeptChoices DEF Kept, Advance

SawAll(w) == Len(w.seen) = Len(<<Code>> \o w.travel)

\* The schemas a request has seen, when it has seen all, are those of its catalog's forms.
LEMMA SeenAll ==
  ASSUME NEW w \in Operations, NEW l, Seen(w, l), NEW r \in Rows, w.travel = CodesOf(r),
         SawAll(w)
  PROVE  /\ Of(w.seen[1], Code, l)
         /\ 1 \in DOMAIN w.seen
         /\ \A i \in DOMAIN r.profiles :
              i + 1 \in DOMAIN w.seen /\ i + 1 # 1 /\ Of(w.seen[i + 1], r.profiles[i].code, l)
         /\ Covers(w.seen, r, l)
  <1>1. w.seen \in Seq(Schemas) /\ w.travel \in Seq(TravelCodes)
    BY OperationFields
  <1>2. DOMAIN r.profiles = 1..Len(r.profiles) /\ Len(r.profiles) \in Nat
    BY RowFields
  <1>3. Len(w.travel) = Len(r.profiles)
    BY <1>1, <1>2 DEF CodesOf
  <1>4. DOMAIN w.seen = 1..(Len(r.profiles) + 1)
    BY <1>1, <1>3 DEF SawAll
  <1>5. Of(w.seen[1], Code, l) /\ 1 \in DOMAIN w.seen
    BY <1>2, <1>4 DEF Seen, CodeAt
  <1>6. ASSUME NEW i \in DOMAIN r.profiles
        PROVE  i + 1 \in DOMAIN w.seen /\ i + 1 # 1 /\ Of(w.seen[i + 1], r.profiles[i].code, l)
    <2>0. i \in 1..Len(r.profiles)
      BY <1>2
    <2>1. i \in Nat /\ i + 1 \in DOMAIN w.seen /\ i + 1 # 1 /\ i + 1 - 1 = i
      BY <2>0, <1>2, <1>4
    <2>2. CodeAt(w.travel, i + 1) = r.profiles[i].code
      BY <2>1 DEF CodeAt, CodesOf
    <2> QED
      BY <2>1, <2>2 DEF Seen
  <1>7. Covers(w.seen, r, l)
    BY <1>5, <1>6 DEF Covers
  <1> QED
    BY <1>5, <1>6, <1>7

LEMMA StoredIsRow ==
  ASSUME NEW r, NEW l, Stored(r, l)
  PROVE  r \in Rows /\ r # Undone
  BY UndoneAssumption DEF Stored

LEMMA InspectStep ==
  ASSUME IInv, NEW a \in Administrators, Inspect(a)
  PROVE  Sound
  <1> DEFINE u == op[a]
             same == row # Undone /\ row.code = Code /\ u.travel = CodesOf(row)
             accepted == same /\ Usable(row) /\ Refreshes(row, u.seen)
             version == IF row = Undone THEN 0 ELSE row.version
  <1>1. a \in Requests
    BY DEF Requests
  <1>2. u \in Operations /\ Working(u, row, live) /\ (row # Undone => Stored(row, live))
    BY <1>1 DEF IInv, StoredRow
  <1>3. /\ u.at = "inspecting" /\ SawAll(u)
        /\ row' = IF accepted THEN Refreshed(row, u.seen)
                  ELSE IF same THEN [row EXCEPT !.status = "DRIFTED"] ELSE row
        /\ op' = [op EXCEPT ![a] = [Idle EXCEPT !.at = "reviewing", !.travel = u.travel,
                       !.reviewed = u.seen, !.version = version]]
        /\ UNCHANGED live
    BY DEF Inspect, AllSeen, ToRead, SawAll, CodesOf
  <1>4. version \in 0..MaxVersion
    BY <1>2, StoredIsRow, RowFields, BoundsAssumption
  <1>5. u.travel \in Seq(TravelCodes) /\ u.seen \in Seq(Schemas)
    BY <1>2, OperationFields
  <1> HIDE DEF version
  <1>6. PICK at : at = "reviewing"
    OBVIOUS
  <1>7. PICK w1 : w1 = [Idle EXCEPT !.at = at]
    OBVIOUS
  <1>8. PICK w2 : w2 = [w1 EXCEPT !.travel = u.travel]
    OBVIOUS
  <1>9. PICK w3 : w3 = [w2 EXCEPT !.reviewed = u.seen]
    OBVIOUS
  <1>10. PICK w : w = [w3 EXCEPT !.version = version]
    OBVIOUS
  <1>11. at \in States
    BY <1>6 DEF States
  <1>12. w1 \in Operations /\ w1.at = at /\ SameBut(w1, Idle, {"at"})
    BY <1>7, <1>11, IdleWorks, SetAt
  <1>13. w2 \in Operations /\ w2.travel = u.travel /\ SameBut(w2, w1, {"travel"})
    BY <1>8, <1>5, <1>12, SetTravel
  <1>14. w3 \in Operations /\ w3.reviewed = u.seen /\ SameBut(w3, w2, {"reviewed"})
    BY <1>9, <1>5, <1>13, SetReviewed
  <1>15. w \in Operations /\ SameBut(w, w3, {"version"})
    BY <1>10, <1>4, <1>14, SetVersion
  <1>16. w.at = "reviewing" /\ w.seen = <<>> /\ w.travel = u.travel
    BY <1>6, <1>12, <1>13, <1>14, <1>15, IdleWorks DEF SameBut
  <1>17. Len(<<>>) = 0 /\ DOMAIN <<>> = {} /\ Len(w.travel) \in Nat
    BY <1>5, <1>16
  <1>18. Working(w, row', live)
    BY <1>16, <1>17 DEF Working, Seen
  <1>19. op' = [op EXCEPT ![a] = w]
    BY <1>3, <1>6, <1>7, <1>8, <1>9, <1>10
  <1>20. CASE accepted
    <2>1. row \in Rows /\ Usable(row) /\ Alike(row) /\ Refreshes(row, u.seen)
      BY <1>2, <1>20 DEF Stored
    <2>2. Covers(u.seen, row, live)
      BY <1>2, <1>3, <1>20, <2>1, SeenAll DEF Working
    <2>3. row' = Refreshed(row, u.seen)
      BY <1>3, <1>20
    <2>4. Stored(row', live) /\ Kept(row, row')
      BY <2>1, <2>2, <2>3, RefreshedIsStored
    <2> QED
      BY <2>4, <1>2, <1>20, KeptAdvances, StoredIsRow, <1>1, <1>3, <1>15, <1>18, <1>19, RequestMoves
         DEF GoesOn
  <1>21. CASE ~accepted /\ same
    <2>1. Stored(row, live)
      BY <1>2, <1>21
    <2>2. row' = [row EXCEPT !.status = "DRIFTED"]
      BY <1>3, <1>21
    <2>3. Stored(row', live) /\ Kept(row, row')
      BY <2>1, <2>2, DriftedIsStored
    <2> QED
      BY <2>3, <1>2, <1>21, KeptAdvances, StoredIsRow, <1>1, <1>3, <1>15, <1>18, <1>19, RequestMoves
         DEF GoesOn
  <1>22. CASE ~accepted /\ ~same
    <2>1. row' = row
      BY <1>3, <1>22
    <2>2. Working(w, row, live)
      BY <1>16, <1>17 DEF Working, Seen
    <2> QED
      BY <2>1, <2>2, <1>1, <1>3, <1>15, <1>19, RowAlone
  <1> QED
    BY <1>20, <1>21, <1>22

LEMMA StartConfirmationStep ==
  ASSUME IInv, NEW a \in Administrators, StartConfirmation(a)
  PROVE  Sound
  <1> DEFINE u == op[a]
  <1>1. a \in Requests
    BY DEF Requests
  <1>2. u \in Operations /\ Working(u, row, live)
    BY <1>1 DEF IInv
  <1>3. u.at = "reviewing" /\ u.version < MaxVersion /\ UNCHANGED <<live, row>>
    BY DEF StartConfirmation
  <1>4. PICK plan \in DOMAIN Plans : op' = [op EXCEPT ![a].at = "confirming", ![a].plan = plan]
    BY DEF StartConfirmation
  <1>5. PICK at : at = "confirming"
    OBVIOUS
  <1>6. PICK w1 : w1 = [u EXCEPT !.at = at]
    OBVIOUS
  <1>7. PICK w : w = [w1 EXCEPT !.plan = plan]
    OBVIOUS
  <1>8. at \in States
    BY <1>5 DEF States
  <1>9. w1 \in Operations /\ w1.at = at /\ SameBut(w1, u, {"at"})
    BY <1>2, <1>6, <1>8, SetAt
  <1>10. w \in Operations /\ w.plan = plan /\ SameBut(w, w1, {"plan"})
    BY <1>7, <1>9, SetPlan
  <1>11. /\ w.at = "confirming" /\ w.seen = u.seen /\ w.travel = u.travel /\ w.version = u.version
         /\ w.plan \in DOMAIN Plans
    BY <1>5, <1>9, <1>10 DEF SameBut
  <1>12. Seen(w, live)
    BY <1>2, <1>11 DEF Working, Seen
  <1>13. Working(w, row, live)
    BY <1>3, <1>11, <1>12 DEF Working
  <1>14. op' = [op EXCEPT ![a] = w]
    <2>1. op \in [Requests -> Operations]
      BY DEF IInv
    <2> QED
      BY <2>1, <1>1, <1>4, <1>5, <1>6, <1>7
  <1> QED
    BY <1>1, <1>3, <1>10, <1>13, <1>14, RowAlone

\* The catalog an administrator confirms, when it can be used, is a row.
LEMMA ConfirmedIsStored ==
  ASSUME IInv, NEW a \in Requests, op[a].at = "confirming", AllSeen(a), Usable(Confirmed(a))
  PROVE  Stored(Confirmed(a), live) /\ Confirmed(a).version = op[a].version + 1
  <1> DEFINE u == op[a]
             plan == Plans[u.plan]
             r == Confirmed(a)
             chosen(i) == plan.travel[u.travel[i]]
  <1>1. u \in Operations /\ Working(u, row, live)
    BY DEF IInv
  <1>2. /\ u.seen \in Seq(Schemas) /\ u.travel \in Seq(TravelCodes) /\ u.version \in 0..MaxVersion
        /\ u.version < MaxVersion /\ u.plan \in DOMAIN Plans
        /\ SawAll(u) /\ Seen(u, live)
    BY <1>1, OperationFields DEF Working, AllSeen, ToRead, SawAll
  <1>3. DOMAIN u.travel = 1..Len(u.travel) /\ Len(u.travel) \in Nat
        /\ DOMAIN u.seen = 1..(Len(u.travel) + 1)
    BY <1>2 DEF SawAll
  <1>4. Of(u.seen[1], Code, live)
    BY <1>2, <1>3 DEF Seen, CodeAt
  <1>5. \A i \in DOMAIN u.travel : u.travel[i] \in TravelCodes /\ Of(u.seen[i + 1], u.travel[i], live)
    <2> TAKE i \in DOMAIN u.travel
    <2>1. i \in Nat /\ i + 1 \in DOMAIN u.seen /\ i + 1 # 1 /\ i + 1 - 1 = i
      BY <1>3
    <2>2. \A t : CodeAt(t, i + 1) = t[i]
      BY <2>1 DEF CodeAt
    <2> QED
      BY <2>1, <2>2, <1>2 DEF Seen
  <1>6. /\ r.code = Code /\ r.version = u.version + 1 /\ r.schema = u.seen[1]
        /\ r.confirmed = u.seen[1] /\ r.mapping = plan.mapping /\ r.allowed = u.travel
        /\ r.status = "COMPATIBLE" /\ DOMAIN r.profiles = DOMAIN u.travel
        /\ \A i \in DOMAIN u.travel :
             r.profiles[i] = Profile(u.travel[i], u.seen[i + 1], chosen(i), u.seen[i + 1])
    BY DEF Confirmed, NextVersion
  <1>7. \A i \in DOMAIN u.travel :
          LET p == r.profiles[i] IN
          /\ p = [code |-> u.travel[i], schema |-> u.seen[i + 1], mapping |-> chosen(i).mapping,
                  option |-> chosen(i).option, types |-> chosen(i).types,
                  confirmed |-> u.seen[i + 1]]
          /\ p.code = u.travel[i] /\ p.schema = u.seen[i + 1] /\ p.mapping = chosen(i).mapping
          /\ p.option = chosen(i).option /\ p.types = chosen(i).types
          /\ p.confirmed = u.seen[i + 1]
    <2> TAKE i \in DOMAIN u.travel
    <2>1. r.profiles[i] = Profile(u.travel[i], u.seen[i + 1], chosen(i), u.seen[i + 1])
      BY <1>6
    <2> HIDE DEF r, plan, chosen
    <2> QED
      BY <2>1 DEF Profile
  <1>8. PICK ps : ps = [i \in DOMAIN u.travel |->
                          Profile(u.travel[i], u.seen[i + 1], chosen(i), u.seen[i + 1])]
    OBVIOUS
  <1>9. PICK v : v = u.version + 1
    OBVIOUS
  <1>10. r = [code |-> Code, version |-> v, schema |-> u.seen[1], confirmed |-> u.seen[1],
              mapping |-> plan.mapping, allowed |-> u.travel, status |-> "COMPATIBLE",
              profiles |-> ps]
    BY <1>8, <1>9 DEF Confirmed, NextVersion
  <1>11. ps = r.profiles
    BY <1>10
  <1> HIDE DEF r
  <1>12. \A m :
           /\ OptionsOf(Read(u.seen[1]), m) \subseteq OptionsOn(Code)
           /\ \A i \in DOMAIN u.travel :
                OptionsOf(Read(u.seen[i + 1]), m) \subseteq OptionsOn(u.travel[i])
    <2> TAKE m
    <2>1. ASSUME NEW s, NEW c \in Codes, Of(s, c, live)
          PROVE  OptionsOf(Read(s), m) \subseteq OptionsOn(c)
      <3>1. s.code = c /\ s.form \in DOMAIN Forms[c] /\ Known[c][s.form] # Undone
        BY <2>1 DEF Of
      <3>2. Read(s) = [code |-> c, components |-> Known[c][s.form]]
        BY <3>1 DEF Read
      <3> QED
        BY <3>1, <3>2, OptionsOffered
    <2> QED
      BY <2>1, <1>4, <1>5 DEF Codes
  <1>13. ASSUME NEW i \in DOMAIN u.travel
         PROVE  r.profiles[i] \in Profiles
    <2> DEFINE p == r.profiles[i]
    <2>1. /\ ExactOption(Read(r.schema), r.mapping, p.option)
          /\ ValidTypes(Read(p.schema), p.mapping, p.types, Read(r.schema), r.mapping)
      BY <1>6 DEF Usable, r
    <2>2. p.option \in OptionsOn(Code)
      BY <2>1, <1>6, <1>12 DEF ExactOption
    <2>3. \E V \in SUBSET Values : p.types \in [V -> OptionsOn(Code)]
      <3>1. p.types = [x \in DOMAIN p.types |-> p.types[x]]
        BY <1>2, <1>5, <1>7, PlansAssumption
      <3>2. CASE "travelType" \notin DOMAIN p.mapping
        <4>1. p.types = <<>>
          BY <2>1, <3>2 DEF ValidTypes
        <4>2. DOMAIN p.types = {}
          BY <4>1
        <4>3. p.types \in [{} -> OptionsOn(Code)]
          BY <3>1, <4>2
        <4> QED
          BY <4>3
      <3>3. CASE "travelType" \in DOMAIN p.mapping
        <4>1. /\ DOMAIN p.types = {o.value : o \in OptionsOf(Read(p.schema), p.mapping)}
              /\ \A x \in DOMAIN p.types : p.types[x] \in OptionsOf(Read(r.schema), r.mapping)
          BY <2>1, <3>3 DEF ValidTypes, ExactOption
        <4>2. OptionsOf(Read(p.schema), p.mapping) \subseteq OptionsOn(u.travel[i])
          BY <1>7, <1>12
        <4>3. DOMAIN p.types \subseteq Values
          BY <4>1, <4>2, <1>5 DEF Values
        <4>4. \A x \in DOMAIN p.types : p.types[x] \in OptionsOn(Code)
          BY <4>1, <1>6, <1>12
        <4>5. p.types \in [DOMAIN p.types -> OptionsOn(Code)]
          BY <3>1, <4>4
        <4> QED
          BY <4>3, <4>5
      <3> QED
        BY <3>2, <3>3
    <2>4. /\ u.travel[i] \in TravelCodes /\ u.seen[i + 1] \in Schemas
      BY <1>5 DEF Of
    <2>5. chosen(i).mapping \in {Plans[q].travel[c].mapping : q \in DOMAIN Plans, c \in TravelCodes}
      BY <1>2, <1>5
    <2>6. /\ p = [code |-> u.travel[i], schema |-> u.seen[i + 1], mapping |-> chosen(i).mapping,
                  option |-> p.option, types |-> p.types, confirmed |-> u.seen[i + 1]]
      BY <1>7
    <2>7. PICK mapping, option, types :
            mapping = chosen(i).mapping /\ option = p.option /\ types = p.types
      OBVIOUS
    <2>8. PICK code, schema : code = u.travel[i] /\ schema = u.seen[i + 1]
      OBVIOUS
    <2>9. p = [code |-> code, schema |-> schema, mapping |-> mapping, option |-> option,
               types |-> types, confirmed |-> schema]
      BY <2>6, <2>7, <2>8
    <2>10. /\ code \in TravelCodes /\ schema \in Schemas /\ option \in OptionsOn(Code)
           /\ types \in UNION {[V -> OptionsOn(Code)] : V \in SUBSET Values}
           /\ mapping \in {Plans[q].travel[c].mapping : q \in DOMAIN Plans, c \in TravelCodes}
      BY <2>2, <2>3, <2>4, <2>5, <2>7, <2>8
    <2> HIDE DEF p
    <2>11. p \in Profiles
      BY <2>9, <2>10 DEF Profiles
    <2> QED
      BY <2>11 DEF p
  <1>14. ps \in Seq(Profiles)
    <2>1. \A i \in 1..Len(u.travel) : ps[i] \in Profiles
      BY <1>3, <1>11, <1>13
    <2>2. ps \in [1..Len(u.travel) -> Profiles]
      BY <2>1, <1>3, <1>8
    <2> QED
      BY <2>2, <1>3
  <1>15. r \in Rows
    <2>1. plan.mapping \in Mappings
      BY <1>2 DEF Mappings
    <2>2. u.seen[1] \in Schemas /\ v \in 1..MaxVersion /\ u.travel \in Seq(TravelCodes)
      BY <1>2, <1>4, <1>9, BoundsAssumption DEF Of
    <2>3. PICK mapping, schema, travel, status :
            /\ mapping = plan.mapping /\ schema = u.seen[1] /\ travel = u.travel
            /\ status = "COMPATIBLE"
      OBVIOUS
    <2>4. r = [code |-> Code, version |-> v, schema |-> schema, confirmed |-> schema,
               mapping |-> mapping, allowed |-> travel, status |-> status, profiles |-> ps]
      BY <1>10, <2>3
    <2>5. /\ mapping \in Mappings /\ schema \in Schemas /\ v \in 1..MaxVersion
          /\ travel \in Seq(TravelCodes) /\ status \in {"COMPATIBLE", "DRIFTED"}
      BY <2>1, <2>2, <2>3
    <2> QED
      BY <2>4, <2>5, <1>14 DEF Rows
  <1>16. Alike(r)
    <2>1. r.schema = r.confirmed
      BY <1>6
    <2>2. \A i \in DOMAIN r.profiles : r.profiles[i].schema = r.profiles[i].confirmed
      <3> TAKE i \in DOMAIN r.profiles
      <3>1. i \in DOMAIN u.travel
        BY <1>6
      <3> QED
        BY <3>1, <1>7
    <2> QED
      BY <2>1, <2>2 DEF Alike, SameContract
  <1>17. Of(r.schema, Code, live)
    BY <1>4, <1>6
  <1>18. \A i \in DOMAIN r.profiles : Of(r.profiles[i].schema, r.profiles[i].code, live)
    BY <1>5, <1>6, <1>7
  <1>19. Stored(r, live)
    BY <1>15, <1>16, <1>17, <1>18 DEF Stored, r
  <1> QED
    BY <1>6, <1>19 DEF r

LEMMA ConfirmStep ==
  ASSUME IInv, NEW a \in Administrators, Confirm(a)
  PROVE  Sound
  <1>1. a \in Requests
    BY DEF Requests
  <1>2. /\ op[a].at = "confirming" /\ AllSeen(a) /\ Usable(Confirmed(a)) /\ Wins(a)
        /\ row' = Confirmed(a) /\ op' = [op EXCEPT ![a] = Idle] /\ live' = live
    BY DEF Confirm
  <1>3. Stored(row', live) /\ row'.version = op[a].version + 1
    BY <1>1, <1>2, ConfirmedIsStored
  <1>4. op[a].version \in Nat
    <2>1. op[a] \in Operations
      BY <1>1 DEF IInv
    <2> QED
      BY <2>1, OperationFields, BoundsAssumption
  <1>5. row # Undone => Advance(row, row')
    BY <1>2, <1>3, <1>4 DEF Wins, Advance
  <1>6. row' # Undone
    BY <1>3, StoredIsRow
  <1>7. a \in Submitters => GoesOn(a)
    BY <1>2 DEF GoesOn
  <1>8. Idle \in Operations /\ Working(Idle, row', live)
    BY IdleWorks
  <1> QED
    BY <1>1, <1>2, <1>3, <1>5, <1>6, <1>7, <1>8, RequestMoves

LEMMA RefuseConfirmationStep ==
  ASSUME IInv, NEW a \in Administrators, RefuseConfirmation(a) \/ Leave(a)
  PROVE  Sound
  <1>1. a \in Requests
    BY DEF Requests
  <1>2. op' = [op EXCEPT ![a] = Idle] /\ UNCHANGED <<live, row>>
    BY DEF RefuseConfirmation, Leave
  <1> QED
    BY <1>1, <1>2, GivesUp

-----------------------------------------------------------------------------
(* Submissions and diagnoses *)

LEMMA SnapshotWorks ==
  ASSUME IInv, NEW o \in Requests, NEW at, at \in {"loading", "diagnosing"}, row # Undone,
         op[o].at \in {"idle", "again"}, op[o].tries < MaxConfigCasAttempts
  PROVE  Snapshot(o, at) \in Operations /\ Working(Snapshot(o, at), row, live)
  <1> DEFINE u == op[o]
             travel == [i \in DOMAIN row.profiles |-> row.profiles[i].code]
             tries == u.tries + 1
             asked == IF u.asked = Undone THEN Edition ELSE u.asked
  <1>1. u \in Operations /\ Working(u, row, live) /\ Stored(row, live) /\ row \in Rows /\ LiveForms
    BY DEF IInv, StoredRow, Stored
  <1>2. asked \in [Codes -> Nat] /\ \A c \in Codes : asked[c] <= live[c].modified
    <2>1. CASE u.asked = Undone
      <3>1. asked = Edition
        BY <2>1
      <3> QED
        BY <3>1, <1>1 DEF Edition, LiveForms
    <2>2. CASE u.asked # Undone
      <3>1. u.at = "again"
        BY <2>2, <1>1, IdleWorks DEF Working
      <3>2. Based(u, row, live)
        BY <3>1, <1>1 DEF Working
      <3> QED
        BY <2>2, <3>2 DEF Based
    <2> QED
      BY <2>1, <2>2
  <1>3. /\ row.profiles \in Seq(Profiles) /\ DOMAIN row.profiles = 1..Len(row.profiles)
        /\ Len(row.profiles) \in Nat /\ \A i \in DOMAIN row.profiles : row.profiles[i] \in Profiles
    BY <1>1, RowFields
  <1>4. travel \in Seq(TravelCodes)
    <2>1. \A i \in 1..Len(row.profiles) : row.profiles[i].code \in TravelCodes
      BY <1>3, ProfileFields
    <2>2. travel \in [1..Len(row.profiles) -> TravelCodes]
      BY <2>1, <1>3
    <2> QED
      BY <2>2, <1>3
  <1>5. tries \in 0..MaxConfigCasAttempts
    BY <1>1, OperationFields DEF MaxConfigCasAttempts
  <1>6. row.version \in 0..MaxVersion
    BY <1>1, RowFields
  <1> HIDE DEF travel, tries, asked
  <1>7. PICK w1 : w1 = [Idle EXCEPT !.at = at]
    OBVIOUS
  <1>8. PICK w2 : w2 = [w1 EXCEPT !.read = row]
    OBVIOUS
  <1>9. PICK w3 : w3 = [w2 EXCEPT !.version = row.version]
    OBVIOUS
  <1>10. PICK w4 : w4 = [w3 EXCEPT !.travel = travel]
    OBVIOUS
  <1>11. PICK w5 : w5 = [w4 EXCEPT !.tries = tries]
    OBVIOUS
  <1>12. PICK w : w = [w5 EXCEPT !.asked = asked]
    OBVIOUS
  <1>13. w1 \in Operations /\ w1.at = at /\ SameBut(w1, Idle, {"at"})
    <2>1. at \in States
      BY DEF States
    <2> QED
      BY <2>1, <1>7, IdleWorks, SetAt
  <1>14. w2 \in Operations /\ w2.read = row /\ SameBut(w2, w1, {"read"})
    BY <1>8, <1>13, <1>1, SetRead
  <1>15. w3 \in Operations /\ w3.version = row.version /\ SameBut(w3, w2, {"version"})
    BY <1>9, <1>14, <1>6, SetVersion
  <1>16. w4 \in Operations /\ w4.travel = travel /\ SameBut(w4, w3, {"travel"})
    BY <1>10, <1>15, <1>4, SetTravel
  <1>17. w5 \in Operations /\ w5.tries = tries /\ SameBut(w5, w4, {"tries"})
    BY <1>11, <1>16, <1>5, SetTries
  <1>18. w \in Operations /\ w.asked = asked /\ SameBut(w, w5, {"asked"})
    BY <1>12, <1>17, <1>2, SetAsked
  <1>19. /\ w.at = at /\ w.read = row /\ w.version = row.version /\ w.travel = travel
         /\ w.seen = <<>> /\ w.asked = asked
    BY <1>13, <1>14, <1>15, <1>16, <1>17, <1>18, IdleWorks DEF SameBut
  <1>20. Snapshot(o, at) = w
    BY <1>7, <1>8, <1>9, <1>10, <1>11, <1>12 DEF Snapshot, travel, tries, asked
  <1>21. Len(<<>>) = 0 /\ DOMAIN <<>> = {} /\ Len(w.travel) \in Nat
    BY <1>4, <1>19
  <1>22. Seen(w, live) /\ Fresh(w)
    BY <1>19, <1>21 DEF Seen, Fresh
  <1>23. Based(w, row, live)
    <2>1. travel = CodesOf(row)
      BY DEF CodesOf, travel
    <2>2. row.version <= row.version
      BY <1>1, RowFields
    <2> QED
      BY <2>1, <2>2, <1>1, <1>2, <1>19 DEF Based
  <1>24. Working(w, row, live)
    BY <1>19, <1>22, <1>23 DEF Working
  <1> QED
    BY <1>18, <1>20, <1>24

LEMMA StartLoadStep ==
  ASSUME IInv, NEW s \in Submitters, StartLoad(s)
  PROVE  Sound
  <1>1. s \in Requests
    BY DEF Requests
  <1>2. /\ op[s].at \in {"idle", "again"} /\ op[s].tries < MaxConfigCasAttempts /\ row # Undone
        /\ op' = [op EXCEPT ![s] = Snapshot(s, "loading")] /\ UNCHANGED <<live, row>>
    BY DEF StartLoad
  <1>3. Snapshot(s, "loading") \in Operations /\ Working(Snapshot(s, "loading"), row, live)
    BY <1>1, <1>2, SnapshotWorks
  <1> QED
    BY <1>1, <1>2, <1>3, RowAlone

LEMMA StartDiagnosisStep ==
  ASSUME IInv, NEW d \in Diagnosers, StartDiagnosis(d)
  PROVE  Sound
  <1>1. d \in Requests
    BY DEF Requests
  <1>2. /\ op[d].at = "idle" /\ row # Undone
        /\ op' = [op EXCEPT ![d] = Snapshot(d, "diagnosing")] /\ UNCHANGED <<live, row>>
    BY DEF StartDiagnosis
  <1>3. op[d].tries < MaxConfigCasAttempts
    BY <1>1, <1>2, IdleWorks DEF IInv, Working, MaxConfigCasAttempts
  <1>4. Snapshot(d, "diagnosing") \in Operations /\ Working(Snapshot(d, "diagnosing"), row, live)
    BY <1>1, <1>2, <1>3, SnapshotWorks
  <1> QED
    BY <1>1, <1>2, <1>4, RowAlone

\* A request that lost its write, or found its answer changed, reads the row again.
LEMMA AgainWorks ==
  ASSUME NEW u \in Operations, NEW r, NEW l, Working(u, r, l), u.at = "loading"
  PROVE  LET w == [u EXCEPT !.at = "again", !.seen = <<>>]
         IN w \in Operations /\ Working(w, r, l)
  <1>1. PICK at, none : at = "again" /\ none = <<>>
    OBVIOUS
  <1>2. PICK w1 : w1 = [u EXCEPT !.at = at]
    OBVIOUS
  <1>3. PICK w : w = [w1 EXCEPT !.seen = none]
    OBVIOUS
  <1>4. at \in States /\ none \in Seq(Schemas) /\ Len(none) = 0 /\ DOMAIN none = {}
    BY <1>1 DEF States
  <1>5. w1 \in Operations /\ w1.at = at /\ SameBut(w1, u, {"at"})
    BY <1>2, <1>4, SetAt
  <1>6. w \in Operations /\ w.seen = none /\ SameBut(w, w1, {"seen"})
    BY <1>3, <1>4, <1>5, SetSeen
  <1>7. /\ w.at = "again" /\ w.travel = u.travel /\ w.read = u.read /\ w.version = u.version
        /\ w.asked = u.asked
    BY <1>1, <1>5, <1>6 DEF SameBut
  <1>8. Based(w, r, l)
    BY <1>7 DEF Based, Working
  <1>9. Len(w.travel) \in Nat
    BY <1>6, OperationFields
  <1>10. Seen(w, l)
    BY <1>4, <1>6, <1>9 DEF Seen
  <1>11. Working(w, r, l)
    BY <1>7, <1>8, <1>10 DEF Working
  <1>12. [u EXCEPT !.at = "again", !.seen = <<>>] = w
    BY <1>1, <1>2, <1>3
  <1> QED
    BY <1>6, <1>11, <1>12

\* The answer: the catalog refreshed with what was seen since the question.
LEMMA AnswerWorks ==
  ASSUME NEW u \in Operations, NEW q, NEW l, Seen(u, l), Fresh(u), Stored(q, l),
         u.asked \in [Codes -> Nat], u.travel = CodesOf(q),
         SawAll(u), Takes(q, q, u.seen)
  PROVE  LET w == [Idle EXCEPT !.at = "answered", !.answer = q, !.asked = u.asked]
         IN w \in Operations /\ \A r : Working(w, r, l)
  <1>1. PICK at : at = "answered"
    OBVIOUS
  <1>2. PICK w1 : w1 = [Idle EXCEPT !.at = at]
    OBVIOUS
  <1>3. PICK w2 : w2 = [w1 EXCEPT !.answer = q]
    OBVIOUS
  <1>4. PICK w : w = [w2 EXCEPT !.asked = u.asked]
    OBVIOUS
  <1>5. at \in States /\ q \in Rows
    BY <1>1 DEF States, Stored
  <1>6. w1 \in Operations /\ w1.at = at /\ SameBut(w1, Idle, {"at"})
    BY <1>2, <1>5, IdleWorks, SetAt
  <1>7. w2 \in Operations /\ w2.answer = q /\ SameBut(w2, w1, {"answer"})
    BY <1>3, <1>5, <1>6, SetAnswer
  <1>8. w \in Operations /\ w.asked = u.asked /\ SameBut(w, w2, {"asked"})
    BY <1>4, <1>7, SetAsked
  <1>9. w.at = "answered" /\ w.answer = q /\ w.seen = <<>> /\ w.travel = <<>>
    BY <1>1, <1>6, <1>7, <1>8, IdleWorks DEF SameBut
  <1>10. /\ Of(u.seen[1], Code, l) /\ 1 \in DOMAIN u.seen
         /\ \A i \in DOMAIN q.profiles :
              i + 1 \in DOMAIN u.seen /\ i + 1 # 1 /\ Of(u.seen[i + 1], q.profiles[i].code, l)
    BY <1>5, SeenAll
  <1>11. FreshAnswer(w)
    <2>1. q.schema.modified >= u.asked[Code]
      BY <1>10 DEF Fresh, Of, Takes
    <2>2. ASSUME NEW i \in DOMAIN q.profiles
          PROVE  q.profiles[i].schema.modified >= u.asked[q.profiles[i].code]
      BY <1>10 DEF Fresh, Of, Takes
    <2> QED
      BY <2>1, <2>2, <1>8, <1>9 DEF FreshAnswer
  <1>12. Len(<<>>) = 0 /\ DOMAIN <<>> = {}
    OBVIOUS
  <1>13. Seen(w, l)
    BY <1>9, <1>12 DEF Seen
  <1>14. \A r : Working(w, r, l)
    BY <1>9, <1>11, <1>13 DEF Working
  <1>15. [Idle EXCEPT !.at = "answered", !.answer = q, !.asked = u.asked] = w
    BY <1>1, <1>2, <1>3, <1>4
  <1> QED
    BY <1>8, <1>14, <1>15

\* Writing what a row has already changes nothing of it.
LEMMA WritesItself ==
  ASSUME NEW q \in Rows, NEW r, q.version = r.version, q.confirmed = r.confirmed,
         q.allowed = r.allowed, q.code = r.code
  PROVE  [q EXCEPT !.version = r.version, !.confirmed = r.confirmed,
                   !.allowed = r.allowed, !.code = r.code] = q
  <1>1. [q EXCEPT !.version = q.version] = q
    BY DEF Rows
  <1>2. [q EXCEPT !.confirmed = q.confirmed] = q
    BY DEF Rows
  <1>3. [q EXCEPT !.allowed = q.allowed] = q
    BY DEF Rows
  <1>4. [q EXCEPT !.code = q.code] = q
    BY DEF Rows
  <1> QED
    BY <1>1, <1>2, <1>3, <1>4

\* What the write of an observation requires of the row is enough: nothing it means has changed.
LEMMA SameCasMeansSame ==
  ASSUME NEW w \in Operations, NEW r, NEW l, Based(w, r, l), SameCasState(r, w.read)
  PROVE  /\ r.version = w.read.version /\ r.confirmed = w.read.confirmed
         /\ r.allowed = w.read.allowed /\ r.code = w.read.code /\ r.mapping = w.read.mapping
         /\ r.schema = w.read.schema /\ r.profiles = w.read.profiles
  <1>1. Choices(r) = Choices(w.read)
    BY DEF Based, SameCasState
  <1>2. r.confirmed = w.read.confirmed /\ r.allowed = w.read.allowed /\ r.mapping = w.read.mapping
    BY <1>1 DEF Choices
  <1> QED
    BY <1>2 DEF SameCasState

LEMMA KeptOfSame ==
  ASSUME NEW r, NEW q, NEW s, Kept(r, q), s.code = r.code, s.version = r.version,
         s.confirmed = r.confirmed, s.mapping = r.mapping, s.allowed = r.allowed,
         s.profiles = r.profiles
  PROVE  Kept(s, q)
  BY DEF Kept

\* What a request that has seen all makes of its catalog.
LEMMA ReadRefreshed ==
  ASSUME NEW w \in Operations, NEW r, NEW l, Based(w, r, l), Seen(w, l), Fresh(w),
         SawAll(w), Refreshes(w.read, w.seen)
  PROVE  LET q == Refreshed(w.read, w.seen) IN
         /\ Stored(q, l) /\ Kept(w.read, q) /\ Takes(q, q, w.seen)
         /\ w.travel = CodesOf(q)
         /\ q.schema.modified >= w.read.schema.modified
         /\ \A i \in DOMAIN w.read.profiles :
              q.profiles[i].schema.modified >= w.read.profiles[i].schema.modified
  <1>0. PICK was : was = w.read
    OBVIOUS
  <1> DEFINE q == Refreshed(was, w.seen)
  <1>1. /\ was \in Rows /\ Usable(was) /\ Alike(was) /\ w.travel = CodesOf(was)
        /\ Refreshes(was, w.seen)
    BY <1>0 DEF Based, Stored
  <1>2. /\ Of(w.seen[1], Code, l) /\ 1 \in DOMAIN w.seen
        /\ \A i \in DOMAIN was.profiles :
             /\ i + 1 \in DOMAIN w.seen /\ i + 1 # 1
             /\ Of(w.seen[i + 1], was.profiles[i].code, l)
        /\ Covers(w.seen, was, l)
    BY <1>1, SeenAll
  <1>3. Stored(q, l) /\ Kept(was, q) /\ Takes(q, was, w.seen)
    BY <1>1, <1>2, RefreshedIsStored
  <1> HIDE DEF q
  <1>4. w.travel = CodesOf(q)
    BY <1>1, <1>3, KeptChoices
  <1>5. q.schema.modified >= was.schema.modified
    BY <1>0, <1>2, <1>3 DEF Fresh, SchemaAt, Takes
  <1>6. ASSUME NEW i \in DOMAIN was.profiles
        PROVE  q.profiles[i].schema.modified >= was.profiles[i].schema.modified
    <2>1. i \in Nat \ {0}
      BY <1>1, RowFields
    <2>2. i + 1 - 1 = i /\ i + 1 # 1
      BY <2>1
    <2>3. SchemaAt(was, i + 1) = was.profiles[i].schema
      BY <2>1, <2>2 DEF SchemaAt
    <2> QED
      BY <2>3, <1>0, <1>2, <1>3 DEF Fresh, Takes
  <1>7. Takes(q, q, w.seen)
    BY <1>3 DEF Takes, Kept
  <1> QED
    BY <1>0, <1>3, <1>4, <1>5, <1>6, <1>7 DEF q

LEMMA LoadStep ==
  ASSUME IInv, NEW s \in Submitters, Load(s)
  PROVE  Sound
  <1> DEFINE u == op[s]
             accepted == Refreshes(u.read, u.seen)
             written == Refreshed(u.read, u.seen)
             kept == [written EXCEPT !.version = row.version, !.confirmed = row.confirmed,
                                     !.allowed = row.allowed, !.code = row.code]
             again == [u EXCEPT !.at = "again", !.seen = <<>>]
             answered == [Idle EXCEPT !.at = "answered", !.answer = kept, !.asked = u.asked]
  <1>1. s \in Requests
    BY DEF Requests
  <1>2. /\ u \in Operations /\ Working(u, row, live) /\ op \in [Requests -> Operations]
        /\ (row # Undone => Stored(row, live))
    BY <1>1 DEF IInv, StoredRow
  <1>3. /\ u.at = "loading" /\ SawAll(u) /\ live' = live
    BY DEF Load, AllSeen, ToRead, SawAll
  <1>4. Based(u, row, live) /\ Seen(u, live) /\ Fresh(u) /\ Stored(row, live) /\ row # Undone
    BY <1>2, <1>3 DEF Working, Based
  <1>5. again \in Operations /\ Working(again, row, live)
    BY <1>2, <1>3, AgainWorks
  <1>6. CASE ~SameCasState(row, u.read)
    <2>1. row' = row /\ op' = [op EXCEPT ![s].at = "again", ![s].seen = <<>>]
      BY <1>6 DEF Load
    <2>2. op' = [op EXCEPT ![s] = again]
      BY <2>1, <1>1, <1>2
    <2> QED
      BY <2>1, <2>2, <1>1, <1>3, <1>5, RowAlone
  <1>7. CASE SameCasState(row, u.read) /\ ~accepted
    <2>1. row' = [row EXCEPT !.status = "DRIFTED"] /\ op' = [op EXCEPT ![s] = Idle]
      BY <1>7 DEF Load
    <2>2. Stored(row', live) /\ Kept(row, row') /\ row'.schema = row.schema
          /\ row'.profiles = row.profiles
      BY <2>1, <1>4, DriftedIsStored
    <2>3. row' # Undone /\ Advance(row, row')
      BY <2>2, StoredIsRow, KeptAdvances
    <2>4. GoesOn(s)
      <3>1. row.schema.modified \in Nat
        BY <1>4 DEF Stored, Of, Schemas
      <3>2. \A i \in DOMAIN row.profiles : row.profiles[i].schema.modified \in Nat
        BY <1>4 DEF Stored, Of, Schemas
      <3> QED
        BY <3>1, <3>2, <2>2 DEF GoesOn
    <2>5. Idle \in Operations /\ Working(Idle, row', live)
      BY IdleWorks
    <2> QED
      BY <2>1, <2>2, <2>3, <2>4, <2>5, <1>1, <1>3, RequestMoves
  <1>8. CASE SameCasState(row, u.read) /\ accepted
    <2>1. /\ row' = kept
          /\ op' = [op EXCEPT ![s] =
               IF Ready(kept) /\ kept.version = u.version /\ kept.allowed = u.travel
               THEN answered ELSE again]
      BY <1>8 DEF Load, Answer
    <2>2. /\ Stored(written, live) /\ Kept(u.read, written) /\ Takes(written, written, u.seen)
          /\ u.travel = CodesOf(written)
          /\ written.schema.modified >= u.read.schema.modified
          /\ \A i \in DOMAIN u.read.profiles :
               written.profiles[i].schema.modified >= u.read.profiles[i].schema.modified
      BY <1>2, <1>3, <1>4, <1>8, ReadRefreshed
    <2>3. /\ row.version = u.read.version /\ row.confirmed = u.read.confirmed
          /\ row.allowed = u.read.allowed /\ row.code = u.read.code
          /\ row.mapping = u.read.mapping /\ row.schema = u.read.schema
          /\ row.profiles = u.read.profiles
      BY <1>2, <1>4, <1>8, SameCasMeansSame
    <2>4. kept = written
      <3>1. written \in Rows
        BY <2>2 DEF Stored
      <3>2. /\ written.version = row.version /\ written.confirmed = row.confirmed
            /\ written.allowed = row.allowed /\ written.code = row.code
        BY <2>2, <2>3 DEF Kept
      <3> HIDE DEF written
      <3>3. [written EXCEPT !.version = row.version, !.confirmed = row.confirmed,
                            !.allowed = row.allowed, !.code = row.code] = written
        BY <3>1, <3>2, WritesItself, Zenon
      <3> QED
        BY <3>3
    <2>5. Kept(row, row')
      <3>1. Kept(row, written)
        BY <2>2, <2>3, KeptOfSame
      <3> QED
        BY <2>1, <2>4, <3>1
    <2>6. Stored(row', live) /\ row' # Undone /\ Advance(row, row')
      BY <2>1, <2>2, <2>4, <2>5, StoredIsRow, KeptAdvances
    <2>7. GoesOn(s)
      BY <2>1, <2>2, <2>3, <2>4 DEF GoesOn
    <2>8. answered \in Operations /\ Working(answered, row', live)
      <3>1. u.asked \in [Codes -> Nat]
        BY <1>4 DEF Based
      <3>3. answered = [Idle EXCEPT !.at = "answered", !.answer = written, !.asked = u.asked]
        BY <2>4
      <3> HIDE DEF written, answered
      <3> QED
        BY <3>1, <3>3, <2>2, <1>2, <1>3, <1>4, AnswerWorks
    <2>9. Working(again, row', live)
      <3>1. row \in Rows /\ row' \in Rows
        BY <2>6, <1>4, StoredIsRow
      <3> HIDE DEF again
      <3> QED
        BY <3>1, <2>6, <1>5, WorkingAdvance
    <2> HIDE DEF answered, again
    <2>10. PICK w : w = IF Ready(kept) /\ kept.version = u.version /\ kept.allowed = u.travel
                        THEN answered ELSE again
      OBVIOUS
    <2>11. w \in Operations /\ Working(w, row', live)
      BY <2>8, <2>9, <2>10, <1>5
    <2>12. op' = [op EXCEPT ![s] = w]
      BY <2>1, <2>10
    <2> QED
      BY <2>6, <2>7, <2>11, <2>12, <1>1, <1>3, RequestMoves
  <1> QED
    BY <1>6, <1>7, <1>8

LEMMA DiagnoseStep ==
  ASSUME IInv, NEW d \in Diagnosers, Diagnose(d)
  PROVE  Sound
  <1> DEFINE u == op[d]
             q == Refreshed(u.read, u.seen)
             answered == [Idle EXCEPT !.at = "answered", !.answer = q, !.asked = u.asked]
  <1>1. d \in Requests
    BY DEF Requests
  <1>2. u \in Operations /\ Working(u, row, live)
    BY <1>1 DEF IInv
  <1>3. /\ u.at = "diagnosing" /\ SawAll(u)
        /\ UNCHANGED <<live, row>>
        /\ op' = [op EXCEPT ![d] =
             IF Refreshes(u.read, u.seen) /\ SameCasState(row, u.read) THEN answered ELSE Idle]
    BY DEF Diagnose, AllSeen, ToRead, SawAll
  <1>4. Based(u, row, live) /\ Seen(u, live) /\ Fresh(u)
    BY <1>2, <1>3 DEF Working
  <1>5. CASE Refreshes(u.read, u.seen) /\ SameCasState(row, u.read)
    <2>1. /\ Stored(q, live) /\ Kept(u.read, q) /\ Takes(q, q, u.seen)
          /\ u.travel = CodesOf(q)
      BY <1>2, <1>3, <1>4, <1>5, ReadRefreshed
    <2>2. u.asked \in [Codes -> Nat]
      BY <1>4 DEF Based
    <2>4. answered \in Operations /\ Working(answered, row, live)
      <3> HIDE DEF q
      <3> QED
        BY <2>1, <2>2, <1>2, <1>3, <1>4, AnswerWorks
    <2>5. op' = [op EXCEPT ![d] = answered]
      BY <1>3, <1>5
    <2> QED
      BY <2>4, <2>5, <1>1, <1>3, RowAlone
  <1>6. CASE ~(Refreshes(u.read, u.seen) /\ SameCasState(row, u.read))
    <2>1. op' = [op EXCEPT ![d] = Idle]
      BY <1>3, <1>6
    <2> QED
      BY <2>1, <1>1, <1>3, GivesUp
  <1> QED
    BY <1>5, <1>6

-----------------------------------------------------------------------------
(* Every step *)

LEMMA InitIInv == Init => IInv
  <1> HAVE Init
  <1>1. LiveForms
    <2>1. \A c \in Codes : 1 \in DOMAIN Forms[c]
      BY FormsAssumption DEF IsSequence
    <2> QED
      BY <2>1, BoundsAssumption DEF Init, LiveForms
  <1>2. StoredRow
    BY DEF Init, StoredRow
  <1>3. op \in [Requests -> Operations] /\ \A o \in Requests : Working(op[o], row, live)
    BY IdleWorks DEF Init
  <1> QED
    BY <1>1, <1>2, <1>3 DEF IInv

LEMMA Stutter ==
  ASSUME IInv, UNCHANGED vars
  PROVE  Sound
  <1>1. live' = live /\ row' = row /\ op' = op
    BY DEF vars
  <1>2. IInv'
    BY <1>1 DEF IInv, LiveForms, StoredRow
  <1> QED
    BY <1>1, <1>2, AdvanceSame DEF Sound, GoesOn

LEMMA NextSound == IInv /\ [Next]_vars => Sound
  <1> SUFFICES ASSUME IInv, [Next]_vars
               PROVE  Sound
    OBVIOUS
  <1>1. ASSUME NEW c \in Codes, NEW form \in 2..Len(Forms[c]), Publish(c, form)
        PROVE  Sound
    BY <1>1, PublishStep
  <1>2. ASSUME NEW o \in Requests, Fetch(o)
        PROVE  Sound
    BY <1>2, FetchStep
  <1>3. ASSUME NEW o \in Requests, FetchFails(o) \/ Close(o)
        PROVE  Sound
    <2>1. op' = [op EXCEPT ![o] = Idle] /\ UNCHANGED <<live, row>>
      BY <1>3 DEF FetchFails, Close
    <2> QED
      BY <2>1, GivesUp
  <1>4. ASSUME NEW a \in Administrators,
               StartInspection(a) \/ Inspect(a) \/ Leave(a)
                 \/ StartConfirmation(a) \/ Confirm(a) \/ RefuseConfirmation(a)
        PROVE  Sound
    BY <1>4, StartInspectionStep, InspectStep, StartConfirmationStep, ConfirmStep,
       RefuseConfirmationStep
  <1>5. ASSUME NEW s \in Submitters, StartLoad(s) \/ RefuseAgain(s) \/ Load(s)
        PROVE  Sound
    <2>1. CASE RefuseAgain(s)
      <3>1. s \in Requests /\ op' = [op EXCEPT ![s] = Idle] /\ UNCHANGED <<live, row>>
        BY <2>1 DEF RefuseAgain, Requests
      <3> QED
        BY <3>1, GivesUp
    <2> QED
      BY <1>5, <2>1, StartLoadStep, LoadStep
  <1>6. ASSUME NEW d \in Diagnosers, StartDiagnosis(d) \/ Diagnose(d)
        PROVE  Sound
    BY <1>6, StartDiagnosisStep, DiagnoseStep
  <1>7. CASE UNCHANGED vars
    BY <1>7, Stutter
  <1> QED
    BY <1>1, <1>2, <1>3, <1>4, <1>5, <1>6, <1>7 DEF Next

-----------------------------------------------------------------------------
(* What the invariant says *)

LEMMA IInvTypeOK == IInv => TypeOK
  <1> HAVE IInv
  <1>1. \A c \in Codes : live[c].modified \in 0..MaxEdits
    BY BoundsAssumption DEF IInv, LiveForms
  <1>2. row # Undone => row.version \in 1..MaxVersion /\ row.status \in {"COMPATIBLE", "DRIFTED"}
    BY RowFields DEF IInv, StoredRow, Stored
  <1>3. ASSUME NEW o \in Requests
        PROVE  /\ op[o].at \in States
               /\ op[o].tries \in 0..MaxConfigCasAttempts /\ op[o].version \in 0..MaxVersion
               /\ Len(op[o].seen) <= Len(op[o].travel) + 1
    <2>1. op[o] \in Operations /\ Seen(op[o], live)
      BY DEF IInv, Working
    <2> QED
      BY <2>1, OperationFields DEF Seen
  <1> QED
    BY <1>1, <1>2, <1>3 DEF TypeOK, States

LEMMA IInvFillable == IInv => MappedFieldsCanBeFilled
  <1> SUFFICES ASSUME IInv, row # Undone, row.schema.modified = live[Code].modified
               PROVE  LET items == Forms[Code][live[Code].form].items IN
                      \A i \in DOMAIN items : items[i].id \in Mapped(row.mapping) =>
                        /\ \A j \in Around(items, i) : ~items[j].hidden /\ ~items[j].disabled
                        /\ \A j \in Around(items, i) \ {i} : items[j].type \notin SubtableTypes
    BY DEF MappedFieldsCanBeFilled
  <1>1. Stored(row, live) /\ row \in Rows
    BY DEF IInv, StoredRow, Stored
  <1> DEFINE f == live[Code].form
             form == Forms[Code][f]
  <1>2. row.schema.form = f /\ f \in DOMAIN Forms[Code] /\ Known[Code][f] # Undone /\ Code \in Codes
    BY <1>1 DEF Stored, Of, Codes
  <1>3. row.mapping \in Mappings
    BY <1>1, RowFields
  <1>4. Fits[f][row.mapping]
    BY <1>1, <1>2 DEF Stored, Usable
  <1>5. ValidTemplateMapping([code |-> Code, components |-> Known[Code][f]], row.mapping)
    BY <1>2, <1>3, <1>4 DEF Fits
  <1>6. ValidForm(form) /\ Known[Code][f] = Components(form)
    BY <1>2 DEF Known
  <1>7. Wellformed(form.items)
    BY <1>2, FormsAssumption
  <1> HIDE DEF f, form
  <1>8. ValidTemplateMapping([code |-> Code, components |-> Components(form)], row.mapping)
    BY <1>5, <1>6
  <1> QED
    BY <1>6, <1>7, <1>8, MappedIsShown DEF f, form

-----------------------------------------------------------------------------
(* Theorems *)

\* Whatever was published, confirmed, observed or given up, and in whichever order: the
\* inductive invariant.
THEOREM CatalogInvariant == Spec => []IInv
  <1>1. Init => IInv
    BY InitIInv
  <1>2. IInv /\ [Next]_vars => IInv'
    BY NextSound DEF Sound
  <1> QED
    BY <1>1, <1>2, PTL DEF Spec

\* What is stored can be read back and used: no refresh, confirmation or mark of drift
\* saves a catalog that _validated_persisted_catalog would refuse.
THEOREM CatalogStaysUsable == Spec => []Inv
  <1>1. IInv => Inv
    BY IInvTypeOK DEF Inv, SavedCatalogIsUsable, IInv, StoredRow, Stored
  <1> QED
    BY <1>1, CatalogInvariant, PTL

\* However many edits were adopted, the forms stored are those the administrator
\* confirmed but for options and components nobody mapped.
THEOREM FormsStayAlike == Spec => []AdoptedFormsAreAlike
  <1>1. IInv => AdoptedFormsAreAlike
    BY DEF AdoptedFormsAreAlike, IInv, StoredRow, Stored, Alike
  <1> QED
    BY <1>1, CatalogInvariant, PTL

\* A field mapped in a form whose live edition was accepted is neither hidden, disabled
\* nor in a table, nor is anything around it.
THEOREM MappedFieldsFillable == Spec => []MappedFieldsCanBeFilled
  BY IInvFillable, CatalogInvariant, PTL

\* A submission or a diagnosis is answered from forms no older than its question.
THEOREM AnswersStayFresh == Spec => []AnswersAreFresh
  <1>1. IInv => AnswersAreFresh
    BY DEF AnswersAreFresh, IInv, Working, FreshAnswer
  <1> QED
    BY <1>1, CatalogInvariant, PTL

\* What was confirmed is what its version means: no observation in flight changes it,
\* nor does another confirmation of the same version.
THEOREM ConfirmationKept == Spec => ConfirmationStands
  <1>1. IInv /\ [Next]_vars =>
          [row # Undone =>
             /\ row'.version \in {row.version, row.version + 1}
             /\ row'.version = row.version => Choices(row') = Choices(row)]_row
    BY NextSound DEF Sound, Advance
  <1> QED
    BY <1>1, CatalogInvariant, PTL DEF Spec, ConfirmationStands

\* What a submission observed too late never brings back an older edition.
THEOREM NoRefreshGoesBack == Spec => RefreshNeverGoesBack
  <1>1. IInv /\ [Next]_vars =>
          [\A s \in Submitters : op[s].at = "loading" /\ op'[s] # op[s] /\ row' # row =>
             /\ row'.schema.modified >= row.schema.modified
             /\ \A i \in DOMAIN row.profiles :
                  row'.profiles[i].schema.modified >= row.profiles[i].schema.modified]_row
    BY NextSound DEF Sound, GoesOn
  <1> QED
    BY <1>1, CatalogInvariant, PTL DEF Spec, RefreshNeverGoesBack

=============================================================================
