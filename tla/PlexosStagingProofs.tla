-------------------------- MODULE PlexosStagingProofs --------------------------
(***************************************************************************)
(* Theorems about PlexosStaging, for every export: which rows of t_data    *)
(* stand, what the properties they state read as at every moment, and what *)
(* the series read from Data Files hold.                                   *)
(***************************************************************************)
EXTENDS PlexosStaging, FiniteSetTheorems, FunctionTheorems, WellFoundedInduction, TLAPS

(* ------------------------------- extrema -------------------------------- *)

\* Something of a finite set measures the most.
LEMMA Topmost ==
  ASSUME NEW S, IsFiniteSet(S), S # {}, NEW f \in [S -> Int]
  PROVE  \E m \in S : \A x \in S : f[x] <= f[m]
  <1> DEFINE HasTop(X) == \E m \in X : \A x \in X : f[x] <= f[m]
             Bad == {X \in SUBSET S : X # {} /\ ~HasTop(X)}
             Inside == StrictSubsetOrdering(S)
  <1>1. SUFFICES ASSUME Bad # {} PROVE FALSE
    BY DEF HasTop
  <1>2. IsWellFoundedOn(Inside, SUBSET S)
    BY FS_StrictSubsetOrderingWellFounded, FS_FiniteSubsetsOfFinite
  <1>3. PICK X \in Bad : \A Y \in Bad : <<Y, X>> \notin Inside
    <2>1. Bad \subseteq SUBSET S
      OBVIOUS
    <2> HIDE DEF Inside, Bad
    <2> QED
      BY <1>1, <1>2, <2>1, WFMin
  <1>4. PICK x \in X : TRUE
    OBVIOUS
  <1>5. X \ {x} \notin Bad
    <2>1. X \ {x} \in SUBSET S /\ X \in SUBSET S /\ X \ {x} # X
      BY <1>4
    <2>2. <<X \ {x}, X>> \in Inside
      BY <2>1 DEF StrictSubsetOrdering
    <2> QED
      BY <1>3, <2>2
  <1>6. \A y \in X : f[y] \in Int
    OBVIOUS
  <1>7. CASE X = {x}
    BY <1>6, <1>7
  <1>8. CASE X # {x}
    <2>1. PICK m \in X \ {x} : \A y \in X \ {x} : f[y] <= f[m]
      BY <1>4, <1>5, <1>8
    <2>2. CASE f[x] <= f[m]
      <3>1. \A y \in X : f[y] <= f[m]
        BY <2>1, <2>2
      <3> QED
        BY <3>1
    <2>3. CASE ~(f[x] <= f[m])
      <3>1. \A y \in X : f[y] <= f[x]
        BY <1>4, <1>6, <2>1, <2>3
      <3> QED
        BY <1>4, <3>1
    <2> QED
      BY <2>2, <2>3
  <1> QED
    BY <1>7, <1>8

LEMMA MaxOfNumbers ==
  ASSUME NEW S \in SUBSET Int, IsFiniteSet(S), S # {}
  PROVE  Max(S) \in S /\ \A x \in S : x <= Max(S)
  <1> DEFINE same == [x \in S |-> x]
  <1>1. same \in [S -> Int] /\ \A x \in S : same[x] = x
    OBVIOUS
  <1> HIDE DEF same
  <1>2. PICK m \in S : \A x \in S : same[x] <= same[m]
    BY <1>1, Topmost
  <1>3. \E m_1 \in S : \A x \in S : m_1 >= x
    BY <1>1, <1>2
  <1> QED
    BY <1>3 DEF Max

LEMMA MinOfNumbers ==
  ASSUME NEW S \in SUBSET Int, IsFiniteSet(S), S # {}
  PROVE  Min(S) \in S /\ \A x \in S : Min(S) <= x
  <1> DEFINE negated == [x \in S |-> -x]
  <1>1. negated \in [S -> Int] /\ \A x \in S : negated[x] = -x
    OBVIOUS
  <1> HIDE DEF negated
  <1>2. PICK m \in S : \A x \in S : negated[x] <= negated[m]
    BY <1>1, Topmost
  <1>3. \E m_1 \in S : \A x \in S : m_1 =< x
    BY <1>1, <1>2
  <1> QED
    BY <1>3 DEF Min

LEMMA ImageIsFinite ==
  ASSUME NEW S, IsFiniteSet(S), NEW f, DOMAIN f = S
  PROVE  IsFiniteSet({f[x] : x \in S})
  <1> DEFINE T == {f[x] : x \in S}
             g == [x \in S |-> f[x]]
  <1>1. g \in Surjection(S, T)
    BY DEF Surjection
  <1> QED
    BY <1>1, FS_Surjection

(* ----------------------------- which row stands ------------------------- *)

LEMMA AnExport ==
  ASSUME export \in Exports
  PROVE  /\ IsFiniteSet(DOMAIN export.data) /\ Cardinality(DOMAIN export.data) \in Nat
         /\ DOMAIN export.data = 1 .. Cardinality(DOMAIN export.data)
         /\ \A i \in DOMAIN export.data : HasDates(export.data[i])
         /\ IsFiniteSet(Active)
         /\ \A s : ReadOrder(s) \in Int
         /\ MembershipsAreApart(export)
  <1>1. IsExport(export)
    BY ExportAssumption
  <1>2. IsFiniteSet(Active)
    BY <1>1, FS_EmptySet DEF IsExport, Active
  <1>3. \A s : ReadOrder(s) \in Int
    BY <1>1 DEF IsExport, ReadOrder
  <1>4. IsFiniteSet(DOMAIN export.data) /\ Cardinality(DOMAIN export.data) \in Nat
    BY <1>1, FS_CardinalityType DEF IsExport
  <1> QED
    BY <1>1, <1>2, <1>3, <1>4 DEF IsExport

\* A row that is read ranks by the highest Read Order of its Scenarios, if it has any.
LEMMA RankOfARow ==
  ASSUME export \in Exports, NEW data, ~IsInactive(data)
  PROVE  \/ data.scenarios = {} /\ PriorityOf(data) = <<0, 0>>
         \/ /\ data.scenarios # {}
            /\ \E top \in ActiveTags(data) :
                 /\ PriorityOf(data) = <<1, ReadOrder(top)>>
                 /\ \A s \in ActiveTags(data) : ReadOrder(s) <= ReadOrder(top)
  <1>1. CASE data.scenarios = {}
    BY <1>1 DEF PriorityOf, BasePriority
  <1>2. CASE data.scenarios # {}
    <2> DEFINE orders == {ReadOrder(s) : s \in ActiveTags(data)}
               order == [s \in ActiveTags(data) |-> ReadOrder(s)]
    <2>1. ActiveTags(data) # {} /\ IsFiniteSet(ActiveTags(data))
      BY <1>2, AnExport, FS_Subset DEF IsInactive, ActiveTags
    <2>2. orders \in SUBSET Int /\ orders # {}
      BY <2>1, AnExport
    <2>3. IsFiniteSet(orders)
      <3>1. DOMAIN order = ActiveTags(data) /\ orders = {order[s] : s \in ActiveTags(data)}
        OBVIOUS
      <3> HIDE DEF order, orders
      <3> QED
        BY <2>1, <3>1, ImageIsFinite
    <2>4. Max(orders) \in orders /\ \A x \in orders : x <= Max(orders)
      <3> HIDE DEF orders
      <3> QED
        BY <2>2, <2>3, MaxOfNumbers
    <2>5. PriorityOf(data) = <<1, Max(orders)>>
      BY <1>2 DEF PriorityOf
    <2> QED
      BY <1>2, <2>4, <2>5
  <1> QED
    BY <1>1, <1>2

LEMMA Priorities ==
  ASSUME export \in Exports, NEW data, ~IsInactive(data)
  PROVE  PriorityOf(data) \in Int \X Int
  BY RankOfARow, AnExport

LEMMA PrioritiesAreOrdered ==
  ASSUME NEW p \in Int \X Int, NEW q \in Int \X Int, NEW r \in Int \X Int
  PROVE  /\ AtLeast(p, p)
         /\ AtLeast(p, q) \/ AtLeast(q, p)
         /\ AtLeast(p, q) /\ AtLeast(q, r) => AtLeast(p, r)
         /\ AtLeast(p, q) /\ ~AtLeast(r, q) => ~AtLeast(r, p)
  BY DEF AtLeast

\* The ranks of the code are the ranks the Scenarios state.
LEMMA OutranksIsStronger ==
  ASSUME export \in Exports, NEW a, NEW b, ~IsInactive(a), ~IsInactive(b)
  PROVE  Outranks(a, b) <=> ~AtLeast(PriorityOf(b), PriorityOf(a))
  <1>1. \A s : ReadOrder(s) \in Int
    BY AnExport
  <1>2. CASE a.scenarios = {} /\ b.scenarios = {}
    BY <1>2, RankOfARow DEF Outranks, AtLeast
  <1>3. CASE a.scenarios # {} /\ b.scenarios = {}
    <2>1. PriorityOf(b) = <<0, 0>>
      BY <1>3, RankOfARow
    <2>2. PICK o \in Int : PriorityOf(a) = <<1, o>>
      BY <1>1, <1>3, RankOfARow
    <2> QED
      BY <1>3, <2>1, <2>2 DEF Outranks, AtLeast
  <1>4. CASE a.scenarios = {} /\ b.scenarios # {}
    <2>1. PriorityOf(a) = <<0, 0>>
      BY <1>4, RankOfARow
    <2>2. PICK o \in Int : PriorityOf(b) = <<1, o>>
      BY <1>1, <1>4, RankOfARow
    <2>3. ActiveTags(a) = {}
      BY <1>4 DEF ActiveTags
    <2> QED
      BY <1>4, <2>1, <2>2, <2>3 DEF Outranks, AtLeast
  <1>5. CASE a.scenarios # {} /\ b.scenarios # {}
    <2>1. PICK s \in ActiveTags(a) :
            /\ PriorityOf(a) = <<1, ReadOrder(s)>>
            /\ \A u \in ActiveTags(a) : ReadOrder(u) <= ReadOrder(s)
      BY <1>5, RankOfARow
    <2>2. PICK t \in ActiveTags(b) :
            /\ PriorityOf(b) = <<1, ReadOrder(t)>>
            /\ \A u \in ActiveTags(b) : ReadOrder(u) <= ReadOrder(t)
      BY <1>5, RankOfARow
    <2>3. Outranks(a, b) <=> ReadOrder(s) > ReadOrder(t)
      BY <1>1, <1>5, <2>1, <2>2 DEF Outranks
    <2>4. AtLeast(PriorityOf(b), PriorityOf(a)) <=> ReadOrder(t) >= ReadOrder(s)
      BY <1>1, <2>1, <2>2 DEF AtLeast
    <2> QED
      BY <1>1, <2>3, <2>4
  <1> QED
    BY <1>2, <1>3, <1>4, <1>5

Rank(i) == PriorityOf(export.data[i])
KeyOf(i) == WinnerKey(export.data[i])

\* The rows up to the n-th that are candidates.
Candidates(n) == {i \in 1 .. n : ~IsInactive(export.data[i])}

\* While the rows are read, of those that compete for one thing the strongest of the last stands.
WinnersSoFar ==
  /\ next \in 1 .. Cardinality(DOMAIN export.data) + 1
  /\ DOMAIN winners = {KeyOf(i) : i \in Candidates(next - 1)}
  /\ \A k \in DOMAIN winners :
       /\ winners[k].data \in Candidates(next - 1) /\ KeyOf(winners[k].data) = k
       /\ winners[k].priority = Rank(winners[k].data)
       /\ \A j \in Candidates(next - 1) : KeyOf(j) = k =>
            /\ AtLeast(Rank(winners[k].data), Rank(j))
            /\ j > winners[k].data => ~AtLeast(Rank(j), Rank(winners[k].data))

LEMMA RanksOfCandidates ==
  ASSUME export \in Exports, NEW n
  PROVE  \A i \in Candidates(n) : Rank(i) \in Int \X Int
  BY Priorities DEF Candidates, Rank

\* The rule of the code: a row is displaced by any other of its key, whatever day either ends.
Competes(i, j) == WinnerKey(export.data[i]) = WinnerKey(export.data[j])
Beats(i, j) == Competes(i, j) /\ Displaces(i, j)
Survives(i) == ~IsInactive(export.data[i]) /\ \A j \in DOMAIN export.data : ~Beats(j, i)

Standing == {i \in DOMAIN export.data : Survives(i)}

\* Once every row is read, those that won are those no other displaces.
LEMMA WinnersStand ==
  ASSUME export \in Exports, WinnersSoFar, next \notin DOMAIN export.data
  PROVE  Won = Standing
  <1> DEFINE N == Cardinality(DOMAIN export.data)
  <1>1. N \in Nat /\ DOMAIN export.data = 1 .. N /\ next = N + 1
    BY AnExport DEF WinnersSoFar
  <1>2. \A i : i \in Candidates(next - 1) <=> i \in DOMAIN export.data /\ ~IsInactive(export.data[i])
    BY <1>1 DEF Candidates
  <1>3. \A i, j \in Candidates(next - 1) :
          Beats(j, i) <=> KeyOf(j) = KeyOf(i) /\ (~AtLeast(Rank(i), Rank(j)) \/ (j > i /\ AtLeast(Rank(j), Rank(i))))
    BY <1>2, OutranksIsStronger DEF Beats, Displaces, Competes, KeyOf, Rank
  <1>4. ASSUME NEW k \in DOMAIN winners PROVE winners[k].data \in Standing
    <2> DEFINE i == winners[k].data
    <2>1. /\ i \in Candidates(next - 1) /\ KeyOf(i) = k
          /\ \A j \in Candidates(next - 1) : KeyOf(j) = k =>
               AtLeast(Rank(i), Rank(j)) /\ (j > i => ~AtLeast(Rank(j), Rank(i)))
      BY DEF WinnersSoFar
    <2>2. ASSUME NEW j \in DOMAIN export.data, Beats(j, i) PROVE FALSE
      <3>1. j \in Candidates(next - 1)
        BY <1>2, <2>2 DEF Beats, Displaces
      <3> QED
        BY <1>3, <2>1, <2>2, <3>1
    <2> QED
      BY <1>2, <2>1, <2>2 DEF Standing, Survives
  <1>5. ASSUME NEW i \in Standing PROVE i \in Won
    <2>1. i \in Candidates(next - 1)
      BY <1>2 DEF Standing, Survives
    <2>2. KeyOf(i) \in DOMAIN winners
      BY <2>1 DEF WinnersSoFar
    <2> DEFINE w == winners[KeyOf(i)].data
    <2>3. /\ w \in Candidates(next - 1) /\ KeyOf(w) = KeyOf(i)
          /\ AtLeast(Rank(w), Rank(i)) /\ (i > w => ~AtLeast(Rank(i), Rank(w)))
      BY <2>1, <2>2 DEF WinnersSoFar
    <2>4. ~Beats(w, i)
      BY <1>2, <2>3 DEF Standing, Survives
    <2>5. ~(~AtLeast(Rank(i), Rank(w)) \/ (w > i /\ AtLeast(Rank(w), Rank(i))))
      BY <1>3, <2>1, <2>3, <2>4
    <2>6. w = i
      BY <1>1, <2>1, <2>3, <2>5 DEF Candidates
    <2> QED
      BY <2>2, <2>6 DEF Won
  <1> QED
    BY <1>4, <1>5 DEF Won

LEMMA WinnersStartEmpty ==
  ASSUME export \in Exports, next = 1, DOMAIN winners = {}
  PROVE  WinnersSoFar
  <1>1. Cardinality(DOMAIN export.data) \in Nat
    BY AnExport
  <1>2. Candidates(next - 1) = {}
    BY DEF Candidates
  <1> QED
    BY <1>1, <1>2 DEF WinnersSoFar

LEMMA ScenariosAreFixed ==
  ASSUME UNCHANGED <<export, request>>
  PROVE  /\ \A data : ActiveTags(data)' = ActiveTags(data) /\ IsInactive(data)' = IsInactive(data)
         /\ \A s : ReadOrder(s)' = ReadOrder(s)
  <1>1. export' = export /\ Active' = Active
    BY DEF Active
  <1>2. \A data : ActiveTags(data)' = ActiveTags(data) /\ IsInactive(data)' = IsInactive(data)
    BY <1>1 DEF ActiveTags, IsInactive
  <1>3. \A s : ReadOrder(s)' = ReadOrder(s)
    BY <1>1 DEF ReadOrder
  <1> QED
    BY <1>2, <1>3

LEMMA RanksAreFixed ==
  ASSUME UNCHANGED <<export, request>>
  PROVE  /\ \A i : KeyOf(i)' = KeyOf(i) /\ Rank(i)' = Rank(i)
         /\ \A n : Candidates(n)' = Candidates(n)
  <1>1. ASSUME NEW data PROVE PriorityOf(data)' = PriorityOf(data)
    <2>1. {ReadOrder(s) : s \in ActiveTags(data)}' = {ReadOrder(s) : s \in ActiveTags(data)}
      BY ScenariosAreFixed
    <2> QED
      BY <2>1 DEF PriorityOf, BasePriority
  <1>2. \A i : Rank(i)' = Rank(i)
    BY <1>1 DEF Rank
  <1>3. \A i : KeyOf(i)' = KeyOf(i)
    BY DEF KeyOf, WinnerKey
  <1>4. \A n : Candidates(n)' = Candidates(n)
    BY ScenariosAreFixed DEF Candidates
  <1> QED
    BY <1>2, <1>3, <1>4

\* Of the rows up to the n-th, those of won are the strongest, the last of those as strong.
AreWinners(won, n) ==
  /\ DOMAIN won = {KeyOf(i) : i \in Candidates(n)}
  /\ \A k \in DOMAIN won :
       /\ won[k].data \in Candidates(n) /\ KeyOf(won[k].data) = k /\ won[k].priority = Rank(won[k].data)
       /\ \A j \in Candidates(n) : KeyOf(j) = k =>
            AtLeast(Rank(won[k].data), Rank(j)) /\ (j > won[k].data => ~AtLeast(Rank(j), Rank(won[k].data)))

LEMMA ReadRowKeepsWinners ==
  ASSUME export \in Exports, WinnersSoFar, ReadRow
  PROVE  WinnersSoFar'
  <1> DEFINE N == Cardinality(DOMAIN export.data)
             key == KeyOf(next)
             loses == key \in DOMAIN winners /\ ~AtLeast(Rank(next), winners[key].priority)
             Before == Candidates(next - 1)
             Now == Candidates(next)
  <1>1. /\ N \in Nat /\ DOMAIN export.data = 1 .. N /\ next \in 1 .. N
        /\ export' = export /\ request' = request /\ next' = next + 1 /\ next' - 1 = next
        /\ next' \in 1 .. N + 1
    <2>1. N \in Nat /\ DOMAIN export.data = 1 .. N
      BY AnExport
    <2>2. next \in DOMAIN export.data /\ export' = export /\ request' = request /\ next' = next + 1
      BY DEF ReadRow
    <2> QED
      BY <2>1, <2>2
  <1>2. IF IsInactive(export.data[next]) THEN Now = Before ELSE Now = Before \cup {next} /\ next \notin Before
    BY <1>1 DEF Candidates
  <1>3. \A i \in Now : Rank(i) \in Int \X Int
    BY RanksOfCandidates
  <1>4. \A j \in Before : j \in Int /\ j < next
    BY <1>1 DEF Candidates
  <1>5. AreWinners(winners, next - 1)
    BY DEF AreWinners, WinnersSoFar
  <1>6. SUFFICES AreWinners(winners', next)
    <2>1. \A i : KeyOf(i)' = KeyOf(i) /\ Rank(i)' = Rank(i)
      BY <1>1, RanksAreFixed
    <2>2. Candidates(next - 1)' = Candidates(next)
      BY <1>1, RanksAreFixed
    <2>3. (next \in 1 .. Cardinality(DOMAIN export.data) + 1)'
      BY <1>1
    <2> QED
      BY <2>1, <2>2, <2>3 DEF WinnersSoFar, AreWinners, AtLeast
  <1>7. CASE IsInactive(export.data[next])
    BY <1>2, <1>5, <1>7 DEF ReadRow, AreWinners
  <1>8. CASE ~IsInactive(export.data[next]) /\ loses
    <2>1. winners' = winners
      BY <1>8 DEF ReadRow, KeyOf, Rank
    <2>2. Now = Before \cup {next}
      BY <1>2, <1>8
    <2> QED
      BY <1>3, <1>4, <1>5, <1>8, <2>1, <2>2, PrioritiesAreOrdered DEF AreWinners
  <1>9. CASE ~IsInactive(export.data[next]) /\ ~loses
    <2>1. winners' = [k \in DOMAIN winners \cup {key} |->
                       IF k = key THEN [priority |-> Rank(next), data |-> next] ELSE winners[k]]
      BY <1>9 DEF ReadRow, KeyOf, Rank
    <2>2. Now = Before \cup {next}
      BY <1>2, <1>9
    <2>3. /\ DOMAIN winners' = DOMAIN winners \cup {key}
          /\ winners'[key].data = next /\ winners'[key].priority = Rank(next)
          /\ \A k \in DOMAIN winners : k # key => winners'[k] = winners[k]
      BY <2>1
    <2>4. ASSUME key \in DOMAIN winners
          PROVE  \A j \in Before : KeyOf(j) = key => AtLeast(Rank(next), Rank(j))
      <3> DEFINE w == winners[key].data
      <3>1. w \in Before /\ winners[key].priority = Rank(w) /\ AtLeast(Rank(next), Rank(w))
        BY <1>5, <1>9, <2>4 DEF AreWinners
      <3>2. \A j \in Before : KeyOf(j) = key => AtLeast(Rank(w), Rank(j))
        BY <1>5, <2>4 DEF AreWinners
      <3>3. \A j \in Before : Rank(j) \in Int \X Int /\ Rank(next) \in Int \X Int /\ Rank(w) \in Int \X Int
        BY <1>3, <2>2, <3>1
      <3> HIDE DEF w
      <3> QED
        BY <3>1, <3>2, <3>3, PrioritiesAreOrdered
    <2>5. \A j \in Now : KeyOf(j) = key => AtLeast(Rank(next), Rank(j)) /\ ~(j > next)
      <3>1. AtLeast(Rank(next), Rank(next))
        BY <1>3, <2>2, PrioritiesAreOrdered
      <3>2. \A j \in Before : KeyOf(j) = key => key \in DOMAIN winners
        BY <1>5 DEF AreWinners
      <3> QED
        BY <1>1, <1>4, <2>2, <2>4, <3>1, <3>2
    <2>6. DOMAIN winners' = {KeyOf(i) : i \in Now}
      BY <1>5, <2>2, <2>3 DEF AreWinners
    <2>7. ASSUME NEW k \in DOMAIN winners', k # key
          PROVE  /\ k \in DOMAIN winners /\ winners'[k] = winners[k]
                 /\ \A j \in Now : KeyOf(j) = k => j \in Before
      BY <2>2, <2>3, <2>7
    <2> HIDE DEF key, loses, Before, Now
    <2>8. \A k \in DOMAIN winners' :
            /\ winners'[k].data \in Now /\ KeyOf(winners'[k].data) = k /\ winners'[k].priority = Rank(winners'[k].data)
            /\ \A j \in Now : KeyOf(j) = k =>
                 AtLeast(Rank(winners'[k].data), Rank(j)) /\ (j > winners'[k].data => ~AtLeast(Rank(j), Rank(winners'[k].data)))
      <3>1. TAKE k \in DOMAIN winners'
      <3>2. CASE k = key
        BY <2>2, <2>3, <2>5, <3>2 DEF key
      <3>3. CASE k # key
        BY <1>5, <2>2, <2>7, <3>3 DEF AreWinners, Before
      <3> QED
        BY <3>2, <3>3
    <2> QED
      BY <2>6, <2>8 DEF AreWinners, Now
  <1> QED
    BY <1>7, <1>8, <1>9

(* ---------------------------- what rows resolve to ---------------------- *)

LEMMA OneRowStands ==
  ASSUME export \in Exports, NEW i \in Standing, NEW j \in Standing, KeyOf(i) = KeyOf(j)
  PROVE  i = j
  <1>1. i \in Int /\ j \in Int
    BY AnExport DEF Standing
  <1>2. ~Beats(i, j) /\ ~Beats(j, i)
    BY DEF Standing, Survives
  <1>3. ~IsInactive(export.data[i]) /\ ~IsInactive(export.data[j])
    BY DEF Standing, Survives
  <1> QED
    BY <1>1, <1>2, <1>3 DEF Beats, Displaces, Competes, KeyOf

Sound == {m \in export.memberships : m.dangling = None}

\* The rows that stand and name nothing that is not there.
Live == {i \in Standing : DanglingReferences(export.data[i]) = {}}
Entry(i) == [row |-> PropertyRow(export.data[i]), dates |-> [from |-> export.data[i].from, to |-> export.data[i].to]]

LEMMA MembershipOfALiveRow ==
  ASSUME export \in Exports, memberships = Sound, NEW i \in Live
  PROVE  /\ HasMembership(export.data[i].membership)
         /\ MembershipOf(i) \in memberships /\ MembershipOf(i).id = export.data[i].membership
         /\ (CHOOSE m \in memberships : m.id = export.data[i].membership) = MembershipOf(i)
  <1>1. PICK m \in memberships : m.id = export.data[i].membership
    BY DEF Live, DanglingReferences
  <1>2. m \in export.memberships /\ memberships \subseteq export.memberships
    BY <1>1 DEF Sound
  <1>3. \A n \in export.memberships : n.id = export.data[i].membership => n = m
    BY <1>1, <1>2, AnExport DEF MembershipsAreApart
  <1>4. MembershipOf(i) = m
    BY <1>1, <1>2, <1>3 DEF MembershipOf
  <1>5. (CHOOSE n \in memberships : n.id = export.data[i].membership) = m
    BY <1>1, <1>2, <1>3
  <1> QED
    BY <1>1, <1>2, <1>4, <1>5 DEF HasMembership

LEMMA RowOfAnEntry ==
  ASSUME export \in Exports, memberships = Sound, NEW i \in Live
  PROVE  /\ Entry(i).dates = [from |-> export.data[i].from, to |-> export.data[i].to]
         /\ Entry(i).row.class = MembershipOf(i).class /\ Entry(i).row.object = MembershipOf(i).object
         /\ Entry(i).row.collection = MembershipOf(i).collection
         /\ Entry(i).row.property = export.data[i].property /\ Entry(i).row.band = export.data[i].band
         /\ Entry(i).row.value = Convert(export.data[i], MembershipOf(i))
         /\ States(Entry(i).row, i)
  <1>1. (CHOOSE m \in memberships : m.id = export.data[i].membership) = MembershipOf(i)
    BY MembershipOfALiveRow
  <1>2. HasMembership(export.data[i].membership)
    BY MembershipOfALiveRow
  <1>3. /\ Entry(i).row.class = MembershipOf(i).class /\ Entry(i).row.object = MembershipOf(i).object
        /\ Entry(i).row.collection = MembershipOf(i).collection
        /\ Entry(i).row.property = export.data[i].property /\ Entry(i).row.band = export.data[i].band
        /\ Entry(i).row.value = Convert(export.data[i], MembershipOf(i))
    BY <1>1 DEF Entry, PropertyRow
  <1> QED
    BY <1>2, <1>3 DEF Entry, States

\* A row states the same property as one that is staged: it is the same membership's.
LEMMA StatesOneProperty ==
  ASSUME export \in Exports, memberships = Sound, NEW i \in Live, NEW j, HasMembership(export.data[j].membership)
  PROVE  States(Entry(i).row, j) <=>
           /\ export.data[j].membership = export.data[i].membership
           /\ export.data[j].property = export.data[i].property
           /\ export.data[j].band = export.data[i].band
  <1>1. /\ MembershipOf(i) \in export.memberships /\ MembershipOf(i).id = export.data[i].membership
    BY MembershipOfALiveRow DEF Sound
  <1>2. /\ MembershipOf(j) \in export.memberships /\ MembershipOf(j).id = export.data[j].membership
    BY DEF HasMembership, MembershipOf
  <1>3. MembershipOf(i).id = MembershipOf(j).id <=>
          <<MembershipOf(i).class, MembershipOf(i).object, MembershipOf(i).collection>>
            = <<MembershipOf(j).class, MembershipOf(j).object, MembershipOf(j).collection>>
    BY <1>1, <1>2, AnExport DEF MembershipsAreApart
  <1>4. /\ Entry(i).row.class = MembershipOf(i).class /\ Entry(i).row.object = MembershipOf(i).object
        /\ Entry(i).row.collection = MembershipOf(i).collection
        /\ Entry(i).row.property = export.data[i].property /\ Entry(i).row.band = export.data[i].band
    BY RowOfAnEntry
  <1> QED
    BY <1>1, <1>2, <1>3, <1>4 DEF States

LEMMA EntriesAreApart ==
  ASSUME export \in Exports, memberships = Sound, NEW i \in Live, NEW j \in Standing,
         States(Entry(i).row, j), Entry(i).dates.from = export.data[j].from
  PROVE  i = j
  <1>1. HasMembership(export.data[j].membership)
    BY DEF States
  <1>2. /\ export.data[j].membership = export.data[i].membership
        /\ export.data[j].property = export.data[i].property
        /\ export.data[j].band = export.data[i].band
    BY <1>1, StatesOneProperty
  <1>3. export.data[i].from = export.data[j].from
    BY DEF Entry
  <1>4. KeyOf(i) = KeyOf(j) /\ i \in Standing
    BY <1>2, <1>3 DEF KeyOf, WinnerKey, Live
  <1> QED
    BY <1>4, OneRowStands

LEMMA StandingIsFixed ==
  ASSUME UNCHANGED <<export, request>>
  PROVE  Standing' = Standing
  <1>1. \A a, b : Outranks(a, b)' = Outranks(a, b)
    BY ScenariosAreFixed DEF Outranks
  <1>2. \A i, j : Beats(i, j)' = Beats(i, j)
    BY <1>1, ScenariosAreFixed DEF Beats, Displaces, Competes, WinnerKey
  <1>3. \A i : Survives(i)' = Survives(i)
    BY <1>2, ScenariosAreFixed DEF Survives
  <1> QED
    BY <1>3 DEF Standing

LEMMA EntriesAreFixed ==
  ASSUME UNCHANGED <<export, request, memberships, files>>
  PROVE  Sound' = Sound /\ Live' = Live /\ \A i : Entry(i)' = Entry(i) /\ MembershipOf(i)' = MembershipOf(i)
  <1>1. Sound' = Sound
    BY DEF Sound
  <1>2. \A i : DanglingReferences(export.data[i])' = DanglingReferences(export.data[i])
    BY DEF DanglingReferences
  <1>3. Live' = Live
    BY <1>2, StandingIsFixed DEF Live
  <1>4. \A i : MembershipOf(i)' = MembershipOf(i)
    BY DEF MembershipOf
  <1>5. \A i : Entry(i)' = Entry(i)
    BY DEF Entry, PropertyRow, Convert, ProfileOf, Scaling, Unit
  <1> QED
    BY <1>1, <1>3, <1>4, <1>5

(* ------------------------- every row has one fate ----------------------- *)

BeforeResolving == {"chronology", "memberships", "files", "rows"}
AfterResolving  == {"window", "objects", "files read", "steps", "staged"}

\* The inductive invariant: while rows are read the strongest stand and none is dropped; then
\* those that stand are resolved or recorded, as what they name is there or not.
Resolution ==
  /\ export \in Exports /\ request \in Requests /\ step \in BeforeResolving \cup AfterResolving
  /\ step \in {"chronology", "memberships", "files"} => next = 1 /\ DOMAIN winners = {}
  /\ step \notin {"chronology", "memberships"} => memberships = Sound
  /\ step = "rows" => WinnersSoFar
  /\ step \in BeforeResolving => \A i : ~IsDropped(i)
  /\ step \in AfterResolving =>
       resolved = {Entry(i) : i \in Live} /\ \A i : IsDropped(i) <=> i \in Standing \ Live

LEMMA ResolutionInit == Init => Resolution
  BY DEF Init, Resolution, BeforeResolving, AfterResolving, IsDropped

\* A step that drops no row of t_data before they are all read, and leaves the winners alone.
LEMMA ResolutionIsKept ==
  ASSUME Resolution, step' \in BeforeResolving \cup AfterResolving,
         step \in BeforeResolving <=> step' \in BeforeResolving,
         UNCHANGED <<export, request, memberships, files, next, winners, resolved>>,
         step' \in {"chronology", "memberships", "files"} => step \in {"chronology", "memberships", "files"},
         step \in {"chronology", "memberships"} => step' \in {"chronology", "memberships"},
         step' = "rows" => step = "rows",
         \A d : d.table # "t_data" \/ d.column = "data_id" \/ (d \in dropped' <=> d \in dropped)
  PROVE  Resolution'
  <1>1. Sound' = Sound /\ Live' = Live /\ \A i : Entry(i)' = Entry(i)
    BY EntriesAreFixed
  <1>2. Standing' = Standing
    BY StandingIsFixed
  <1>3. \A i : IsDropped(i)' <=> IsDropped(i)
    BY DEF IsDropped
  <1>4. step = "rows" => WinnersSoFar'
    <2>1. \A i : KeyOf(i)' = KeyOf(i) /\ Rank(i)' = Rank(i)
      BY RanksAreFixed
    <2>2. Candidates(next - 1)' = Candidates(next - 1)
      BY RanksAreFixed
    <2> QED
      BY <2>1, <2>2 DEF Resolution, WinnersSoFar, AtLeast
  <1>5. step \in BeforeResolving \/ step \in AfterResolving
    BY DEF Resolution
  <1>6. step' \in AfterResolving => step \in AfterResolving
    BY <1>5 DEF BeforeResolving, AfterResolving
  <1>7. (step \in AfterResolving => resolved = {Entry(i) : i \in Live})
          => (step \in AfterResolving => resolved' = {Entry(i)' : i \in Live'})
    BY <1>1
  <1> QED
    BY <1>1, <1>2, <1>3, <1>4, <1>6, <1>7 DEF Resolution

LEMMA DroppedColumns ==
  ASSUME NEW i, Standing = Won, \A j : ~IsDropped(j),
         dropped' = dropped \cup UNION {DanglingColumns("t_data", j, DanglingReferences(export.data[j])) : j \in Won},
         UNCHANGED <<export, request, memberships, files>>
  PROVE  IsDropped(i)' <=> i \in Standing \ Live
  <1>1. \A j : DanglingReferences(export.data[j]) \subseteq {"membership_id", "property_id"}
    BY DEF DanglingReferences
  <1>2. IsDropped(i)' <=> \E d \in dropped' : d.table = "t_data" /\ d.row = i /\ d.column # "data_id"
    BY DEF IsDropped
  <1>3. ASSUME i \in Standing \ Live PROVE IsDropped(i)'
    <2>1. PICK c \in DanglingReferences(export.data[i]) : TRUE
      BY <1>3 DEF Live
    <2> DEFINE d == Dangles("t_data", i, c)
    <2>2. d \in DanglingColumns("t_data", i, DanglingReferences(export.data[i]))
      BY <2>1 DEF DanglingColumns
    <2>3. d \in dropped'
      BY <1>3, <2>2
    <2>4. d.table = "t_data" /\ d.row = i /\ d.column # "data_id"
      BY <1>1, <2>1 DEF Dangles
    <2> QED
      BY <1>2, <2>3, <2>4
  <1>4. ASSUME IsDropped(i)' PROVE i \in Standing \ Live
    <2>1. PICK d \in dropped' : d.table = "t_data" /\ d.row = i /\ d.column # "data_id"
      BY <1>2, <1>4
    <2>2. d \notin dropped
      BY <2>1 DEF IsDropped
    <2>3. PICK j \in Won : d \in DanglingColumns("t_data", j, DanglingReferences(export.data[j]))
      BY <2>1, <2>2
    <2>4. PICK c \in DanglingReferences(export.data[j]) : d = Dangles("t_data", j, c)
      BY <2>3 DEF DanglingColumns
    <2>5. j = i
      BY <2>1, <2>4 DEF Dangles
    <2> QED
      BY <2>3, <2>4, <2>5 DEF Live
  <1> QED
    BY <1>3, <1>4

LEMMA ResolutionNext ==
  ASSUME Resolution, [Next]_vars
  PROVE  Resolution'
  <1> USE DEF BeforeResolving, AfterResolving
  <1>1. CASE SettleChronology
    <2>1. /\ step = "chronology" /\ step' = "memberships" /\ dropped' = dropped
          /\ UNCHANGED <<export, request, memberships, files, next, winners, resolved>>
      BY <1>1 DEF SettleChronology, Goto
    <2> QED
      BY <2>1, ResolutionIsKept
  <1>2. CASE ResolveMemberships
    <2>1. /\ step = "memberships" /\ step' = "files" /\ memberships' = Sound
          /\ UNCHANGED <<export, request, next, winners>>
      BY <1>2 DEF ResolveMemberships, Goto, Sound
    <2>2. \A d \in dropped' : d.table = "t_membership"
      BY <1>2 DEF ResolveMemberships, Dangles
    <2>3. Sound' = Sound
      BY <2>1 DEF Sound
    <2>4. \A i : ~IsDropped(i)'
      BY <2>2 DEF IsDropped
    <2> QED
      BY <2>1, <2>3, <2>4 DEF Resolution
  <1>3. CASE NameFiles
    <2>1. /\ step = "files" /\ step' = "rows" /\ UNCHANGED <<export, request, memberships, next, winners>>
      BY <1>3 DEF NameFiles, Goto
    <2>2. \A d \in dropped' : d \in dropped \/ d.column = "data_id"
      <3>1. PICK rows, of : dropped' = dropped \cup {Dangles("t_data", rows[o], "data_id") : o \in of}
        BY <1>3 DEF NameFiles
      <3> QED
        BY <3>1 DEF Dangles
    <2>3. \A i : ~IsDropped(i)'
      BY <2>1, <2>2 DEF Resolution, IsDropped
    <2>4. WinnersSoFar
      BY <2>1, WinnersStartEmpty DEF Resolution
    <2>5. WinnersSoFar'
      <3>1. \A i : KeyOf(i)' = KeyOf(i) /\ Rank(i)' = Rank(i)
        BY <2>1, RanksAreFixed
      <3>2. Candidates(next - 1)' = Candidates(next - 1)
        BY <2>1, RanksAreFixed
      <3> QED
        BY <2>1, <2>4, <3>1, <3>2 DEF WinnersSoFar, AtLeast
    <2>6. Sound' = Sound
      BY <2>1 DEF Sound
    <2> QED
      BY <2>1, <2>3, <2>5, <2>6 DEF Resolution
  <1>4. CASE ReadRow
    <2>1. step = "rows" /\ UNCHANGED <<step, export, request, memberships, dropped>>
      BY <1>4 DEF ReadRow
    <2>2. WinnersSoFar'
      BY <1>4, <2>1, ReadRowKeepsWinners DEF Resolution
    <2>3. \A i : IsDropped(i)' <=> IsDropped(i)
      BY <2>1 DEF IsDropped
    <2>4. Sound' = Sound
      BY <2>1 DEF Sound
    <2> QED
      BY <2>1, <2>2, <2>3, <2>4 DEF Resolution
  <1>5. CASE ResolveProperties
    <2>1. /\ step = "rows" /\ step' = "window" /\ next \notin DOMAIN export.data
          /\ UNCHANGED <<export, request, memberships, files>>
      BY <1>5 DEF ResolveProperties, Goto
    <2>2. Won = Standing
      BY <2>1, WinnersStand DEF Resolution
    <2>3. \A i : IsDropped(i)' <=> i \in Standing \ Live
      <3>1. \A j : ~IsDropped(j)
        BY <2>1 DEF Resolution
      <3>2. dropped' = dropped \cup UNION {DanglingColumns("t_data", j, DanglingReferences(export.data[j])) : j \in Won}
        BY <1>5 DEF ResolveProperties
      <3> QED
        BY <2>1, <2>2, <3>1, <3>2, DroppedColumns
    <2>4. resolved' = {Entry(i) : i \in Live}
      BY <1>5, <2>2 DEF ResolveProperties, Live, Entry
    <2>5. Sound' = Sound /\ Live' = Live /\ (\A i : Entry(i)' = Entry(i)) /\ Standing' = Standing
      BY <2>1, EntriesAreFixed, StandingIsFixed
    <2>6. resolved' = {Entry(i)' : i \in Live'}
      BY <2>4, <2>5
    <2> QED
      BY <2>1, <2>3, <2>5, <2>6 DEF Resolution
  <1>6. CASE ApplyWindow
    <2>1. /\ step = "window" /\ step' = "objects" /\ dropped' = dropped
          /\ UNCHANGED <<export, request, memberships, files, next, winners, resolved>>
      BY <1>6 DEF ApplyWindow, Goto
    <2> QED
      BY <2>1, ResolutionIsKept
  <1>7. CASE StageTopology
    <2>1. /\ step = "objects" /\ step' = "files read"
          /\ UNCHANGED <<export, request, memberships, files, next, winners, resolved>>
      BY <1>7 DEF StageTopology, Goto
    <2>2. \A d : d.table # "t_data" \/ d.column = "data_id" \/ (d \in dropped' <=> d \in dropped)
      <3>1. PICK lost : dropped' = dropped \cup {Dangles("t_object", o.id, "class_id") : o \in lost}
        BY <1>7 DEF StageTopology
      <3> QED
        BY <3>1 DEF Dangles
    <2> QED
      BY <2>1, <2>2, ResolutionIsKept
  <1>8. ASSUME NEW path \in unread, ReadDataFile(path) PROVE Resolution'
    <2>1. /\ step = "files read" /\ step' = step /\ dropped' = dropped
          /\ UNCHANGED <<export, request, memberships, files, next, winners, resolved>>
      BY <1>8 DEF ReadDataFile
    <2> QED
      BY <2>1, ResolutionIsKept
  <1>9. CASE StageTimeSeries
    <2>1. /\ step = "files read" /\ step' = "steps" /\ dropped' = dropped
          /\ UNCHANGED <<export, request, memberships, files, next, winners, resolved>>
      BY <1>9 DEF StageTimeSeries, Goto
    <2> QED
      BY <2>1, ResolutionIsKept
  <1>10. CASE StageStepped
    <2>1. /\ step = "steps" /\ step' = "staged" /\ dropped' = dropped
          /\ UNCHANGED <<export, request, memberships, files, next, winners, resolved>>
      BY <1>10 DEF StageStepped, Goto
    <2> QED
      BY <2>1, ResolutionIsKept
  <1>11. CASE UNCHANGED vars
    <2>1. UNCHANGED <<step, export, request, memberships, files, next, winners, resolved, dropped>>
      BY <1>11 DEF vars
    <2>2. step \in BeforeResolving \cup AfterResolving
      BY DEF Resolution
    <2> HIDE DEF BeforeResolving, AfterResolving
    <2> QED
      BY <2>1, <2>2, ResolutionIsKept
  <1> QED
    BY <1>1, <1>2, <1>3, <1>4, <1>5, <1>6, <1>7, <1>8, <1>9, <1>10, <1>11 DEF Next, Staged

\* Throughout a staging the strongest rows stand, and once they are read each is resolved or
\* recorded as dropped.
THEOREM RowsAreResolved == Spec => []Resolution
  <1>1. Init => Resolution
    BY ResolutionInit
  <1>2. Resolution /\ [Next]_vars => Resolution'
    BY ResolutionNext
  <1> QED
    BY <1>1, <1>2, PTL DEF Spec

LEMMA OneForOne ==
  ASSUME NEW S, IsFiniteSet(S), NEW T, NEW f \in [S -> T],
         \A x, y \in S : f[x] = f[y] => x = y,
         \A t \in T : \E x \in S : f[x] = t
  PROVE  IsFiniteSet(T) /\ Cardinality(T) = Cardinality(S)
  <1>1. f \in Bijection(S, T)
    BY Fun_IsBij
  <1>2. ExistsBijection(S, T)
    BY <1>1, Fun_ExistsBij
  <1> QED
    BY <1>2, FS_Bijection

LEMMA ResolvedOneByOne ==
  ASSUME Resolution, step \in AfterResolving
  PROVE  /\ \A i \in DOMAIN export.data : IF Survives(i) THEN IsResolved(i) # IsDropped(i) ELSE ~IsDropped(i)
         /\ {i \in DOMAIN export.data : Survives(i) /\ ~IsDropped(i)} = Live
         /\ IsFiniteSet(Live) /\ Cardinality(resolved) = Cardinality(Live)
  <1>1. export \in Exports /\ memberships = Sound /\ resolved = {Entry(i) : i \in Live}
        /\ \A i : IsDropped(i) <=> i \in Standing \ Live
    BY DEF Resolution, AfterResolving
  <1>2. Live \subseteq Standing /\ Standing \subseteq DOMAIN export.data /\ IsFiniteSet(Live)
    BY <1>1, AnExport, FS_Subset DEF Live, Standing
  <1>3. ASSUME NEW i \in Live PROVE IsResolved(i)
    BY <1>1, RowOfAnEntry DEF IsResolved, IsStagedAs
  <1>4. ASSUME NEW i \in Standing, IsResolved(i) PROVE i \in Live
    <2>1. PICK j \in Live : States(Entry(j).row, i) /\ Entry(j).dates.from = export.data[i].from
      BY <1>1, <1>4 DEF IsResolved, IsStagedAs
    <2>2. j = i
      BY <1>1, <2>1, EntriesAreApart
    <2> QED
      BY <2>1, <2>2
  <1>5. \A i \in DOMAIN export.data : IF Survives(i) THEN IsResolved(i) # IsDropped(i) ELSE ~IsDropped(i)
    <2>1. \A i \in Standing : IsResolved(i) <=> ~IsDropped(i)
      BY <1>1, <1>3, <1>4
    <2>2. \A i \in DOMAIN export.data : Survives(i) <=> i \in Standing
      BY DEF Standing
    <2>3. \A i : IsResolved(i) \in BOOLEAN /\ IsDropped(i) \in BOOLEAN
      BY DEF IsResolved, IsDropped
    <2> QED
      BY <1>1, <2>1, <2>2, <2>3
  <1>6. {i \in DOMAIN export.data : Survives(i) /\ ~IsDropped(i)} = Live
    BY <1>1, <1>2 DEF Standing
  <1>7. Cardinality(resolved) = Cardinality(Live)
    <2> DEFINE f == [i \in Live |-> Entry(i)]
    <2>1. f \in [Live -> resolved]
      BY <1>1
    <2>2. ASSUME NEW i \in Live, NEW j \in Live, Entry(i) = Entry(j) PROVE i = j
      <3>1. States(Entry(i).row, j) /\ Entry(i).dates.from = export.data[j].from
        <4>1. States(Entry(j).row, j) /\ Entry(j).dates = [from |-> export.data[j].from, to |-> export.data[j].to]
          BY <1>1, RowOfAnEntry
        <4> QED
          BY <2>2, <4>1
      <3> QED
        BY <1>1, <1>2, <3>1, EntriesAreApart
    <2>3. \A i, j \in Live : f[i] = f[j] => i = j
      BY <2>2
    <2>4. \A d \in resolved : \E i \in Live : f[i] = d
      BY <1>1
    <2> HIDE DEF f
    <2> QED
      BY <1>2, <2>1, <2>3, <2>4, OneForOne
  <1> QED
    BY <1>2, <1>5, <1>6, <1>7

\* A row that is displaced by no other of its key is displaced by none of the same entry; and
\* the other way round where no other of its key is another entry.
LEMMA SurvivorsStand ==
  ASSUME NEW i, Survives(i)
  PROVE  Stands(i)
  <1>1. ASSUME NEW j \in DOMAIN export.data, SameEntry(i, j) PROVE ~Displaces(j, i)
    <2>1. Competes(j, i)
      BY <1>1 DEF Competes, WinnerKey, SameEntry, StartsWith
    <2> QED
      BY <1>1, <2>1 DEF Survives, Beats
  <1> QED
    BY <1>1 DEF Survives, Stands

LEMMA UncontestedSurvive ==
  ASSUME NEW i, ~IsContested(i), Stands(i)
  PROVE  Survives(i)
  <1>1. ASSUME NEW j \in DOMAIN export.data, Beats(j, i) PROVE FALSE
    <2>1. StartsWith(i, j)
      BY <1>1 DEF Beats, Competes, WinnerKey, StartsWith
    <2>2. ~IsInactive(export.data[j]) /\ Displaces(j, i)
      BY <1>1 DEF Beats, Displaces
    <2>3. SameEntry(i, j)
      BY <2>1, <2>2 DEF IsContested
    <2> QED
      BY <2>2, <2>3 DEF Stands
  <1> QED
    BY <1>1 DEF Stands, Survives

LEMMA RowsFare ==
  ASSUME Resolution, step \in AfterResolving
  PROVE  EveryRowHasOneFate
  <1>1. export \in Exports /\ memberships = Sound /\ resolved = {Entry(i) : i \in Live}
        /\ \A i : IsDropped(i) <=> i \in Standing \ Live
    BY DEF Resolution, AfterResolving
  <1>2. ASSUME NEW i \in DOMAIN export.data, ~IsContested(i)
        PROVE  IF Stands(i) THEN IsResolved(i) # IsDropped(i) ELSE ~IsDropped(i)
    <2>1. Survives(i) <=> Stands(i)
      BY <1>2, SurvivorsStand, UncontestedSurvive
    <2>2. IF Survives(i) THEN IsResolved(i) # IsDropped(i) ELSE ~IsDropped(i)
      BY ResolvedOneByOne
    <2>3. CASE Survives(i)
      BY <2>1, <2>2, <2>3
    <2>4. CASE ~Survives(i)
      BY <2>1, <2>2, <2>4
    <2> QED
      BY <2>3, <2>4
  <1>3. ASSUME NEW i \in Live PROVE i \in DOMAIN export.data /\ Stands(i) /\ ~IsDropped(i) /\ IsStagedAs(i, Entry(i))
    <2>1. i \in DOMAIN export.data /\ Survives(i)
      BY DEF Live, Standing
    <2> QED
      BY <1>1, <2>1, SurvivorsStand, RowOfAnEntry DEF IsStagedAs
  <1>4. \A d \in resolved : \E i \in DOMAIN export.data : Stands(i) /\ ~IsDropped(i) /\ IsStagedAs(i, d)
    BY <1>1, <1>3
  <1>5. Cardinality(resolved) <= Cardinality({i \in DOMAIN export.data : Stands(i) /\ ~IsDropped(i)})
    <2> DEFINE S == {i \in DOMAIN export.data : Stands(i) /\ ~IsDropped(i)}
    <2>1. Live \subseteq S
      BY <1>3
    <2>2. IsFiniteSet(S)
      BY <1>1, AnExport, FS_Subset
    <2>3. Cardinality(resolved) = Cardinality(Live) /\ IsFiniteSet(Live)
      BY ResolvedOneByOne
    <2> HIDE DEF S
    <2>4. Cardinality(Live) <= Cardinality(S)
      BY <2>1, <2>2, FS_Subset
    <2> QED
      BY <2>3, <2>4 DEF S
  <1> QED
    BY <1>2, <1>4, <1>5 DEF EveryRowHasOneFate

\* Every row of t_data that is read and displaced by none of the same entry is staged or
\* recorded as dropped, and whatever is staged is such a row, once: for every export, every
\* order of its rows and every Read Order of the Scenarios.  Rows contend for more than that
\* in the code, so nothing is said of one that another of its start, with another end,
\* may displace.
THEOREM RowsHaveOneFate == Spec => []EveryRowHasOneFate
  <1>1. Resolution => EveryRowHasOneFate
    <2>1. CASE step = "staged"
      BY <2>1, RowsFare DEF AfterResolving
    <2>2. CASE step # "staged"
      BY <2>2 DEF EveryRowHasOneFate
    <2> QED
      BY <2>1, <2>2
  <1> QED
    BY <1>1, RowsAreResolved, PTL

(* ---------------------------- the chronology ---------------------------- *)

\* A step before the end of a day is a step of a day no later.
LEMMA WholeDays ==
  ASSUME NEW t \in Int, NEW to \in Int, to % DayLength = 0
  PROVE  t \div DayLength <= to \div DayLength <=> t < to + DayLength
  <1> DEFINE D == DayLength
             q == t \div D
             r == t % D
             k == to \div D
  <1>1. D \in Nat \ {0}
    BY TimeAssumption
  <1>2. q \in Int /\ k \in Int /\ r \in 0 .. D - 1 /\ t = D * q + r
    BY <1>1, Z3
  <1>3. to = D * k
    BY <1>1, Z3
  <1> HIDE DEF D, q, r, k
  <1>4. CASE q <= k
    <2>1. PICK n \in Nat : k = q + n
      BY <1>2, <1>4
    <2>2. D * k = D * q + D * n /\ D * n >= 0
      BY <1>1, <1>2, <2>1, Z3
    <2> QED
      BY <1>1, <1>2, <1>3, <1>4, <2>2 DEF D, q, k
  <1>5. CASE ~(q <= k)
    <2>1. PICK n \in Nat : q = k + 1 + n
      BY <1>2, <1>5
    <2>2. D * q = D * k + D + D * n /\ D * n >= 0
      BY <1>1, <1>2, <2>1, Z3
    <2> QED
      BY <1>1, <1>2, <1>3, <1>5, <2>2 DEF D, q, k
  <1> QED
    BY <1>4, <1>5

IsWindow(window) == window.start \in Int /\ window.end \in Int

\* Once it is settled: a window, and snapshots that all fall inside it.
Timing ==
  step # "chronology" =>
    /\ IsWindow(chronology.window) /\ IsNumber(chronology.profile_year)
    /\ chronology.index # None =>
         /\ chronology.index \in SUBSET Int /\ IsFiniteSet(chronology.index)
         /\ \A t \in chronology.index : IsWithin(t, chronology.window)

LEMMA HorizonOfNumbers ==
  ASSUME export \in Exports, Horizon # None
  PROVE  Horizon.start \in Int /\ Horizon.periods \in Int /\ Horizon.interval \in Int
  <1> DEFINE from == Attribute("from")
             count == Attribute("count")
             per_day == Attribute("per_day")
  <1>1. StatesHorizon(export)
    BY ExportAssumption DEF IsExport
  <1>2. export.horizon # None /\ from # None /\ count # None /\ per_day # None /\ ~(per_day <= 0)
        /\ Horizon = [start |-> from, periods |-> count * per_day, interval |-> DayLength \div per_day]
    BY DEF Horizon
  <1>3. from \in Int /\ count \in Int /\ per_day \in Int
    BY <1>1, <1>2 DEF StatesHorizon, Attribute, IsNumber
  <1>4. per_day \in Nat \ {0} /\ DayLength \in Int
    BY <1>2, <1>3, TimeAssumption
  <1> HIDE DEF from, count, per_day
  <1>5. count * per_day \in Int /\ DayLength \div per_day \in Int
    BY <1>3, <1>4
  <1> QED
    BY <1>2, <1>3, <1>5

LEMMA WindowOfNumbers ==
  ASSUME export \in Exports, request \in Requests
  PROVE  IsWindow(WindowTranslated(Horizon))
  <1>1. YearLength \in Int /\ TimeMin \in Int /\ TimeMax \in Int
    BY TimeAssumption
  <1>2. CASE request.year # None
    <2>1. request.year \in Int
      BY <1>2, RequestAssumption DEF IsNumber
    <2> QED
      BY <1>1, <1>2, <2>1 DEF WindowTranslated, IsWindow
  <1>3. CASE request.year = None /\ Horizon = None
    BY <1>1, <1>3 DEF WindowTranslated, IsWindow
  <1>4. CASE request.year = None /\ Horizon # None
    BY <1>4, HorizonOfNumbers DEF WindowTranslated, IsWindow, HorizonEnd
  <1> QED
    BY <1>2, <1>3, <1>4

LEMMA ProfileYearOfNumbers ==
  ASSUME export \in Exports, request \in Requests
  PROVE  IsNumber(ProfileYear(Horizon))
  <1>1. YearLength \in Nat \ {0}
    BY TimeAssumption
  <1>2. Horizon # None => Horizon.start \div YearLength \in Int
    BY <1>1, HorizonOfNumbers
  <1>3. IsNumber(request.year)
    BY RequestAssumption
  <1> QED
    BY <1>2, <1>3 DEF ProfileYear, IsNumber

LEMMA SnapshotsOfAHorizon ==
  ASSUME NEW horizon, NEW window, horizon # None,
         horizon.start \in Int, horizon.periods \in Int, horizon.interval \in Int
  PROVE  /\ SnapshotIndex(horizon, window) \in SUBSET Int /\ IsFiniteSet(SnapshotIndex(horizon, window))
         /\ \A t \in SnapshotIndex(horizon, window) : IsWithin(t, window)
  <1> DEFINE K == 0 .. horizon.periods - 1
             at == [k \in K |-> horizon.start + horizon.interval * k]
             all == {horizon.start + horizon.interval * k : k \in K}
  <1>1. IsFiniteSet(K)
    BY FS_Interval
  <1>2. all = {at[k] : k \in K} /\ DOMAIN at = K
    OBVIOUS
  <1>3. all \in SUBSET Int
    OBVIOUS
  <1>4. IsFiniteSet(all)
    <2> HIDE DEF at, all, K
    <2> QED
      BY <1>1, <1>2, ImageIsFinite
  <1>5. SnapshotIndex(horizon, window) = {t \in all : IsWithin(t, window)}
    BY DEF SnapshotIndex
  <1> HIDE DEF all
  <1> QED
    BY <1>3, <1>4, <1>5, FS_Subset

LEMMA TimingNext ==
  ASSUME Resolution, Timing, [Next]_vars
  PROVE  Timing'
  <1>1. CASE SettleChronology
    <2>1. export \in Exports /\ request \in Requests
      BY DEF Resolution
    <2>2. /\ chronology'.window = WindowTranslated(Horizon)
          /\ chronology'.index = SnapshotIndex(Horizon, WindowTranslated(Horizon))
          /\ chronology'.profile_year = ProfileYear(Horizon)
      BY <1>1 DEF SettleChronology
    <2>3. chronology'.index # None => Horizon # None
      BY <2>2 DEF SnapshotIndex
    <2> QED
      BY <2>1, <2>2, <2>3, WindowOfNumbers, HorizonOfNumbers, SnapshotsOfAHorizon, ProfileYearOfNumbers
         DEF Timing, IsWithin, IsWindow, IsNumber
  <1>2. CASE ~SettleChronology
    <2>1. chronology' = chronology /\ (step = "chronology" => step' = "chronology")
      BY <1>2 DEF Next, vars, Staged, Goto, ResolveMemberships, NameFiles, ReadRow, ResolveProperties,
                  ApplyWindow, StageTopology, ReadDataFile, StageTimeSeries, StageStepped
    <2> QED
      BY <2>1 DEF Timing, IsWithin, IsWindow, IsNumber
  <1> QED
    BY <1>1, <1>2

(* ------------------------- the entries of a property -------------------- *)

Alike(i, j) ==
  /\ export.data[i].membership = export.data[j].membership
  /\ export.data[i].property = export.data[j].property /\ export.data[i].band = export.data[j].band

Group(i) == {j \in Live : Alike(i, j)}
EntriesOf(i) == {Entry(j) : j \in Group(i)}

LEMMA AlikeIsOneProperty ==
  ASSUME export \in Exports, memberships = Sound, NEW i \in Live, NEW j \in Live
  PROVE  IdentifyProperty(Entry(i).row) = IdentifyProperty(Entry(j).row) <=> Alike(i, j)
  <1>1. HasMembership(export.data[j].membership)
    BY MembershipOfALiveRow
  <1>2. States(Entry(i).row, j) <=> Alike(i, j)
    BY <1>1, StatesOneProperty DEF Alike
  <1>3. /\ Entry(j).row.class = MembershipOf(j).class /\ Entry(j).row.object = MembershipOf(j).object
        /\ Entry(j).row.collection = MembershipOf(j).collection
        /\ Entry(j).row.property = export.data[j].property /\ Entry(j).row.band = export.data[j].band
    BY RowOfAnEntry
  <1> QED
    BY <1>1, <1>2, <1>3 DEF States, IdentifyProperty, NameProperty

LEMMA GroupsOfEntries ==
  ASSUME Resolution, step \in AfterResolving
  PROVE  PropertyGroups = {EntriesOf(i) : i \in Live}
  <1>1. export \in Exports /\ memberships = Sound /\ resolved = {Entry(i) : i \in Live}
    BY DEF Resolution, AfterResolving
  <1>2. ASSUME NEW i \in Live
        PROVE  {d \in resolved : IdentifyProperty(d.row) = IdentifyProperty(Entry(i).row)} = EntriesOf(i)
    <2>1. \A j \in Live : IdentifyProperty(Entry(j).row) = IdentifyProperty(Entry(i).row) <=> j \in Group(i)
      BY <1>1, AlikeIsOneProperty DEF Group, Alike
    <2>2. \A d \in EntriesOf(i) : \E j \in Group(i) : d = Entry(j)
      BY DEF EntriesOf
    <2>3. Group(i) \subseteq Live
      BY DEF Group
    <2> QED
      BY <1>1, <2>1, <2>2, <2>3 DEF EntriesOf
  <1>3. PropertyGroups = {{d \in resolved : IdentifyProperty(d.row) = IdentifyProperty(Entry(i).row)} : i \in Live}
    BY <1>1 DEF PropertyGroups
  <1> QED
    BY <1>2, <1>3

LEMMA AGroup ==
  ASSUME export \in Exports, memberships = Sound, NEW i \in Live
  PROVE  /\ i \in Group(i) /\ Group(i) \subseteq Live /\ IsFiniteSet(Group(i))
         /\ EntriesOf(i) # {}
         /\ \A j \in Group(i) : Group(j) = Group(i)
  <1>1. Group(i) \subseteq Live /\ Live \subseteq DOMAIN export.data
    BY DEF Group, Live, Standing
  <1>2. IsFiniteSet(Group(i))
    BY <1>1, AnExport, FS_Subset
  <1>3. i \in Group(i) /\ \A j \in Group(i) : Group(j) = Group(i)
    BY DEF Group, Alike
  <1> QED
    BY <1>1, <1>2, <1>3 DEF EntriesOf

\* When an entry opens.
LEMMA Openings ==
  ASSUME export \in Exports, NEW i \in DOMAIN export.data
  PROVE  /\ OpensAt(export.data[i]) \in Int
         /\ \A j \in DOMAIN export.data :
              OpensAt(export.data[i]) = OpensAt(export.data[j]) => export.data[i].from = export.data[j].from
  <1>1. TimeMin \in Int
    BY TimeAssumption
  <1>2. \A j \in DOMAIN export.data :
          export.data[j].from # None => export.data[j].from \in Int /\ TimeMin < export.data[j].from
    BY AnExport DEF HasDates
  <1> QED
    BY <1>1, <1>2 DEF OpensAt

\* Of entries of one property one opens last, and one first.
LEMMA TheLatest ==
  ASSUME export \in Exports, memberships = Sound, NEW i \in Live, NEW S \in SUBSET Group(i), S # {}
  PROVE  \E k \in S :
           /\ \A j \in S : OpensAt(export.data[j]) <= OpensAt(export.data[k])
           /\ \A n \in S : (\A j \in S : OpensAt(export.data[j]) <= OpensAt(export.data[n])) => n = k
           /\ Latest({Entry(j) : j \in S}) = Entry(k)
  <1> DEFINE opening == [j \in S |-> OpensAt(export.data[j])]
  <1>1. S \subseteq DOMAIN export.data /\ IsFiniteSet(S) /\ S \subseteq Live
    BY AGroup, FS_Subset DEF Group, Live, Standing
  <1>2. opening \in [S -> Int] /\ \A j \in S : opening[j] = OpensAt(export.data[j])
    BY <1>1, Openings
  <1>3. PICK k \in S : \A j \in S : opening[j] <= opening[k]
    <2> HIDE DEF opening
    <2> QED
      BY <1>1, <1>2, Topmost
  <1>4. \A j \in S : OpensAt(export.data[j]) <= OpensAt(export.data[k])
    BY <1>3
  <1>5. ASSUME NEW n \in S, \A j \in S : OpensAt(export.data[j]) <= OpensAt(export.data[n])
        PROVE  n = k
    <2>1. OpensAt(export.data[n]) = OpensAt(export.data[k])
      BY <1>1, <1>4, <1>5, Openings
    <2>2. export.data[n].from = export.data[k].from
      BY <1>1, <2>1, Openings
    <2>3. KeyOf(n) = KeyOf(k)
      BY <2>2 DEF KeyOf, WinnerKey, Group, Alike
    <2> QED
      BY <1>1, <2>3, OneRowStands DEF Live
  <1>6. \A j \in S : OpensAt(Entry(j).dates) = OpensAt(export.data[j])
    BY DEF Entry, OpensAt
  <1>7. Latest({Entry(j) : j \in S}) = Entry(k)
    <2> DEFINE E == {Entry(j) : j \in S}
    <2>1. Entry(k) \in E /\ \A e \in E : OpensAt(e.dates) <= OpensAt(Entry(k).dates)
      BY <1>4, <1>6
    <2>2. ASSUME NEW d \in E, \A e \in E : OpensAt(e.dates) <= OpensAt(d.dates) PROVE d = Entry(k)
      <3>1. PICK n \in S : d = Entry(n)
        OBVIOUS
      <3>2. \A j \in S : OpensAt(export.data[j]) <= OpensAt(export.data[n])
        BY <1>6, <2>2, <3>1
      <3> QED
        BY <1>5, <3>1, <3>2
    <2>3. \E d \in E : \A e \in E : OpensAt(e.dates) <= OpensAt(d.dates)
      BY <2>1
    <2> HIDE DEF E
    <2>4. Latest(E) \in E /\ \A e \in E : OpensAt(e.dates) <= OpensAt(Latest(E).dates)
      BY <2>3 DEF Latest
    <2> QED
      BY <2>2, <2>4 DEF E
  <1> QED
    BY <1>4, <1>5, <1>7

LEMMA TheEarliest ==
  ASSUME export \in Exports, memberships = Sound, NEW i \in Live
  PROVE  \E k \in Group(i) : Entry(k) = Earliest(EntriesOf(i))
  <1> DEFINE S == Group(i)
             closing == [j \in S |-> -OpensAt(export.data[j])]
  <1>1. S \subseteq DOMAIN export.data /\ IsFiniteSet(S) /\ S # {}
    BY AGroup DEF Live, Standing
  <1>2. /\ closing \in [S -> Int] /\ \A j \in S : OpensAt(export.data[j]) \in Int
        /\ \A j \in S : closing[j] = -OpensAt(export.data[j])
    BY <1>1, Openings
  <1>3. PICK k \in S : \A j \in S : closing[j] <= closing[k]
    <2> HIDE DEF closing, S
    <2> QED
      BY <1>1, <1>2, Topmost
  <1>4. \A j \in S : OpensAt(export.data[k]) <= OpensAt(export.data[j])
    BY <1>2, <1>3
  <1>5. \A j \in S : OpensAt(Entry(j).dates) = OpensAt(export.data[j])
    BY DEF Entry, OpensAt
  <1>6. Entry(k) \in EntriesOf(i) /\ \A e \in EntriesOf(i) : OpensAt(Entry(k).dates) <= OpensAt(e.dates)
    BY <1>4, <1>5 DEF EntriesOf
  <1>7. Earliest(EntriesOf(i)) \in EntriesOf(i)
    BY <1>6 DEF Earliest
  <1> QED
    BY <1>7 DEF EntriesOf

\* The row a property's steps are made from.
First(i) == CHOOSE k \in Group(i) : Entry(k) = Earliest(EntriesOf(i))

\* The rows of a property that survive, and the one its file and its share are taken from.
SurvivorsOf(p) == {j \in DOMAIN export.data : Survives(j) /\ States(p, j)}
FirstSurvivor(p) ==
  CHOOSE i \in SurvivorsOf(p) : \A j \in SurvivorsOf(p) : OpensAt(export.data[i]) <= OpensAt(export.data[j])

\* The rows that state one property are those alike, and its first row opens first of them.
LEMMA FirstRowIsFirst ==
  ASSUME export \in Exports, memberships = Sound, NEW i \in Live, NEW p,
         IdentifyProperty(p) = IdentifyProperty(Entry(i).row)
  PROVE  First(i) \in Group(i) /\ SurvivorsOf(p) = Group(i) /\ FirstSurvivor(p) = First(i)
  <1> DEFINE k == First(i)
  <1>1. k \in Group(i) /\ Entry(k) = Earliest(EntriesOf(i))
    BY TheEarliest DEF First
  <1>2. ASSUME NEW j PROVE j \in SurvivorsOf(p) <=> j \in Group(i)
    <2>1. States(p, j) <=> States(Entry(i).row, j)
      BY DEF States, IdentifyProperty, NameProperty
    <2>2. HasMembership(export.data[j].membership) => (States(Entry(i).row, j) <=> Alike(i, j))
      BY StatesOneProperty DEF Alike
    <2>3. j \in Live => HasMembership(export.data[j].membership)
      BY MembershipOfALiveRow
    <2>4. States(p, j) => HasMembership(export.data[j].membership)
      BY DEF States
    <2>5. Alike(i, j) => DanglingReferences(export.data[j]) = DanglingReferences(export.data[i])
      BY DEF Alike, DanglingReferences
    <2>6. DanglingReferences(export.data[i]) = {}
      BY DEF Live
    <2> QED
      BY <2>1, <2>2, <2>3, <2>4, <2>5, <2>6 DEF SurvivorsOf, Group, Live, Standing
  <1>3. SurvivorsOf(p) = Group(i)
    BY <1>2
  <1>4. Group(i) \subseteq Live /\ Live \subseteq DOMAIN export.data /\ Live \subseteq Standing
    BY AGroup DEF Live, Standing
  <1>5. ASSUME NEW j \in Group(i) PROVE OpensAt(export.data[k]) <= OpensAt(export.data[j])
    <2> DEFINE E == EntriesOf(i)
    <2>1. PICK m \in Group(i) : \A n \in Group(i) : OpensAt(export.data[m]) <= OpensAt(export.data[n])
      <3> DEFINE closing == [n \in Group(i) |-> -OpensAt(export.data[n])]
      <3>1. /\ closing \in [Group(i) -> Int] /\ \A n \in Group(i) : OpensAt(export.data[n]) \in Int
            /\ \A n \in Group(i) : closing[n] = -OpensAt(export.data[n])
        BY <1>4, Openings
      <3>2. IsFiniteSet(Group(i)) /\ Group(i) # {}
        BY AGroup
      <3>3. PICK m \in Group(i) : \A n \in Group(i) : closing[n] <= closing[m]
        <4> HIDE DEF closing
        <4> QED
          BY <3>1, <3>2, Topmost
      <3>4. \A n \in Group(i) : OpensAt(export.data[m]) <= OpensAt(export.data[n])
        BY <3>1, <3>3
      <3> QED
        BY <3>4
    <2>2. \A n \in Group(i) : OpensAt(Entry(n).dates) = OpensAt(export.data[n])
      BY DEF Entry, OpensAt
    <2>3. \E d \in E : \A e \in E : OpensAt(d.dates) <= OpensAt(e.dates)
      BY <2>1, <2>2 DEF EntriesOf
    <2>4. \A e \in E : OpensAt(Earliest(E).dates) <= OpensAt(e.dates)
      <3> HIDE DEF E
      <3> QED
        BY <2>3 DEF Earliest
    <2>5. Entry(j) \in E
      BY DEF EntriesOf
    <2> QED
      BY <1>1, <2>2, <2>4, <2>5
  <1>6. ASSUME NEW n \in Group(i), \A j \in Group(i) : OpensAt(export.data[n]) <= OpensAt(export.data[j])
        PROVE  n = k
    <2>1. OpensAt(export.data[n]) = OpensAt(export.data[k])
      BY <1>1, <1>4, <1>5, <1>6, Openings
    <2>2. export.data[n].from = export.data[k].from
      BY <1>1, <1>4, <2>1, Openings
    <2>3. KeyOf(n) = KeyOf(k)
      BY <1>1, <2>2 DEF KeyOf, WinnerKey, Group, Alike
    <2> QED
      BY <1>1, <1>4, <2>3, OneRowStands
  <1> HIDE DEF k
  <1>7. FirstSurvivor(p) = k
    BY <1>1, <1>3, <1>5, <1>6 DEF FirstSurvivor
  <1> QED
    BY <1>1, <1>3, <1>7 DEF k

LEMMA AStep ==
  ASSUME export \in Exports, memberships = Sound, NEW i \in Live, NEW t
  PROVE  /\ StepAt(EntriesOf(i), t).at = t
         /\ StepAt(EntriesOf(i), t).row.value = ReadValueAt(EntriesOf(i), t)
         /\ StepAt(EntriesOf(i), t).row.data_file = Entry(First(i)).row.data_file
         /\ StepAt(EntriesOf(i), t).row.scaling = Entry(First(i)).row.scaling
         /\ StepAt(EntriesOf(i), t).row.object = Entry(i).row.object
         /\ IdentifyProperty(StepAt(EntriesOf(i), t).row) = IdentifyProperty(Entry(i).row)
         /\ SeriesKey(StepAt(EntriesOf(i), t).row) = SeriesKey(Entry(i).row)
  <1> DEFINE k == First(i)
             v == ReadValueAt(EntriesOf(i), t)
             new == [Entry(k).row EXCEPT !.value = v]
  <1>1. k \in Group(i) /\ Entry(k) = Earliest(EntriesOf(i))
    BY TheEarliest DEF First
  <1>2. k \in Live /\ Alike(i, k)
    BY <1>1 DEF Group
  <1>3. StepAt(EntriesOf(i), t) = [at |-> t, row |-> new]
    BY <1>1 DEF StepAt
  <1>4. DOMAIN Entry(k).row = {"class", "object", "collection", "property", "band", "value", "unit", "data_file", "scaling"}
    BY DEF Entry, PropertyRow
  <1>5. /\ new.value = v /\ new.class = Entry(k).row.class /\ new.object = Entry(k).row.object
        /\ new.collection = Entry(k).row.collection /\ new.property = Entry(k).row.property
        /\ new.band = Entry(k).row.band /\ new.data_file = Entry(k).row.data_file
        /\ new.scaling = Entry(k).row.scaling
    <2> HIDE DEF v, k
    <2> QED
      BY <1>4
  <1>6. IdentifyProperty(Entry(i).row) = IdentifyProperty(Entry(k).row)
    BY <1>2, AlikeIsOneProperty
  <1>7. /\ Entry(i).row.class = Entry(k).row.class /\ Entry(i).row.object = Entry(k).row.object
        /\ Entry(i).row.property = Entry(k).row.property
    BY <1>6 DEF IdentifyProperty, NameProperty
  <1> HIDE DEF new, k, v
  <1>8. StepAt(EntriesOf(i), t).at = t /\ StepAt(EntriesOf(i), t).row = new
    BY <1>3
  <1>9. IdentifyProperty(new) = IdentifyProperty(Entry(i).row) /\ SeriesKey(new) = SeriesKey(Entry(i).row)
    BY <1>5, <1>6, <1>7 DEF IdentifyProperty, NameProperty, SeriesKey
  <1> QED
    BY <1>5, <1>7, <1>8, <1>9 DEF k, v

LEMMA CoveringEntries ==
  ASSUME export \in Exports, NEW i \in DOMAIN export.data, NEW t \in Int
  PROVE  AppliesAt(export.data[i], t) <=> Covers(Entry(i).dates, t)
  <1> DEFINE data == export.data[i]
  <1>1. Entry(i).dates.from = data.from /\ Entry(i).dates.to = data.to
    BY DEF Entry
  <1>2. /\ data.from # None => data.from \in Int
        /\ data.to # None => data.to \in Int /\ data.to % DayLength = 0
    BY AnExport DEF HasDates
  <1>3. data.to # None => (t \div DayLength <= data.to \div DayLength <=> t < data.to + DayLength)
    BY <1>2, WholeDays
  <1>4. data.to # None => data.to + DayLength # None
    BY <1>2, TimeAssumption
  <1> QED
    BY <1>1, <1>2, <1>3, <1>4 DEF AppliesAt, Covers, Ends

\* The rule of the code: of the rows that survive and cover the moment, the one that opens last.
ReadByOpening(p, t) ==
  LET covering == {i \in DOMAIN export.data : Survives(i) /\ States(p, i) /\ AppliesAt(export.data[i], t)}
      last == CHOOSE i \in covering : \A j \in covering : OpensAt(export.data[j]) <= OpensAt(export.data[i])
  IN  IF covering = {} THEN 0 ELSE Convert(export.data[last], MembershipOf(last))

ReadingsAsOpened ==
  \A p \in properties : \A t \in chronology.window.start .. chronology.window.end - 1 :
    Reading(p, t) = ReadByOpening(p, t)

SnapshotsAsOpened ==
  chronology.index # None =>
    \A p \in properties : HasSteps(p) /\ p.data_file = None /\ SeriesKey(p) \notin DOMAIN parts =>
      {<<r.at, r.value>> : r \in RowsFor(p)} = {<<t, ReadByOpening(p, t)>> : t \in chronology.index}

\* A property reads at a moment as the row of it that opened last states.
LEMMA ReadAsStated ==
  ASSUME export \in Exports, memberships = Sound, NEW i \in Live, NEW t \in Int,
         NEW p, IdentifyProperty(p) = IdentifyProperty(Entry(i).row)
  PROVE  ReadByOpening(p, t) = ReadValueAt(EntriesOf(i), t)
  <1> DEFINE C == {j \in DOMAIN export.data : Survives(j) /\ States(p, j) /\ AppliesAt(export.data[j], t)}
             inForce == {j \in Group(i) : Covers(Entry(j).dates, t)}
             covering == {d \in EntriesOf(i) : Covers(d.dates, t)}
  <1>1. \A j : States(p, j) <=> States(Entry(i).row, j)
    BY DEF States, IdentifyProperty, NameProperty
  <1>2. ASSUME NEW j \in Standing PROVE States(p, j) <=> j \in Group(i)
    <2>1. CASE States(p, j)
      <3>1. HasMembership(export.data[j].membership) /\ States(Entry(i).row, j)
        BY <1>1, <2>1 DEF States
      <3>2. Alike(i, j)
        BY <3>1, StatesOneProperty DEF Alike
      <3>3. DanglingReferences(export.data[j]) = {}
        BY <3>2 DEF Live, DanglingReferences, Alike
      <3> QED
        BY <2>1, <3>2, <3>3 DEF Group, Live
    <2>2. CASE j \in Group(i)
      <3>1. j \in Live /\ Alike(i, j)
        BY <2>2 DEF Group
      <3>2. HasMembership(export.data[j].membership)
        BY <3>1, MembershipOfALiveRow
      <3>3. States(Entry(i).row, j)
        BY <3>1, <3>2, StatesOneProperty DEF Alike
      <3> QED
        BY <1>1, <2>2, <3>3
    <2> QED
      BY <2>1, <2>2
  <1>3. Group(i) \subseteq Standing /\ Standing \subseteq DOMAIN export.data
    BY DEF Group, Live, Standing
  <1>4. C = inForce
    <2>1. ASSUME NEW j \in DOMAIN export.data PROVE j \in C <=> j \in inForce
      <3>1. Survives(j) <=> j \in Standing
        BY DEF Standing
      <3> QED
        BY <1>2, <1>3, <3>1, CoveringEntries
    <2> QED
      BY <1>3, <2>1
  <1>5. covering = {Entry(j) : j \in inForce}
    BY DEF EntriesOf
  <1>6. CASE inForce = {}
    BY <1>4, <1>5, <1>6 DEF ReadByOpening, ReadValueAt
  <1>7. CASE inForce # {}
    <2>1. PICK k \in inForce :
            /\ \A j \in inForce : OpensAt(export.data[j]) <= OpensAt(export.data[k])
            /\ \A n \in inForce : (\A j \in inForce : OpensAt(export.data[j]) <= OpensAt(export.data[n])) => n = k
            /\ Latest({Entry(j) : j \in inForce}) = Entry(k)
      <3>1. inForce \in SUBSET Group(i)
        OBVIOUS
      <3> HIDE DEF inForce
      <3> QED
        BY <1>7, <3>1, TheLatest
    <2>2. ReadValueAt(EntriesOf(i), t) = Entry(k).row.value
      BY <1>5, <1>7, <2>1 DEF ReadValueAt
    <2>3. (CHOOSE n \in C : \A j \in C : OpensAt(export.data[j]) <= OpensAt(export.data[n])) = k
      <3> HIDE DEF C, inForce
      <3> QED
        BY <1>4, <2>1
    <2>4. ReadByOpening(p, t) = Convert(export.data[k], MembershipOf(k))
      BY <1>4, <1>7, <2>3 DEF ReadByOpening
    <2>5. k \in Live
      BY DEF Group
    <2> QED
      BY <2>2, <2>4, <2>5, RowOfAnEntry
  <1> QED
    BY <1>6, <1>7

\* Where no two rows contend, those of a property that stand are those that survive.
LEMMA RowsOfAnUncontestedProperty ==
  ASSUME NEW p, ~HasContest(p)
  PROVE  RowsOf(p) = SurvivorsOf(p)
  <1>1. ASSUME NEW i \in DOMAIN export.data, States(p, i) PROVE Stands(i) <=> Survives(i)
    <2>1. CASE Stands(i)
      <3>1. ~IsContested(i)
        BY <1>1, <2>1 DEF HasContest, Stands
      <3> QED
        BY <2>1, <3>1, UncontestedSurvive
    <2> QED
      BY <2>1, SurvivorsStand
  <1> QED
    BY <1>1 DEF RowsOf, SurvivorsOf

\* There the entry in force is the one that opens last: a base value opens before any entry
\* with a time scope, and of those with no date_from there is one.
LEMMA InForceOpensLast ==
  ASSUME export \in Exports, memberships = Sound, NEW i \in Live, NEW t \in Int,
         NEW p, IdentifyProperty(p) = IdentifyProperty(Entry(i).row), ~HasContest(p), CoveringRows(p, t) # {}
  PROVE  /\ InForce(p, t) \in CoveringRows(p, t)
         /\ \A j \in CoveringRows(p, t) : OpensAt(export.data[j]) <= OpensAt(export.data[InForce(p, t)])
         /\ \A n \in CoveringRows(p, t) :
              (\A j \in CoveringRows(p, t) : OpensAt(export.data[j]) <= OpensAt(export.data[n])) => n = InForce(p, t)
  <1> DEFINE C == CoveringRows(p, t)
             scoped == {j \in C : IsDated(export.data[j])}
  <1>1. C \subseteq Group(i) /\ Group(i) \subseteq Live /\ Live \subseteq Standing /\ Standing \subseteq DOMAIN export.data
    BY RowsOfAnUncontestedProperty, FirstRowIsFirst DEF CoveringRows, Group, Live, Standing
  <1>2. PICK k \in C :
          /\ \A j \in C : OpensAt(export.data[j]) <= OpensAt(export.data[k])
          /\ \A n \in C : (\A j \in C : OpensAt(export.data[j]) <= OpensAt(export.data[n])) => n = k
    <2>1. C \in SUBSET Group(i) /\ C # {}
      BY <1>1
    <2> HIDE DEF C
    <2> QED
      BY <2>1, TheLatest
  <1> HIDE DEF C
  <1>3. ASSUME NEW m \in C, NEW n \in C, export.data[m].from = export.data[n].from PROVE m = n
    <2>1. KeyOf(m) = KeyOf(n)
      BY <1>1, <1>3 DEF KeyOf, WinnerKey, Group, Alike
    <2> QED
      BY <1>1, <2>1, OneRowStands
  <1>4. CASE scoped = {}
    <2>1. \A n \in C : export.data[n].from = None
      BY <1>4 DEF IsDated
    <2>2. C = {k}
      BY <1>2, <1>3, <2>1
    <2>3. InForce(p, t) = CHOOSE n \in C : TRUE
      BY <1>4 DEF InForce, C
    <2>4. InForce(p, t) = k
      BY <2>2, <2>3
    <2> QED
      BY <1>2, <2>4 DEF C
  <1>5. CASE scoped # {}
    <2>1. k \in scoped
      <3>1. PICK s \in scoped : TRUE
        BY <1>5
      <3>2. s \in DOMAIN export.data /\ k \in DOMAIN export.data /\ s \in C
        BY <1>1, <1>2, <3>1
      <3>3. /\ export.data[s].from # None => export.data[s].from \in Int /\ TimeMin < export.data[s].from
            /\ TimeMin \in Int
        BY <3>2, AnExport, TimeAssumption DEF HasDates
      <3>4. OpensAt(export.data[s]) <= OpensAt(export.data[k])
        BY <1>2, <3>2
      <3>5. CASE export.data[k].from = None
        <4>1. export.data[s].from = None
          BY <3>3, <3>4, <3>5 DEF OpensAt
        <4>2. s = k
          BY <1>2, <1>3, <3>2, <3>5, <4>1
        <4> QED
          BY <3>1, <4>2
      <3>6. CASE export.data[k].from # None
        BY <1>2, <3>6 DEF IsDated
      <3> QED
        BY <3>5, <3>6
    <2>2. ASSUME NEW n \in scoped, \A j \in scoped : OpensAt(export.data[j]) <= OpensAt(export.data[n]) PROVE n = k
      <3>1. OpensAt(export.data[k]) <= OpensAt(export.data[n]) /\ n \in C
        BY <2>1, <2>2
      <3>2. OpensAt(export.data[n]) \in Int /\ \A j \in C : OpensAt(export.data[j]) \in Int
        BY <1>1, <3>1, Openings
      <3>3. \A j \in C : OpensAt(export.data[j]) <= OpensAt(export.data[n])
        BY <1>2, <3>1, <3>2
      <3> QED
        BY <1>2, <3>1, <3>3
    <2>3. InForce(p, t) = CHOOSE n \in scoped : \A j \in scoped : OpensAt(export.data[j]) <= OpensAt(export.data[n])
      BY <1>5 DEF InForce, C
    <2>4. \A j \in scoped : OpensAt(export.data[j]) <= OpensAt(export.data[k])
      BY <1>2
    <2> HIDE DEF scoped
    <2>5. InForce(p, t) = k
      BY <2>1, <2>2, <2>3, <2>4
    <2> QED
      BY <1>2, <2>5 DEF C
  <1> QED
    BY <1>4, <1>5

LEMMA StatedAsOpened ==
  ASSUME export \in Exports, memberships = Sound, NEW i \in Live, NEW t \in Int,
         NEW p, IdentifyProperty(p) = IdentifyProperty(Entry(i).row), ~HasContest(p)
  PROVE  Stated(p, t) = ReadByOpening(p, t)
  <1> DEFINE C == CoveringRows(p, t)
             D == {j \in DOMAIN export.data : Survives(j) /\ States(p, j) /\ AppliesAt(export.data[j], t)}
  <1>1. D = C
    BY RowsOfAnUncontestedProperty DEF CoveringRows, SurvivorsOf
  <1>2. CASE C = {}
    BY <1>1, <1>2 DEF Stated, ReadByOpening
  <1>3. CASE C # {}
    <2> DEFINE last == CHOOSE n \in D : \A j \in D : OpensAt(export.data[j]) <= OpensAt(export.data[n])
    <2>1. last = InForce(p, t)
      <3>1. /\ InForce(p, t) \in C
            /\ \A j \in C : OpensAt(export.data[j]) <= OpensAt(export.data[InForce(p, t)])
            /\ \A n \in C : (\A j \in C : OpensAt(export.data[j]) <= OpensAt(export.data[n])) => n = InForce(p, t)
        BY <1>3, InForceOpensLast
      <3> HIDE DEF C, D
      <3> QED
        BY <1>1, <3>1
    <2>2. ReadByOpening(p, t) = Convert(export.data[last], MembershipOf(last))
      BY <1>1, <1>3 DEF ReadByOpening
    <2> QED
      BY <1>3, <2>1, <2>2 DEF Stated
  <1> QED
    BY <1>2, <1>3

(* ------------------------- what a property reads as --------------------- *)

Moments(i) == ChangeMoments(EntriesOf(i), chronology.window)

LEMMA EdgesAreMoments ==
  ASSUME export \in Exports, memberships = Sound, NEW i \in Live
  PROVE  BandEdges(EntriesOf(i)) \in SUBSET Int /\ IsFiniteSet(BandEdges(EntriesOf(i)))
  <1> DEFINE G == Group(i)
             edges == [j \in G |-> {export.data[j].from, Ends(export.data[j])}]
             all == {edges[j] : j \in G}
  <1>1. IsFiniteSet(G) /\ G \subseteq DOMAIN export.data
    BY AGroup DEF Live, Standing
  <1>2. \A j \in G : HasDates(export.data[j])
    BY <1>1, AnExport
  <1>3. \A j \in G : Entry(j).dates.from = export.data[j].from /\ Ends(Entry(j).dates) = Ends(export.data[j])
    BY DEF Entry, Ends
  <1>4. BandEdges(EntriesOf(i)) = (UNION all) \ {None}
    BY <1>3 DEF BandEdges, EntriesOf
  <1>5. ASSUME NEW x \in UNION all, x # None PROVE x \in Int
    <2>1. PICK j \in G : x = export.data[j].from \/ x = Ends(export.data[j])
      OBVIOUS
    <2> QED
      BY <1>2, <1>5, <2>1, TimeAssumption DEF HasDates, Ends
  <1>6. IsFiniteSet(all)
    <2>1. DOMAIN edges = G
      OBVIOUS
    <2> HIDE DEF G, edges
    <2> QED
      BY <1>1, <2>1, ImageIsFinite
  <1>7. \A T \in all : IsFiniteSet(T)
    <2>1. ASSUME NEW a, NEW b PROVE IsFiniteSet({a, b})
      <3>1. IsFiniteSet({a} \cup {b})
        BY FS_Singleton, FS_AddElement
      <3>2. {a} \cup {b} = {a, b}
        OBVIOUS
      <3> QED
        BY <3>1, <3>2
    <2> QED
      BY <2>1
  <1> HIDE DEF all
  <1>8. IsFiniteSet(UNION all)
    BY <1>6, <1>7, FS_UNION
  <1> QED
    BY <1>4, <1>5, <1>8, FS_Subset

LEMMA MomentsOfAProperty ==
  ASSUME export \in Exports, memberships = Sound, NEW i \in Live, IsWindow(chronology.window)
  PROVE  /\ Moments(i) \in SUBSET Int /\ IsFiniteSet(Moments(i))
         /\ chronology.window.start \in Moments(i)
         /\ \A m \in Moments(i) : chronology.window.start <= m
         /\ Cardinality(Moments(i)) > 1 <=> Moments(i) # {chronology.window.start}
  <1> DEFINE ws == chronology.window.start
             inside == {t \in BandEdges(EntriesOf(i)) : ws < t /\ t < chronology.window.end}
  <1>1. Moments(i) = {ws} \cup inside
    BY DEF Moments, ChangeMoments
  <1>2. inside \in SUBSET Int /\ IsFiniteSet(inside) /\ ws \in Int
    BY EdgesAreMoments, FS_Subset DEF IsWindow
  <1>3. IsFiniteSet(Moments(i))
    <2>1. IsFiniteSet(inside \cup {ws})
      BY <1>2, FS_AddElement
    <2> QED
      BY <1>1, <2>1
  <1>4. Cardinality(Moments(i)) \in Nat /\ Cardinality(Moments(i)) # 0
    BY <1>1, <1>3, FS_CardinalityType, FS_EmptySet
  <1>5. Cardinality(Moments(i)) = 1 <=> Moments(i) = {ws}
    <2>1. ASSUME Cardinality(Moments(i)) = 1 PROVE Moments(i) = {ws}
      <3>1. PICK x : Moments(i) = {x}
        BY <1>3, <2>1, FS_Singleton
      <3> QED
        BY <1>1, <3>1
    <2> QED
      BY <2>1, FS_Singleton
  <1> QED
    BY <1>1, <1>2, <1>3, <1>4, <1>5

\* Between two moments no entry opens or ends, so the property reads the same.
LEMMA NothingChangesBetween ==
  ASSUME export \in Exports, memberships = Sound, NEW i \in Live, IsWindow(chronology.window),
         NEW m \in Int, NEW t \in Int, chronology.window.start <= m, m <= t, t < chronology.window.end,
         \A n \in Moments(i) : n <= t => n <= m
  PROVE  ReadValueAt(EntriesOf(i), m) = ReadValueAt(EntriesOf(i), t)
  <1> DEFINE ws == chronology.window.start
             we == chronology.window.end
  <1>1. \A x \in BandEdges(EntriesOf(i)) : ws < x /\ x < we /\ x <= t => x <= m
    BY DEF Moments, ChangeMoments
  <1>2. \A x \in BandEdges(EntriesOf(i)) : x \in Int
    BY EdgesAreMoments
  <1>3. ws \in Int /\ we \in Int
    BY DEF IsWindow
  <1>4. \A x \in BandEdges(EntriesOf(i)) : x <= t <=> x <= m
    <2> HIDE DEF ws, we
    <2>1. ws <= m /\ t < we
      BY DEF ws, we
    <2> QED
      BY <1>1, <1>2, <1>3, <2>1
  <1>5. \A d \in EntriesOf(i) :
          /\ d.dates.from # None => d.dates.from \in BandEdges(EntriesOf(i))
          /\ Ends(d.dates) # None => Ends(d.dates) \in BandEdges(EntriesOf(i))
    BY DEF BandEdges
  <1>6. \A d \in EntriesOf(i) : Covers(d.dates, m) <=> Covers(d.dates, t)
    BY <1>2, <1>4, <1>5 DEF Covers
  <1>7. {d \in EntriesOf(i) : Covers(d.dates, m)} = {d \in EntriesOf(i) : Covers(d.dates, t)}
    BY <1>6
  <1> QED
    BY <1>7 DEF ReadValueAt

Changing == {i \in Live : Cardinality(Moments(i)) > 1}

\* What the window leaves, once it is applied.
Windowed ==
  step \in AfterResolving \ {"window"} =>
    /\ properties = {StepAt(EntriesOf(i), chronology.window.start).row : i \in Live}
    /\ stepped = UNION {{StepAt(EntriesOf(i), m) : m \in Moments(i)} : i \in Changing}

LEMMA StepsOfAProperty ==
  ASSUME export \in Exports, memberships = Sound, NEW i \in Live,
         stepped = UNION {{StepAt(EntriesOf(j), m) : m \in Moments(j)} : j \in Changing}
  PROVE  {s \in stepped : IdentifyProperty(s.row) = IdentifyProperty(Entry(i).row)}
           = IF i \in Changing THEN {StepAt(EntriesOf(i), m) : m \in Moments(i)} ELSE {}
  <1> DEFINE own == {s \in stepped : IdentifyProperty(s.row) = IdentifyProperty(Entry(i).row)}
  <1>1. ASSUME NEW j \in Changing, IdentifyProperty(Entry(j).row) = IdentifyProperty(Entry(i).row)
        PROVE  EntriesOf(j) = EntriesOf(i) /\ Moments(j) = Moments(i) /\ i \in Changing
    <2>1. j \in Live /\ Alike(i, j)
      BY <1>1, AlikeIsOneProperty DEF Changing, Alike
    <2>2. Group(j) = Group(i)
      BY <2>1, AGroup DEF Group
    <2>3. EntriesOf(j) = EntriesOf(i)
      BY <2>2 DEF EntriesOf
    <2> QED
      BY <2>3 DEF Moments, Changing
  <1>2. ASSUME NEW s \in own
        PROVE  i \in Changing /\ \E m \in Moments(i) : s = StepAt(EntriesOf(i), m)
    <2>1. PICK j \in Changing : \E m \in Moments(j) : s = StepAt(EntriesOf(j), m)
      OBVIOUS
    <2>2. PICK m \in Moments(j) : s = StepAt(EntriesOf(j), m)
      BY <2>1
    <2>3. IdentifyProperty(s.row) = IdentifyProperty(Entry(j).row)
      BY <2>2, AStep DEF Changing
    <2> QED
      BY <1>1, <2>2, <2>3
  <1>3. ASSUME i \in Changing, NEW m \in Moments(i) PROVE StepAt(EntriesOf(i), m) \in own
    <2>1. StepAt(EntriesOf(i), m) \in stepped
      BY <1>3
    <2> QED
      BY <2>1, AStep
  <1> HIDE DEF own
  <1>4. own = IF i \in Changing THEN {StepAt(EntriesOf(i), m) : m \in Moments(i)} ELSE {}
    BY <1>2, <1>3
  <1> QED
    BY <1>4 DEF own

LEMMA TheLastMoment ==
  ASSUME export \in Exports, memberships = Sound, NEW i \in Live, IsWindow(chronology.window),
         NEW t \in Int, chronology.window.start <= t
  PROVE  \E m \in Moments(i) : m <= t /\ \A n \in Moments(i) : n <= t => n <= m
  <1> DEFINE reached == {n \in Moments(i) : n <= t}
  <1>1. reached \in SUBSET Int /\ IsFiniteSet(reached) /\ reached # {}
    BY MomentsOfAProperty, FS_Subset
  <1>2. Max(reached) \in reached /\ \A n \in reached : n <= Max(reached)
    <2> HIDE DEF reached
    <2> QED
      BY <1>1, MaxOfNumbers
  <1> QED
    BY <1>2

\* At every moment of the window a property reads as its entry in force then.
LEMMA ReadingOfAProperty ==
  ASSUME export \in Exports, memberships = Sound, IsWindow(chronology.window), NEW i \in Live, NEW t \in Int,
         chronology.window.start <= t, t < chronology.window.end,
         stepped = UNION {{StepAt(EntriesOf(j), m) : m \in Moments(j)} : j \in Changing},
         NEW p, p = StepAt(EntriesOf(i), chronology.window.start).row
  PROVE  Reading(p, t) = ReadValueAt(EntriesOf(i), t)
  <1> DEFINE steps == {s \in stepped : IdentifyProperty(s.row) = IdentifyProperty(p)}
             before == {s \in steps : s.at <= t}
  <1>1. IdentifyProperty(p) = IdentifyProperty(Entry(i).row) /\ p.value = ReadValueAt(EntriesOf(i), chronology.window.start)
    BY AStep
  <1>2. steps = IF i \in Changing THEN {StepAt(EntriesOf(i), m) : m \in Moments(i)} ELSE {}
    BY <1>1, StepsOfAProperty
  <1>3. PICK last \in Moments(i) : last <= t /\ \A n \in Moments(i) : n <= t => n <= last
    BY TheLastMoment
  <1>4. /\ Moments(i) \in SUBSET Int /\ chronology.window.start \in Moments(i)
        /\ chronology.window.start <= last
        /\ i \in Changing <=> Moments(i) # {chronology.window.start}
    BY <1>3, MomentsOfAProperty DEF Changing
  <1>5. ReadValueAt(EntriesOf(i), last) = ReadValueAt(EntriesOf(i), t)
    BY <1>3, <1>4, NothingChangesBetween
  <1>6. CASE i \notin Changing
    <2>1. last = chronology.window.start
      BY <1>3, <1>4, <1>6
    <2> QED
      BY <1>1, <1>2, <1>5, <1>6, <2>1 DEF Reading
  <1>7. CASE i \in Changing
    <2>1. \A m : StepAt(EntriesOf(i), m).at = m /\ StepAt(EntriesOf(i), m).row.value = ReadValueAt(EntriesOf(i), m)
      BY AStep
    <2>2. before = {StepAt(EntriesOf(i), m) : m \in {n \in Moments(i) : n <= t}}
      BY <1>2, <1>7, <2>1
    <2>3. StepAt(EntriesOf(i), last) \in before /\ \A s \in before : s.at <= StepAt(EntriesOf(i), last).at
      BY <1>3, <2>1, <2>2
    <2>4. ASSUME NEW s \in before, \A q \in before : q.at <= s.at PROVE s = StepAt(EntriesOf(i), last)
      <3>1. PICK m \in Moments(i) : m <= t /\ s = StepAt(EntriesOf(i), m)
        BY <2>2
      <3>2. last <= m /\ m <= last
        BY <1>3, <2>1, <2>3, <2>4, <3>1
      <3>3. m = last
        BY <1>4, <3>2
      <3> QED
        BY <3>1, <3>3
    <2>5. LastOf(before) = StepAt(EntriesOf(i), last)
      <3> HIDE DEF before
      <3>1. LastOf(before) \in before /\ \A q \in before : q.at <= LastOf(before).at
        BY <2>3 DEF LastOf
      <3> QED
        BY <2>4, <3>1
    <2>6. steps # {}
      BY <2>3
    <2>7. Reading(p, t) = LastOf(before).row.value
      BY <2>6 DEF Reading
    <2> QED
      BY <1>5, <2>1, <2>5, <2>7
  <1> QED
    BY <1>6, <1>7

LEMMA ReadingsAreStated ==
  ASSUME Resolution, Timing, Windowed, step \in AfterResolving \ {"window"}
  PROVE  ReadingsAsOpened
  <1>1. export \in Exports /\ memberships = Sound /\ IsWindow(chronology.window)
    BY DEF Resolution, Timing, AfterResolving
  <1>2. /\ properties = {StepAt(EntriesOf(i), chronology.window.start).row : i \in Live}
        /\ stepped = UNION {{StepAt(EntriesOf(j), m) : m \in Moments(j)} : j \in Changing}
    BY DEF Windowed
  <1>3. ASSUME NEW p \in properties, NEW t \in chronology.window.start .. chronology.window.end - 1
        PROVE  Reading(p, t) = ReadByOpening(p, t)
    <2>1. PICK i \in Live : p = StepAt(EntriesOf(i), chronology.window.start).row
      BY <1>2
    <2>2. t \in Int /\ chronology.window.start <= t /\ t < chronology.window.end
      BY <1>1 DEF IsWindow
    <2>3. Reading(p, t) = ReadValueAt(EntriesOf(i), t)
      BY <1>1, <1>2, <2>1, <2>2, ReadingOfAProperty
    <2>4. IdentifyProperty(p) = IdentifyProperty(Entry(i).row)
      BY <1>1, <2>1, AStep
    <2> QED
      BY <1>1, <2>2, <2>3, <2>4, ReadAsStated
  <1> QED
    BY <1>3 DEF ReadingsAsOpened

(* --------------------- the series of a property that changes ------------- *)

LEMMA AChangingPropertyIsDated ==
  ASSUME export \in Exports, memberships = Sound, IsWindow(chronology.window), NEW i \in Changing
  PROVE  i \in Live /\ \E j \in Group(i) : IsDated(export.data[j])
  <1>1. i \in Live /\ Moments(i) # {chronology.window.start}
    BY MomentsOfAProperty DEF Changing
  <1>2. PICK x \in BandEdges(EntriesOf(i)) : TRUE
    BY <1>1 DEF Moments, ChangeMoments
  <1>3. PICK d \in EntriesOf(i) : x \in {d.dates.from, Ends(d.dates)} /\ x # None
    BY DEF BandEdges
  <1>4. PICK j \in Group(i) : d = Entry(j)
    BY DEF EntriesOf
  <1>5. d.dates.from = export.data[j].from /\ d.dates.to = export.data[j].to
    BY <1>4 DEF Entry
  <1> QED
    BY <1>1, <1>3, <1>5 DEF IsDated, Ends

\* Each entry of a property that changes states a number, so it reads as one at every moment.
LEMMA AChangingPropertyReadsANumber ==
  ASSUME export \in Exports, memberships = Sound, IsWindow(chronology.window), NEW i \in Changing, NEW t
  PROVE  ReadValueAt(EntriesOf(i), t) # None
  <1> DEFINE inForce == {j \in Group(i) : Covers(Entry(j).dates, t)}
             covering == {d \in EntriesOf(i) : Covers(d.dates, t)}
  <1>1. i \in Live /\ Group(i) \subseteq Live /\ Live \subseteq DOMAIN export.data
    BY AGroup DEF Changing, Live, Standing
  <1>2. PICK a \in Group(i) : IsDated(export.data[a])
    BY AChangingPropertyIsDated
  <1>3. None \notin Int /\ 0 \in Int
    BY TimeAssumption
  <1>4. ASSUME NEW k \in Group(i) PROVE Entry(k).row.value # None
    <2>1. <<export.data[a].membership, export.data[a].property, export.data[a].band>>
            = <<export.data[k].membership, export.data[k].property, export.data[k].band>>
      BY DEF Group, Alike
    <2>2. export.data[k].value \in Int
      <3>1. DatedEntriesStateNumbers(export) /\ IsNumber(export.data[k].value)
        BY <1>1, ExportAssumption DEF IsExport
      <3>2. export.data[k].value # None
        BY <1>1, <1>2, <2>1, <3>1 DEF DatedEntriesStateNumbers
      <3> QED
        BY <3>1, <3>2 DEF IsNumber
    <2>3. Convert(export.data[k], MembershipOf(k)) \in Int
      <3>1. \A stated \in DOMAIN CanonicalUnit : \A unit \in DOMAIN CanonicalUnit[stated] :
              export.data[k].value * CanonicalUnit[stated][unit] \in Int
        BY <2>2, UnitAssumption
      <3> QED
        BY <2>2, <3>1 DEF Convert
    <2> QED
      BY <1>1, <1>3, <2>3, RowOfAnEntry
  <1>5. covering = {Entry(j) : j \in inForce}
    BY DEF EntriesOf
  <1>6. CASE inForce = {}
    BY <1>3, <1>5, <1>6 DEF ReadValueAt
  <1>7. CASE inForce # {}
    <2>1. PICK k \in inForce : Latest({Entry(j) : j \in inForce}) = Entry(k)
      <3>1. inForce \in SUBSET Group(i)
        OBVIOUS
      <3> HIDE DEF inForce
      <3> QED
        BY <1>1, <1>7, <3>1, TheLatest
    <2> QED
      BY <1>4, <1>5, <1>7, <2>1 DEF ReadValueAt
  <1> QED
    BY <1>6, <1>7

\* Two properties of one object under one class and property, each with an entry that may have
\* a series, are one.
LEMMA OneSeries ==
  ASSUME export \in Exports, memberships = Sound, NEW i \in Live, NEW j \in Live,
         NEW a \in Group(i), MayHaveASeries(export.data[a]), NEW b \in Group(j), MayHaveASeries(export.data[b]),
         SeriesKey(Entry(i).row) = SeriesKey(Entry(j).row), Entry(i).row.object = Entry(j).row.object
  PROVE  Group(i) = Group(j) /\ EntriesOf(i) = EntriesOf(j)
  <1>1. Group(i) \subseteq Live /\ Group(j) \subseteq Live /\ Live \subseteq DOMAIN export.data
    BY AGroup DEF Live, Standing
  <1>2. a \in Live /\ b \in Live /\ Alike(i, a) /\ Alike(j, b)
    BY DEF Group
  <1>3. /\ MembershipOf(a) \in export.memberships /\ MembershipOf(a).id = export.data[a].membership
        /\ MembershipOf(b) \in export.memberships /\ MembershipOf(b).id = export.data[b].membership
    BY <1>2, MembershipOfALiveRow DEF Sound
  <1>4. MembershipOf(a) = MembershipOf(i) /\ MembershipOf(b) = MembershipOf(j)
    BY <1>2 DEF Alike, MembershipOf
  <1>5. /\ MembershipOf(a).class = MembershipOf(b).class /\ MembershipOf(a).object = MembershipOf(b).object
        /\ export.data[a].property = export.data[b].property
    <2>1. /\ Entry(i).row.class = MembershipOf(i).class /\ Entry(i).row.object = MembershipOf(i).object
          /\ Entry(i).row.property = export.data[i].property
      BY RowOfAnEntry
    <2>2. /\ Entry(j).row.class = MembershipOf(j).class /\ Entry(j).row.object = MembershipOf(j).object
          /\ Entry(j).row.property = export.data[j].property
      BY RowOfAnEntry
    <2> QED
      BY <1>2, <1>4, <2>1, <2>2 DEF SeriesKey, Alike
  <1>6. MembershipOf(a) = MembershipOf(b) /\ export.data[a].band = export.data[b].band
    <2>1. HasOneSeries(export)
      BY ExportAssumption DEF IsExport
    <2>2. a \in DOMAIN export.data /\ b \in DOMAIN export.data
      BY <1>1, <1>2
    <2> QED
      BY <1>3, <1>5, <2>1, <2>2 DEF HasOneSeries
  <1>7. Alike(i, j)
    BY <1>2, <1>3, <1>5, <1>6 DEF Alike
  <1>8. Group(i) = Group(j)
    BY <1>7 DEF Group, Alike
  <1> QED
    BY <1>8 DEF EntriesOf

LEMMA AChangingPropertyIsAlone ==
  ASSUME export \in Exports, memberships = Sound, IsWindow(chronology.window), NEW i \in Changing, NEW j \in Changing,
         SeriesKey(Entry(i).row) = SeriesKey(Entry(j).row), Entry(i).row.object = Entry(j).row.object
  PROVE  EntriesOf(i) = EntriesOf(j) /\ Moments(i) = Moments(j)
  <1>1. i \in Live /\ j \in Live
    BY DEF Changing
  <1>2. PICK a \in Group(i) : IsDated(export.data[a])
    BY AChangingPropertyIsDated
  <1>3. PICK b \in Group(j) : IsDated(export.data[b])
    BY AChangingPropertyIsDated
  <1>4. EntriesOf(i) = EntriesOf(j)
    BY <1>1, <1>2, <1>3, OneSeries DEF MayHaveASeries
  <1> QED
    BY <1>4 DEF Moments

\* The steps no Data File states, and the rows they make under a key.
Unfiled == {s \in stepped : s.row.data_file = None /\ SeriesKey(s.row) \notin DOMAIN parts}
RowsOfSteps(k) == {[at |-> s.at, component |-> s.row.object, sample |-> None, value |-> s.row.value] :
                     s \in {r \in Unfiled : SeriesKey(r.row) = k}}

\* The row of a property at one of its moments.
RowAt(i, m) == [at |-> m, component |-> Entry(i).row.object, sample |-> None, value |-> ReadValueAt(EntriesOf(i), m)]
RowsAt(i, S) == {RowAt(i, m) : m \in S}
PairOf(i) == <<Entry(i).row.object, None>>

LEMMA LastOfRows ==
  ASSUME NEW i, NEW S \in SUBSET Int, IsFiniteSet(S), S # {}
  PROVE  /\ Max(S) \in S /\ \A m \in S : m <= Max(S)
         /\ LastOf(RowsAt(i, S)) = RowAt(i, Max(S))
  <1>1. Max(S) \in S /\ \A m \in S : m <= Max(S)
    BY MaxOfNumbers
  <1>2. \A m : RowAt(i, m).at = m
    BY DEF RowAt
  <1>3. RowAt(i, Max(S)) \in RowsAt(i, S) /\ \A r \in RowsAt(i, S) : r.at <= RowAt(i, Max(S)).at
    BY <1>1, <1>2 DEF RowsAt
  <1>4. LastOf(RowsAt(i, S)) \in RowsAt(i, S) /\ \A r \in RowsAt(i, S) : r.at <= LastOf(RowsAt(i, S)).at
    BY <1>3 DEF LastOf
  <1>5. PICK m \in S : LastOf(RowsAt(i, S)) = RowAt(i, m)
    BY <1>4 DEF RowsAt
  <1>6. Max(S) <= m /\ m <= Max(S)
    BY <1>1, <1>2, <1>3, <1>4, <1>5
  <1>7. m \in Int /\ Max(S) \in Int
    BY <1>1
  <1>8. m = Max(S)
    BY <1>6, <1>7
  <1> QED
    BY <1>1, <1>5, <1>8

\* The rows of one object under a key are the moments of its one property that changes.
LEMMA RowsOfAChangingProperty ==
  ASSUME export \in Exports, memberships = Sound, IsWindow(chronology.window), NEW i \in Changing,
         stepped = UNION {{StepAt(EntriesOf(j), m) : m \in Moments(j)} : j \in Changing},
         Entry(First(i)).row.data_file = None, SeriesKey(Entry(i).row) \notin DOMAIN parts
  PROVE  Of(RowsOfSteps(SeriesKey(Entry(i).row)), PairOf(i)) = RowsAt(i, Moments(i))
  <1> DEFINE k == SeriesKey(Entry(i).row)
             rows == RowsOfSteps(k)
  <1>1. Changing \subseteq Live
    BY DEF Changing
  <1>2. ASSUME NEW j \in Changing, NEW m
        PROVE  /\ StepAt(EntriesOf(j), m).at = m
               /\ StepAt(EntriesOf(j), m).row.value = ReadValueAt(EntriesOf(j), m)
               /\ StepAt(EntriesOf(j), m).row.data_file = Entry(First(j)).row.data_file
               /\ StepAt(EntriesOf(j), m).row.object = Entry(j).row.object
               /\ SeriesKey(StepAt(EntriesOf(j), m).row) = SeriesKey(Entry(j).row)
    BY <1>1, AStep
  <1>3. ASSUME NEW r \in Of(rows, PairOf(i)) PROVE r \in RowsAt(i, Moments(i))
    <2>1. PICK s \in Unfiled : /\ SeriesKey(s.row) = k
            /\ r = [at |-> s.at, component |-> s.row.object, sample |-> None, value |-> s.row.value]
      BY DEF Of, RowsOfSteps
    <2>2. s \in stepped
      BY DEF Unfiled
    <2>3. PICK j \in Changing : s \in {StepAt(EntriesOf(j), m) : m \in Moments(j)}
      BY <2>2
    <2>4. PICK m \in Moments(j) : s = StepAt(EntriesOf(j), m)
      BY <2>3
    <2>5. s.row.object = Entry(i).row.object
      BY <2>1 DEF Of, PairOf
    <2>6. EntriesOf(j) = EntriesOf(i) /\ Moments(j) = Moments(i)
      BY <1>2, <2>1, <2>4, <2>5, AChangingPropertyIsAlone
    <2>7. r = RowAt(i, m)
      BY <1>2, <2>1, <2>4, <2>5, <2>6 DEF RowAt
    <2> QED
      BY <2>6, <2>7 DEF RowsAt
  <1>4. ASSUME NEW m \in Moments(i) PROVE RowAt(i, m) \in Of(rows, PairOf(i))
    <2> DEFINE s == StepAt(EntriesOf(i), m)
    <2>1. s \in stepped
      OBVIOUS
    <2>2. s \in Unfiled /\ SeriesKey(s.row) = k
      BY <1>2, <2>1 DEF Unfiled
    <2>3. RowAt(i, m) = [at |-> s.at, component |-> s.row.object, sample |-> None, value |-> s.row.value]
      BY <1>2 DEF RowAt
    <2>4. RowAt(i, m) \in rows
      BY <2>2, <2>3 DEF RowsOfSteps
    <2>5. <<RowAt(i, m).component, RowAt(i, m).sample>> = PairOf(i)
      BY DEF RowAt, PairOf
    <2> QED
      BY <2>4, <2>5 DEF Of
  <1> QED
    BY <1>3, <1>4 DEF RowsAt

\* Whatever pair a row is of, it is that of a property that changes.
LEMMA PairsAreProperties ==
  ASSUME export \in Exports, memberships = Sound, IsWindow(chronology.window), NEW k,
         stepped = UNION {{StepAt(EntriesOf(j), m) : m \in Moments(j)} : j \in Changing},
         NEW pair \in ByReplication(RowsOfSteps(k))
  PROVE  \E j \in Changing : /\ SeriesKey(Entry(j).row) = k /\ k \notin DOMAIN parts /\ pair = PairOf(j)
                             /\ Entry(First(j)).row.data_file = None
  <1>1. PICK r \in RowsOfSteps(k) : pair = <<r.component, r.sample>>
    BY DEF ByReplication
  <1>2. PICK s \in Unfiled : /\ SeriesKey(s.row) = k
          /\ r = [at |-> s.at, component |-> s.row.object, sample |-> None, value |-> s.row.value]
    BY DEF RowsOfSteps
  <1>3. s \in stepped /\ s.row.data_file = None /\ SeriesKey(s.row) \notin DOMAIN parts
    BY DEF Unfiled
  <1>4. PICK j \in Changing : s \in {StepAt(EntriesOf(j), m) : m \in Moments(j)}
    BY <1>3
  <1>5. PICK m \in Moments(j) : s = StepAt(EntriesOf(j), m)
    BY <1>4
  <1>6. /\ s.row.data_file = Entry(First(j)).row.data_file /\ s.row.object = Entry(j).row.object
        /\ SeriesKey(s.row) = SeriesKey(Entry(j).row)
    BY <1>5, AStep DEF Changing
  <1>7. pair = PairOf(j)
    BY <1>1, <1>2, <1>6 DEF PairOf
  <1> QED
    BY <1>2, <1>3, <1>6, <1>7

\* The moments kept of a property: those among the snapshots, and the last before them.
EarlyMoments(i, index) == {m \in Moments(i) : m < Min(index)}
NearMoments(i, index) ==
  {m \in Moments(i) : Min(index) <= m /\ m <= Max(index)}
    \cup (IF EarlyMoments(i, index) = {} THEN {} ELSE {Max(EarlyMoments(i, index))})

LEMMA EarlyRows ==
  ASSUME export \in Exports, memberships = Sound, IsWindow(chronology.window), NEW j \in Changing, NEW index,
         NEW rows, Of(rows, PairOf(j)) = RowsAt(j, Moments(j))
  PROVE  LET before == {r \in Of(rows, PairOf(j)) : r.at < Min(index)}
         IN  /\ before # {} <=> EarlyMoments(j, index) # {}
             /\ before # {} => /\ Max(EarlyMoments(j, index)) \in Moments(j)
                               /\ LastOf(before) = RowAt(j, Max(EarlyMoments(j, index)))
  <1> DEFINE before == {r \in Of(rows, PairOf(j)) : r.at < Min(index)}
             early == EarlyMoments(j, index)
  <1>1. \A m : RowAt(j, m).at = m
    BY DEF RowAt
  <1>2. before = RowsAt(j, early)
    BY <1>1 DEF RowsAt, EarlyMoments
  <1>3. early \in SUBSET Int /\ IsFiniteSet(early) /\ early \subseteq Moments(j)
    BY MomentsOfAProperty, FS_Subset DEF EarlyMoments, Changing
  <1>4. before # {} <=> early # {}
    BY <1>2 DEF RowsAt
  <1> HIDE DEF early, before
  <1>5. early # {} => Max(early) \in early /\ LastOf(before) = RowAt(j, Max(early))
    BY <1>2, <1>3, LastOfRows
  <1> QED
    BY <1>3, <1>4, <1>5 DEF early, before

LEMMA NearRows ==
  ASSUME export \in Exports, memberships = Sound, IsWindow(chronology.window), NEW i \in Changing, NEW index,
         NEW rows,
         \A pair \in ByReplication(rows) : \E j \in Changing : pair = PairOf(j) /\ Of(rows, pair) = RowsAt(j, Moments(j)),
         Of(rows, PairOf(i)) = RowsAt(i, Moments(i))
  PROVE  /\ Of(NarrowToWindow(rows, index), PairOf(i)) = RowsAt(i, NearMoments(i, index))
         /\ NarrowToWindow(rows, index) \subseteq rows
  <1> DEFINE before(pair) == {r \in Of(rows, pair) : r.at < Min(index)}
             inside == {r \in rows : Min(index) <= r.at /\ r.at <= Max(index)}
             early == {LastOf(before(p)) : p \in {q \in ByReplication(rows) : before(q) # {}}}
             P == PairOf(i)
  <1>1. NarrowToWindow(rows, index) = inside \cup early
    BY DEF NarrowToWindow
  <1>2. \A m : RowAt(i, m).at = m
    BY DEF RowAt
  <1>3. ASSUME NEW p \in ByReplication(rows), before(p) # {} PROVE LastOf(before(p)) \in Of(rows, p)
    <2>1. PICK j \in Changing : p = PairOf(j) /\ Of(rows, p) = RowsAt(j, Moments(j))
      OBVIOUS
    <2>2. Max(EarlyMoments(j, index)) \in Moments(j) /\ LastOf(before(p)) = RowAt(j, Max(EarlyMoments(j, index)))
      BY <1>3, <2>1, EarlyRows
    <2> QED
      BY <2>1, <2>2 DEF RowsAt
  <1>4. P \in ByReplication(rows)
    <2>1. Moments(i) # {}
      BY MomentsOfAProperty DEF Changing
    <2>2. Of(rows, P) # {}
      BY <2>1 DEF RowsAt
    <2> QED
      BY <2>2 DEF Of, ByReplication
  <1>5. /\ before(P) # {} <=> EarlyMoments(i, index) # {}
        /\ before(P) # {} => LastOf(before(P)) = RowAt(i, Max(EarlyMoments(i, index)))
    BY EarlyRows
  <1>6. \A r \in early : \E p \in ByReplication(rows) : before(p) # {} /\ r = LastOf(before(p)) /\ r \in Of(rows, p)
    BY <1>3
  <1>7. {r \in early : <<r.component, r.sample>> = P} = IF before(P) = {} THEN {} ELSE {LastOf(before(P))}
    <2>1. ASSUME NEW r \in early, <<r.component, r.sample>> = P PROVE before(P) # {} /\ r = LastOf(before(P))
      <3>1. PICK p \in ByReplication(rows) : before(p) # {} /\ r = LastOf(before(p)) /\ r \in Of(rows, p)
        BY <1>6
      <3>2. p = P
        BY <2>1, <3>1 DEF Of
      <3> QED
        BY <3>1, <3>2
    <2>2. ASSUME before(P) # {} PROVE LastOf(before(P)) \in early /\ LastOf(before(P)) \in Of(rows, P)
      BY <1>3, <1>4, <2>2
    <2> HIDE DEF early, before
    <2> QED
      BY <2>1, <2>2 DEF Of
  <1>8. {r \in inside : <<r.component, r.sample>> = P} = RowsAt(i, {m \in Moments(i) : Min(index) <= m /\ m <= Max(index)})
    <2>1. {r \in inside : <<r.component, r.sample>> = P} = {r \in Of(rows, P) : Min(index) <= r.at /\ r.at <= Max(index)}
      BY DEF Of
    <2> QED
      BY <1>2, <2>1 DEF RowsAt
  <1>9. Of(inside \cup early, P)
          = {r \in inside : <<r.component, r.sample>> = P} \cup {r \in early : <<r.component, r.sample>> = P}
    <2> HIDE DEF early, inside
    <2> QED
      BY DEF Of
  <1>10. early \subseteq rows
    BY <1>6 DEF Of
  <1> HIDE DEF early, before, inside
  <1>11. Of(inside \cup early, P) = RowsAt(i, NearMoments(i, index))
    <2>1. CASE before(P) = {}
      BY <1>5, <1>7, <1>8, <1>9, <2>1 DEF NearMoments, RowsAt
    <2>2. CASE before(P) # {}
      <3> DEFINE among == {m \in Moments(i) : Min(index) <= m /\ m <= Max(index)}
                 last == Max(EarlyMoments(i, index))
      <3>1. NearMoments(i, index) = among \cup {last}
        BY <1>5, <2>2 DEF NearMoments
      <3>2. RowsAt(i, among \cup {last}) = RowsAt(i, among) \cup {RowAt(i, last)}
        BY DEF RowsAt
      <3>3. Of(inside \cup early, P) = RowsAt(i, among) \cup {RowAt(i, last)}
        BY <1>5, <1>7, <1>8, <1>9, <2>2
      <3> QED
        BY <3>1, <3>2, <3>3
    <2> QED
      BY <2>1, <2>2
  <1>12. inside \subseteq rows
    BY DEF inside
  <1> QED
    BY <1>1, <1>10, <1>11, <1>12

\* Snapshots that all fall inside the window.
AreSnapshots(index) ==
  index \in SUBSET Int /\ IsFiniteSet(index) /\ \A t \in index : IsWithin(t, chronology.window)

LEMMA ValueAtASnapshot ==
  ASSUME export \in Exports, memberships = Sound, IsWindow(chronology.window), NEW i \in Changing,
         NEW index, AreSnapshots(index), NEW t \in index
  PROVE  ValueAsOf(RowsAt(i, NearMoments(i, index)), t) = ReadValueAt(EntriesOf(i), t)
  <1> DEFINE near == NearMoments(i, index)
             S == {m \in near : m <= t}
             early == EarlyMoments(i, index)
             lo == Min(index)
             hi == Max(index)
  <1>1. /\ i \in Live /\ t \in Int /\ chronology.window.start <= t /\ t < chronology.window.end
        /\ chronology.window.start \in Int
    BY DEF AreSnapshots, IsWithin, Changing, IsWindow
  <1>2. /\ Moments(i) \in SUBSET Int /\ IsFiniteSet(Moments(i))
        /\ \A m \in Moments(i) : chronology.window.start <= m
    BY <1>1, MomentsOfAProperty
  <1>3. PICK last \in Moments(i) : last <= t /\ \A n \in Moments(i) : n <= t => n <= last
    BY <1>1, TheLastMoment
  <1>4. lo \in index /\ hi \in index /\ lo <= t /\ t <= hi /\ lo \in Int /\ hi \in Int
    <2>1. lo \in index /\ hi \in index /\ lo <= t /\ t <= hi
      BY MinOfNumbers, MaxOfNumbers DEF AreSnapshots
    <2> QED
      BY <2>1 DEF AreSnapshots
  <1>5. early # {} => Max(early) \in early /\ \A m \in early : m <= Max(early)
    <2>1. early \in SUBSET Int /\ IsFiniteSet(early)
      BY <1>2, FS_Subset DEF EarlyMoments
    <2> HIDE DEF early
    <2> QED
      BY <2>1, MaxOfNumbers
  <1>6. near \subseteq Moments(i)
    BY <1>5 DEF NearMoments, EarlyMoments
  <1>7. last \in near
    <2>1. CASE lo <= last
      <3>1. last \in Int /\ last <= hi
        BY <1>2, <1>3, <1>4, <1>1
      <3> QED
        BY <2>1, <3>1 DEF NearMoments
    <2>2. CASE ~(lo <= last)
      <3>1. last \in early
        BY <1>2, <1>4, <2>2 DEF EarlyMoments
      <3>2. Max(early) \in Moments(i) /\ Max(early) < lo /\ last <= Max(early)
        BY <1>5, <3>1 DEF EarlyMoments
      <3>3. Max(early) \in Int /\ last \in Int
        BY <1>2, <3>2
      <3>4. Max(early) <= last
        <4>1. Max(early) <= t
          BY <1>1, <1>4, <3>2, <3>3
        <4> QED
          BY <1>3, <3>2, <4>1
      <3>5. Max(early) = last
        BY <3>2, <3>3, <3>4
      <3> QED
        BY <3>1, <3>5 DEF NearMoments
    <2> QED
      BY <2>1, <2>2
  <1> HIDE DEF near, early, lo, hi
  <1>8. S \in SUBSET Int /\ IsFiniteSet(S) /\ last \in S /\ \A m \in S : m <= last
    BY <1>2, <1>3, <1>6, <1>7, FS_Subset
  <1> HIDE DEF S
  <1>9. Max(S) \in S /\ last <= Max(S) /\ Max(S) <= last /\ LastOf(RowsAt(i, S)) = RowAt(i, Max(S))
    BY <1>8, LastOfRows
  <1>10. Max(S) = last
    <2>1. Max(S) \in Int /\ last \in Int
      BY <1>8, <1>9
    <2> QED
      BY <1>9, <2>1
  <1>11. {r \in RowsAt(i, near) : r.at <= t} = RowsAt(i, S)
    BY DEF RowsAt, RowAt, S
  <1>12. RowsAt(i, S) # {}
    BY <1>8 DEF RowsAt
  <1>13. ValueAsOf(RowsAt(i, near), t) = ReadValueAt(EntriesOf(i), last)
    <2> DEFINE before == {r \in RowsAt(i, near) : r.at <= t}
    <2>1. before = RowsAt(i, S) /\ before # {}
      BY <1>11, <1>12
    <2>2. ValueAsOf(RowsAt(i, near), t) = LastOf(before).value
      BY <2>1 DEF ValueAsOf
    <2>3. LastOf(before) = RowAt(i, last)
      BY <1>9, <1>10, <2>1
    <2> QED
      BY <2>2, <2>3 DEF RowAt
  <1>14. ReadValueAt(EntriesOf(i), last) = ReadValueAt(EntriesOf(i), t)
    <2>1. last \in Int /\ chronology.window.start <= last
      BY <1>2, <1>3
    <2> QED
      BY <1>1, <1>3, <2>1, NothingChangesBetween
  <1> QED
    BY <1>13, <1>14 DEF near

LEMMA FilledAtASnapshot ==
  ASSUME export \in Exports, memberships = Sound, IsWindow(chronology.window), NEW i \in Changing,
         NEW index, AreSnapshots(index), NEW t \in index
  PROVE  Filled(RowsAt(i, NearMoments(i, index)), index, t) = ReadValueAt(EntriesOf(i), t)
  <1> DEFINE rows == RowsAt(i, NearMoments(i, index))
             known == {u \in index : ValueAsOf(rows, u) # None}
             held == {u \in known : u <= t}
  <1>1. known = index
    BY ValueAtASnapshot, AChangingPropertyReadsANumber
  <1>2. held \in SUBSET Int /\ IsFiniteSet(held) /\ t \in held /\ \A u \in held : u <= t
    <2>1. held = {u \in index : u <= t}
      BY <1>1
    <2>2. index \in SUBSET Int /\ IsFiniteSet(index)
      BY DEF AreSnapshots
    <2>3. held \in SUBSET index /\ t \in held
      BY <2>1, <2>2
    <2>4. IsFiniteSet(held)
      BY <2>2, <2>3, FS_Subset
    <2> QED
      BY <2>2, <2>3, <2>4
  <1>3. Max(held) = t
    <2> HIDE DEF held
    <2>1. Max(held) \in held /\ t <= Max(held)
      BY <1>2, MaxOfNumbers
    <2>2. Max(held) \in Int /\ t \in Int
      BY <1>2, <2>1
    <2> QED
      BY <1>2, <2>1, <2>2
  <1>4. Filled(rows, index, t) = ValueAsOf(rows, Max(held))
    BY <1>2 DEF Filled
  <1> QED
    BY <1>3, <1>4, ValueAtASnapshot

LEMMA ReconciledRows ==
  ASSUME export \in Exports, memberships = Sound, IsWindow(chronology.window), NEW i \in Changing,
         NEW index, AreSnapshots(index), NEW rows, \A r \in rows : r.sample = None,
         \A pair \in ByReplication(rows) : \E j \in Changing : pair = PairOf(j) /\ Of(rows, pair) = RowsAt(j, Moments(j)),
         Of(rows, PairOf(i)) = RowsAt(i, Moments(i))
  PROVE  {<<r.at, r.value>> : r \in {q \in Reconcile(rows, index) : q.component = Entry(i).row.object}}
           = {<<t, ReadValueAt(EntriesOf(i), t)>> : t \in index}
  <1> DEFINE near == NarrowToWindow(rows, index)
             P == PairOf(i)
             filled(p, t) == [at |-> t, component |-> p[1], sample |-> p[2], value |-> Filled(Of(near, p), index, t)]
             own == {q \in Reconcile(rows, index) : q.component = Entry(i).row.object}
  <1>1. CASE index = {}
    BY <1>1 DEF Reconcile
  <1>2. CASE index # {}
    <2>1. Of(near, P) = RowsAt(i, NearMoments(i, index)) /\ near \subseteq rows
      BY NearRows
    <2>2. Reconcile(rows, index) = UNION {{filled(p, t) : t \in index} : p \in ByReplication(near)}
      BY <1>2 DEF Reconcile
    <2>3. ASSUME NEW q \in own
          PROVE  \E t \in index : q.at = t /\ q.value = ReadValueAt(EntriesOf(i), t)
      <3>1. PICK p \in ByReplication(near) : q \in {filled(p, t) : t \in index}
        BY <2>2
      <3>2. PICK t \in index : q = filled(p, t)
        BY <3>1
      <3>3. PICK r \in near : p = <<r.component, r.sample>>
        BY DEF ByReplication
      <3>4. p = P
        BY <2>1, <3>2, <3>3 DEF PairOf
      <3>5. q.value = Filled(Of(near, P), index, t) /\ q.at = t
        BY <3>2, <3>4
      <3> QED
        BY <2>1, <3>5, FilledAtASnapshot
    <2>4. ASSUME NEW t \in index
          PROVE  \E q \in own : q.at = t /\ q.value = ReadValueAt(EntriesOf(i), t)
      <3>1. Of(near, P) # {}
        <4>1. CASE RowsAt(i, NearMoments(i, index)) # {}
          BY <2>1, <4>1
        <4>2. CASE RowsAt(i, NearMoments(i, index)) = {}
          <5>1. ValueAsOf({}, t) = None
            BY DEF ValueAsOf
          <5>2. ValueAsOf(RowsAt(i, NearMoments(i, index)), t) # None
            BY ValueAtASnapshot, AChangingPropertyReadsANumber
          <5> QED
            BY <4>2, <5>1, <5>2
        <4> QED
          BY <4>1, <4>2
      <3>2. P \in ByReplication(near)
        BY <3>1 DEF Of, ByReplication
      <3>3. filled(P, t) \in Reconcile(rows, index)
        BY <2>2, <3>2
      <3>4. /\ filled(P, t).at = t /\ filled(P, t).component = Entry(i).row.object
            /\ filled(P, t).value = ReadValueAt(EntriesOf(i), t)
        BY <2>1, FilledAtASnapshot DEF PairOf
      <3> QED
        BY <3>3, <3>4
    <2> HIDE DEF own
    <2> QED
      BY <2>3, <2>4 DEF own
  <1> QED
    BY <1>1, <1>2

\* Where the files are read, the series are theirs; then those of the steps join them.
Stepwise ==
  /\ step = "steps" => DOMAIN series = DOMAIN parts
  /\ step = "staged" =>
       \A k \in {SeriesKey(s.row) : s \in Unfiled} \ DOMAIN parts :
         k \in DOMAIN series /\ series[k] = SinkSeries(RowsOfSteps(k))

LEMMA SnapshotsAreStated ==
  ASSUME Resolution, Timing, Windowed, Stepwise, step = "staged"
  PROVE  SnapshotsAsOpened
  <1> DEFINE index == chronology.index
  <1>1. /\ export \in Exports /\ memberships = Sound /\ IsWindow(chronology.window)
        /\ properties = {StepAt(EntriesOf(i), chronology.window.start).row : i \in Live}
        /\ stepped = UNION {{StepAt(EntriesOf(j), m) : m \in Moments(j)} : j \in Changing}
    BY DEF Resolution, Timing, Windowed, AfterResolving
  <1>2. SUFFICES ASSUME index # None, NEW p \in properties,
                        HasSteps(p), p.data_file = None, SeriesKey(p) \notin DOMAIN parts
                 PROVE  {<<r.at, r.value>> : r \in RowsFor(p)} = {<<t, ReadByOpening(p, t)>> : t \in index}
    BY DEF SnapshotsAsOpened
  <1>3. AreSnapshots(index)
    BY <1>2 DEF Timing, AreSnapshots
  <1>4. PICK i \in Live : p = StepAt(EntriesOf(i), chronology.window.start).row
    BY <1>1
  <1>5. /\ IdentifyProperty(p) = IdentifyProperty(Entry(i).row) /\ p.object = Entry(i).row.object
        /\ SeriesKey(p) = SeriesKey(Entry(i).row) /\ p.data_file = Entry(First(i)).row.data_file
    BY <1>1, <1>4, AStep
  <1>6. i \in Changing
    <2>1. {s \in stepped : IdentifyProperty(s.row) = IdentifyProperty(Entry(i).row)} # {}
      BY <1>2, <1>5 DEF HasSteps
    <2> QED
      BY <1>1, <2>1, StepsOfAProperty
  <1> DEFINE k == SeriesKey(p)
             rows == RowsOfSteps(k)
  <1>7. k \in DOMAIN series /\ series[k] = Reconcile(rows, index)
    <2>1. Moments(i) # {}
      BY <1>1, MomentsOfAProperty
    <2>2. PICK m \in Moments(i) : TRUE
      BY <2>1
    <2> DEFINE s == StepAt(EntriesOf(i), m)
    <2>3. s \in stepped
      BY <1>1, <1>6
    <2>4. s.row.data_file = None /\ SeriesKey(s.row) = k
      BY <1>1, <1>2, <1>5, AStep
    <2>5. s \in Unfiled
      BY <1>2, <2>3, <2>4 DEF Unfiled
    <2>6. k \in {SeriesKey(u.row) : u \in Unfiled} \ DOMAIN parts
      BY <1>2, <2>4, <2>5
    <2> QED
      BY <1>2, <2>6 DEF Stepwise, SinkSeries
  <1>8. \A r \in rows : r.sample = None
    BY DEF RowsOfSteps
  <1>9. Of(rows, PairOf(i)) = RowsAt(i, Moments(i))
    BY <1>1, <1>2, <1>5, <1>6, RowsOfAChangingProperty
  <1>10. ASSUME NEW pair \in ByReplication(rows)
         PROVE  \E j \in Changing : pair = PairOf(j) /\ Of(rows, pair) = RowsAt(j, Moments(j))
    <2>1. PICK j \in Changing : /\ SeriesKey(Entry(j).row) = k /\ k \notin DOMAIN parts /\ pair = PairOf(j)
                                /\ Entry(First(j)).row.data_file = None
      BY <1>1, PairsAreProperties
    <2>2. Of(RowsOfSteps(SeriesKey(Entry(j).row)), PairOf(j)) = RowsAt(j, Moments(j))
      BY <1>1, <2>1, RowsOfAChangingProperty
    <2> QED
      BY <2>1, <2>2
  <1>11. {<<r.at, r.value>> : r \in {q \in Reconcile(rows, index) : q.component = Entry(i).row.object}}
           = {<<t, ReadValueAt(EntriesOf(i), t)>> : t \in index}
    <2> HIDE DEF rows, index
    <2> QED
      BY <1>1, <1>3, <1>6, <1>8, <1>9, <1>10, ReconciledRows
  <1>12. RowsFor(p) = {q \in Reconcile(rows, index) : q.component = Entry(i).row.object}
    BY <1>5, <1>7 DEF RowsFor
  <1>13. \A t \in index : ReadByOpening(p, t) = ReadValueAt(EntriesOf(i), t)
    BY <1>1, <1>3, <1>5, ReadAsStated DEF AreSnapshots
  <1> QED
    BY <1>11, <1>12, <1>13

LEMMA WindowedInit == Init => Timing /\ Windowed /\ Stepwise
  BY DEF Init, Timing, Windowed, Stepwise, AfterResolving

LEMMA PropertiesAreFixed ==
  ASSUME UNCHANGED <<export, request, memberships, files, chronology>>
  PROVE  /\ Live' = Live /\ Changing' = Changing /\ \A i : Moments(i)' = Moments(i)
         /\ \A i, t : StepAt(EntriesOf(i), t)' = StepAt(EntriesOf(i), t)
  <1>1. Live' = Live /\ \A i : Entry(i)' = Entry(i)
    BY EntriesAreFixed
  <1>2. \A i : Group(i)' = Group(i)
    BY <1>1 DEF Group, Alike
  <1>3. \A i : EntriesOf(i)' = EntriesOf(i)
    BY <1>1, <1>2 DEF EntriesOf
  <1>4. \A i : Moments(i)' = Moments(i)
    BY <1>3 DEF Moments
  <1>5. Changing' = Changing
    BY <1>1, <1>4 DEF Changing
  <1>6. \A i, t : StepAt(EntriesOf(i), t)' = StepAt(EntriesOf(i), t)
    BY <1>3
  <1> QED
    BY <1>1, <1>4, <1>5, <1>6

LEMMA WindowedNext ==
  ASSUME Resolution, Timing, Windowed, [Next]_vars
  PROVE  Windowed'
  <1>1. CASE ApplyWindow
    <2>1. step = "window" /\ UNCHANGED <<export, request, memberships, files, chronology>>
      BY <1>1 DEF ApplyWindow, Goto
    <2>2. PropertyGroups = {EntriesOf(i) : i \in Live}
      BY <2>1, GroupsOfEntries DEF AfterResolving
    <2>3. properties' = {StepAt(EntriesOf(i), chronology.window.start).row : i \in Live}
      BY <1>1, <2>2 DEF ApplyWindow
    <2>4. stepped' = UNION {{StepAt(EntriesOf(i), m) : m \in Moments(i)} : i \in Changing}
      <3>1. stepped' = UNION {StepsWithin(g, chronology.window) :
                                g \in {h \in PropertyGroups : Cardinality(ChangeMoments(h, chronology.window)) > 1}}
        BY <1>1 DEF ApplyWindow
      <3>2. {h \in PropertyGroups : Cardinality(ChangeMoments(h, chronology.window)) > 1} = {EntriesOf(i) : i \in Changing}
        BY <2>2 DEF Changing, Moments
      <3>3. \A i : StepsWithin(EntriesOf(i), chronology.window) = {StepAt(EntriesOf(i), m) : m \in Moments(i)}
        BY DEF StepsWithin, Moments
      <3>4. stepped' = UNION {StepsWithin(EntriesOf(i), chronology.window) : i \in Changing}
        BY <3>1, <3>2
      <3> QED
        BY <3>3, <3>4
    <2>5. /\ Live' = Live /\ Changing' = Changing /\ \A i : Moments(i)' = Moments(i)
          /\ \A i, t : StepAt(EntriesOf(i), t)' = StepAt(EntriesOf(i), t)
      BY <2>1, PropertiesAreFixed
    <2>6. (properties = {StepAt(EntriesOf(i), chronology.window.start).row : i \in Live})'
      <3>1. \A i \in Live : StepAt(EntriesOf(i), chronology.window.start)' = StepAt(EntriesOf(i), chronology.window.start)
        BY <2>1, <2>5
      <3> QED
        BY <2>3, <2>5, <3>1
    <2>7. (stepped = UNION {{StepAt(EntriesOf(i), m) : m \in Moments(i)} : i \in Changing})'
      BY <2>4, <2>5
    <2> QED
      BY <2>6, <2>7 DEF Windowed
  <1>2. CASE ~ApplyWindow
    <2>1. CASE step' \in AfterResolving \ {"window"}
      <3>1. /\ step \in AfterResolving \ {"window"}
            /\ UNCHANGED <<export, request, memberships, files, chronology, properties, stepped>>
        BY <1>2, <2>1 DEF Next, vars, Staged, Goto, ResolveMemberships, NameFiles, ReadRow, ResolveProperties,
             SettleChronology, StageTopology, ReadDataFile, StageTimeSeries, StageStepped, AfterResolving
      <3>2. /\ Live' = Live /\ Changing' = Changing /\ \A i : Moments(i)' = Moments(i)
            /\ \A i, t : StepAt(EntriesOf(i), t)' = StepAt(EntriesOf(i), t)
        BY <3>1, PropertiesAreFixed
      <3>3. (properties = {StepAt(EntriesOf(i), chronology.window.start).row : i \in Live})'
        <4>1. \A i \in Live : StepAt(EntriesOf(i), chronology.window.start)' = StepAt(EntriesOf(i), chronology.window.start)
          BY <3>1, <3>2
        <4> QED
          BY <3>1, <3>2, <4>1 DEF Windowed
      <3>4. (stepped = UNION {{StepAt(EntriesOf(i), m) : m \in Moments(i)} : i \in Changing})'
        BY <3>1, <3>2 DEF Windowed
      <3> QED
        BY <3>3, <3>4 DEF Windowed
    <2>2. CASE step' \notin AfterResolving \ {"window"}
      BY <2>2 DEF Windowed, AfterResolving
    <2> QED
      BY <2>1, <2>2
  <1> QED
    BY <1>1, <1>2

LEMMA StepwiseNext ==
  ASSUME Resolution, Stepwise, [Next]_vars
  PROVE  Stepwise'
  <1>1. CASE StageTimeSeries
    <2>1. DOMAIN series' = DOMAIN parts' /\ step' = "steps"
      BY <1>1 DEF StageTimeSeries, Goto
    <2> QED
      BY <2>1 DEF Stepwise
  <1>2. CASE StageStepped
    <2> DEFINE keys == {SeriesKey(s.row) : s \in Unfiled}
    <2>1. step' = "staged" /\ DOMAIN series = DOMAIN parts /\ UNCHANGED <<chronology, stepped, parts>>
      BY <1>2 DEF StageStepped, Goto, Stepwise
    <2>2. {s \in stepped : s.row.data_file = None /\ SeriesKey(s.row) \notin DOMAIN series} = Unfiled
      BY <2>1 DEF Unfiled
    <2>3. series' = [k \in DOMAIN series \cup keys |-> IF k \in DOMAIN series THEN series[k] ELSE SinkSeries(RowsOfSteps(k))]
      BY <1>2, <2>2 DEF StageStepped, RowsOfSteps
    <2>4. Unfiled' = Unfiled
      BY <2>1 DEF Unfiled
    <2>5. \A k : RowsOfSteps(k)' = RowsOfSteps(k)
      BY <2>4 DEF RowsOfSteps
    <2>6. \A k : SinkSeries(RowsOfSteps(k))' = SinkSeries(RowsOfSteps(k))
      BY <2>1, <2>5 DEF SinkSeries
    <2>7. keys' = keys
      BY <2>4
    <2>8. \A k \in keys \ DOMAIN parts : k \in DOMAIN series' /\ series'[k] = SinkSeries(RowsOfSteps(k))
      BY <2>1, <2>3
    <2> QED
      BY <2>1, <2>6, <2>7, <2>8 DEF Stepwise
  <1>3. CASE ~StageTimeSeries /\ ~StageStepped
    <2>1. CASE step' \in {"steps", "staged"}
      <3>1. step' = step /\ UNCHANGED <<chronology, stepped, parts, series>>
        BY <1>3, <2>1 DEF Next, vars, Staged, Goto, ResolveMemberships, NameFiles, ReadRow, ResolveProperties,
             SettleChronology, StageTopology, ReadDataFile, ApplyWindow
      <3>2. Unfiled' = Unfiled
        BY <3>1 DEF Unfiled
      <3>3. \A k : RowsOfSteps(k)' = RowsOfSteps(k)
        BY <3>2 DEF RowsOfSteps
      <3>4. \A k : SinkSeries(RowsOfSteps(k))' = SinkSeries(RowsOfSteps(k))
        BY <3>1, <3>3 DEF SinkSeries
      <3> QED
        BY <3>1, <3>2, <3>4 DEF Stepwise
    <2>2. CASE step' \notin {"steps", "staged"}
      BY <2>2 DEF Stepwise
    <2> QED
      BY <2>1, <2>2
  <1> QED
    BY <1>1, <1>2, <1>3

LEMMA ReadingsAreInForce ==
  ASSUME Resolution, Timing, Windowed, Stepwise, step = "staged"
  PROVE  ReadingsHold /\ SnapshotsHold
  <1>1. /\ export \in Exports /\ memberships = Sound /\ IsWindow(chronology.window)
        /\ properties = {StepAt(EntriesOf(i), chronology.window.start).row : i \in Live}
        /\ chronology.index # None => chronology.index \in SUBSET Int
    BY DEF Resolution, Timing, Windowed, AfterResolving
  <1>2. ASSUME NEW p \in properties, ~HasContest(p), NEW t \in Int PROVE Stated(p, t) = ReadByOpening(p, t)
    <2>1. PICK i \in Live : p = StepAt(EntriesOf(i), chronology.window.start).row
      BY <1>1
    <2>2. IdentifyProperty(p) = IdentifyProperty(Entry(i).row)
      BY <1>1, <2>1, AStep
    <2> QED
      BY <1>1, <1>2, <2>2, StatedAsOpened
  <1>3. ReadingsHold
    <2>1. ReadingsAsOpened
      BY ReadingsAreStated DEF AfterResolving
    <2>2. \A t \in chronology.window.start .. chronology.window.end - 1 : t \in Int
      BY <1>1 DEF IsWindow
    <2> QED
      BY <1>2, <2>1, <2>2 DEF ReadingsHold, ReadingsAsOpened
  <1>4. SnapshotsHold
    <2>1. SUFFICES ASSUME chronology.index # None, NEW p \in properties, HasSteps(p), p.data_file = None,
                          SeriesKey(p) \notin DOMAIN parts, ~HasContest(p)
                   PROVE  LET index == {t \in chronology.index : StatesAValue(p, t)}
                          IN  {<<r.at, r.value>> : r \in {q \in RowsFor(p) : q.at \in index}}
                                = {<<t, Stated(p, t)>> : t \in index}
      BY DEF SnapshotsHold
    <2> DEFINE index == {t \in chronology.index : StatesAValue(p, t)}
    <2>2. {<<r.at, r.value>> : r \in RowsFor(p)} = {<<t, ReadByOpening(p, t)>> : t \in chronology.index}
      BY <2>1, SnapshotsAreStated DEF SnapshotsAsOpened
    <2>3. \A t \in chronology.index : ReadByOpening(p, t) = Stated(p, t)
      BY <1>1, <1>2, <2>1
    <2>4. ASSUME NEW r \in RowsFor(p), r.at \in index PROVE r.value = Stated(p, r.at)
      <3>1. PICK t \in chronology.index : <<r.at, r.value>> = <<t, ReadByOpening(p, t)>>
        BY <2>2
      <3> QED
        BY <2>3, <3>1
    <2>5. ASSUME NEW t \in index PROVE \E r \in RowsFor(p) : r.at = t /\ r.value = Stated(p, t)
      <3>1. <<t, ReadByOpening(p, t)>> \in {<<r.at, r.value>> : r \in RowsFor(p)}
        BY <2>2
      <3> QED
        BY <2>3, <3>1
    <2> HIDE DEF index
    <2>6. {<<r.at, r.value>> : r \in {q \in RowsFor(p) : q.at \in index}} = {<<t, Stated(p, t)>> : t \in index}
      BY <2>4, <2>5
    <2> QED
      BY <2>6 DEF index
  <1> QED
    BY <1>3, <1>4

\* At every moment of the window a property no two rows contend for reads as its entry in force
\* then, an entry with a time scope before the base value and zero where neither applies,
\* whatever the dates of its entries and the edges of its bands; and one that changes inside
\* the window, of a class and property no Data File states, has for each snapshot that entry's.
THEOREM PropertiesReadTheEntryInForce == Spec => []EntriesInForceAreRead
  <1> DEFINE Inv == Resolution /\ Timing /\ Windowed /\ Stepwise
  <1>1. Init => Inv
    BY ResolutionInit, WindowedInit
  <1>2. Inv /\ [Next]_vars => Inv'
    BY ResolutionNext, TimingNext, WindowedNext, StepwiseNext
  <1>3. Inv => EntriesInForceAreRead
    <2>1. CASE step = "staged"
      BY <2>1, ReadingsAreInForce DEF EntriesInForceAreRead
    <2>2. CASE step # "staged"
      BY <2>2 DEF EntriesInForceAreRead
    <2> QED
      BY <2>1, <2>2
  <1> QED
    BY <1>1, <1>2, <1>3, PTL DEF Spec


(* ---------------------- what a reconciled series holds ------------------- *)

\* Rows with a moment each, and rows that share none.
IsTimed(rows) == IsFiniteSet(rows) /\ \A r \in rows : r.at \in Int
OneAMoment(rows) == \A r, q \in rows : r.at = q.at => r = q

LEMMA LastInTime ==
  ASSUME NEW S, IsTimed(S), S # {}
  PROVE  LastOf(S) \in S /\ \A r \in S : r.at <= LastOf(S).at
  <1> DEFINE at == [r \in S |-> r.at]
  <1>1. at \in [S -> Int] /\ \A r \in S : at[r] = r.at
    BY DEF IsTimed
  <1>2. PICK m \in S : \A r \in S : at[r] <= at[m]
    <2> HIDE DEF at
    <2> QED
      BY <1>1, Topmost DEF IsTimed
  <1>3. \E r \in S : \A q \in S : q.at <= r.at
    BY <1>1, <1>2
  <1> QED
    BY <1>3 DEF LastOf

LEMMA LastIsAlone ==
  ASSUME NEW S, IsTimed(S), OneAMoment(S), NEW r \in S, \A q \in S : q.at <= r.at
  PROVE  LastOf(S) = r
  <1>1. LastOf(S) \in S /\ r.at <= LastOf(S).at /\ LastOf(S).at <= r.at
    BY LastInTime
  <1>2. LastOf(S).at \in Int /\ r.at \in Int
    BY <1>1 DEF IsTimed
  <1> QED
    BY <1>1, <1>2 DEF OneAMoment

\* The rows of an object and a replication up to a moment, and those kept of them.
UpTo(rows, t) == {r \in rows : r.at <= t}
Kept(own, index) ==
  {r \in own : Min(index) <= r.at /\ r.at <= Max(index)}
    \cup LET before == {r \in own : r.at < Min(index)} IN IF before = {} THEN {} ELSE {LastOf(before)}

LEMMA PartOfTimed ==
  ASSUME NEW S, IsTimed(S), NEW T \in SUBSET S
  PROVE  IsTimed(T) /\ (OneAMoment(S) => OneAMoment(T))
  BY FS_Subset DEF IsTimed, OneAMoment

LEMMA KeptRows ==
  ASSUME NEW rows, NEW index, NEW pair, \A p : IsTimed(Of(rows, p))
  PROVE  Of(NarrowToWindow(rows, index), pair) = Kept(Of(rows, pair), index)
  <1> DEFINE before(p) == {r \in Of(rows, p) : r.at < Min(index)}
             inside == {r \in rows : Min(index) <= r.at /\ r.at <= Max(index)}
             early == {LastOf(before(p)) : p \in {q \in ByReplication(rows) : before(q) # {}}}
  <1>1. NarrowToWindow(rows, index) = inside \cup early
    BY DEF NarrowToWindow
  <1>2. ASSUME NEW p, before(p) # {} PROVE LastOf(before(p)) \in before(p)
    <2>1. IsTimed(before(p))
      BY PartOfTimed
    <2> HIDE DEF before
    <2> QED
      BY <1>2, <2>1, LastInTime
  <1>3. ASSUME NEW p, before(p) # {} PROVE p \in ByReplication(rows)
    BY <1>3 DEF Of, ByReplication
  <1>4. Of(inside, pair) = {r \in Of(rows, pair) : Min(index) <= r.at /\ r.at <= Max(index)}
    BY DEF Of
  <1>5. Of(early, pair) = IF before(pair) = {} THEN {} ELSE {LastOf(before(pair))}
    <2>1. ASSUME NEW r \in Of(early, pair) PROVE before(pair) # {} /\ r = LastOf(before(pair))
      <3>1. r \in early /\ <<r.component, r.sample>> = pair
        BY DEF Of
      <3>2. PICK p \in ByReplication(rows) : before(p) # {} /\ r = LastOf(before(p))
        BY <3>1
      <3>3. r \in before(p)
        BY <1>2, <3>2
      <3>4. p = pair
        BY <3>1, <3>3 DEF Of
      <3> QED
        BY <3>2, <3>4
    <2>2. ASSUME before(pair) # {} PROVE LastOf(before(pair)) \in Of(early, pair)
      <3>1. LastOf(before(pair)) \in before(pair) /\ pair \in ByReplication(rows)
        BY <1>2, <1>3, <2>2
      <3>2. LastOf(before(pair)) \in early
        BY <2>2, <3>1
      <3> QED
        BY <3>1, <3>2 DEF Of
    <2> HIDE DEF early, before
    <2> QED
      BY <2>1, <2>2
  <1>6. Of(inside \cup early, pair) = Of(inside, pair) \cup Of(early, pair)
    <2> HIDE DEF inside, early
    <2> QED
      BY DEF Of
  <1> QED
    BY <1>1, <1>4, <1>5, <1>6 DEF Kept

IsIndex(index) == index \in SUBSET Int /\ IsFiniteSet(index) /\ index # {}

LEMMA EndsOfAnIndex ==
  ASSUME NEW index, IsIndex(index)
  PROVE  /\ Min(index) \in index /\ Max(index) \in index /\ Min(index) \in Int /\ Max(index) \in Int
         /\ \A t \in index : t \in Int /\ Min(index) <= t /\ t <= Max(index)
  BY MinOfNumbers, MaxOfNumbers DEF IsIndex

\* What is kept of the rows of an object reads at every snapshot as the rows themselves do.
LEMMA KeptReadsAlike ==
  ASSUME NEW own, IsTimed(own), OneAMoment(own), NEW index, IsIndex(index), NEW t \in index
  PROVE  /\ Kept(own, index) \subseteq own
         /\ UpTo(Kept(own, index), t) = {} <=> UpTo(own, t) = {}
         /\ UpTo(own, t) # {} => LastOf(UpTo(Kept(own, index), t)) = LastOf(UpTo(own, t))
  <1> DEFINE lo == Min(index)
             hi == Max(index)
             before == {r \in own : r.at < lo}
             near == Kept(own, index)
  <1>1. lo \in Int /\ hi \in Int /\ t \in Int /\ lo <= t /\ t <= hi
    BY EndsOfAnIndex
  <1>2. IsTimed(before) /\ (before # {} => LastOf(before) \in before /\ \A r \in before : r.at <= LastOf(before).at)
    <2>1. IsTimed(before)
      BY PartOfTimed
    <2> HIDE DEF before
    <2> QED
      BY <2>1, LastInTime
  <1>3. near = {r \in own : lo <= r.at /\ r.at <= hi} \cup IF before = {} THEN {} ELSE {LastOf(before)}
    BY DEF Kept
  <1>4. near \subseteq own
    BY <1>2, <1>3
  <1>5. \A r \in own : r.at \in Int
    BY DEF IsTimed
  <1> HIDE DEF lo, hi, near
  <1>6. UpTo(near, t) \subseteq UpTo(own, t)
    BY <1>4 DEF UpTo
  <1>7. ASSUME UpTo(own, t) # {} PROVE LastOf(UpTo(own, t)) \in UpTo(near, t)
    <2> DEFINE last == LastOf(UpTo(own, t))
    <2>1. IsTimed(UpTo(own, t)) /\ UpTo(own, t) \subseteq own
      BY PartOfTimed DEF UpTo
    <2>2. last \in UpTo(own, t) /\ \A r \in UpTo(own, t) : r.at <= last.at
      BY <1>7, <2>1, LastInTime
    <2> HIDE DEF last
    <2>3. last \in own /\ last.at <= t /\ last.at \in Int
      BY <1>5, <2>2 DEF UpTo
    <2>4. CASE lo <= last.at
      BY <1>1, <1>3, <2>3, <2>4 DEF UpTo, last
    <2>5. CASE ~(lo <= last.at)
      <3>1. last \in before
        BY <1>1, <2>3, <2>5
      <3>2. LastOf(before) \in own /\ LastOf(before).at < lo /\ last.at <= LastOf(before).at
        BY <1>2, <3>1
      <3>3. LastOf(before).at \in Int /\ LastOf(before).at <= t
        BY <1>1, <1>5, <3>2
      <3>4. LastOf(before) \in UpTo(own, t)
        BY <3>2, <3>3 DEF UpTo
      <3>5. LastOf(before).at = last.at
        BY <2>2, <2>3, <3>2, <3>3, <3>4
      <3>6. LastOf(before) = last
        BY <2>3, <3>2, <3>5 DEF OneAMoment
      <3> QED
        BY <1>3, <2>3, <3>1, <3>6 DEF UpTo, last
    <2> QED
      BY <2>4, <2>5
  <1>8. UpTo(own, t) # {} => LastOf(UpTo(near, t)) = LastOf(UpTo(own, t))
    <2>1. SUFFICES ASSUME UpTo(own, t) # {} PROVE LastOf(UpTo(near, t)) = LastOf(UpTo(own, t))
      OBVIOUS
    <2>2. IsTimed(UpTo(own, t)) /\ OneAMoment(UpTo(own, t))
      BY PartOfTimed DEF UpTo
    <2>3. IsTimed(UpTo(near, t)) /\ OneAMoment(UpTo(near, t))
      BY <1>6, <2>2, PartOfTimed
    <2>4. \A r \in UpTo(near, t) : r.at <= LastOf(UpTo(own, t)).at
      BY <1>6, <2>1, <2>2, LastInTime
    <2> QED
      BY <1>7, <2>1, <2>3, <2>4, LastIsAlone
  <1> QED
    BY <1>4, <1>6, <1>7, <1>8 DEF near

LEMMA KeptIsFilledAlike ==
  ASSUME NEW own, IsTimed(own), OneAMoment(own), NEW index, IsIndex(index), NEW t \in index
  PROVE  Filled(Kept(own, index), index, t) = Filled(own, index, t)
  <1>1. \A u \in index : ValueAsOf(Kept(own, index), u) = ValueAsOf(own, u)
    <2>1. TAKE u \in index
    <2>2. /\ UpTo(Kept(own, index), u) = {} <=> UpTo(own, u) = {}
          /\ UpTo(own, u) # {} => LastOf(UpTo(Kept(own, index), u)) = LastOf(UpTo(own, u))
      BY KeptReadsAlike
    <2> QED
      BY <2>2 DEF ValueAsOf, UpTo
  <1> DEFINE known == {u \in index : ValueAsOf(own, u) # None}
             held == {u \in known : u <= t}
  <1>2. known = {u \in index : ValueAsOf(Kept(own, index), u) # None}
    BY <1>1
  <1>3. IsFiniteSet(known) /\ known \in SUBSET Int /\ IsFiniteSet(held) /\ held \subseteq known /\ known \subseteq index
    BY FS_Subset DEF IsIndex
  <1>4. held # {} => Max(held) \in index
    <2> HIDE DEF held
    <2> QED
      BY <1>3, MaxOfNumbers
  <1>5. known # {} => Min(known) \in index
    <2> HIDE DEF known
    <2> QED
      BY <1>3, MinOfNumbers
  <1>6. Filled(own, index, t) = IF held # {} THEN ValueAsOf(own, Max(held))
                                ELSE IF known # {} THEN ValueAsOf(own, Min(known)) ELSE None
    BY DEF Filled
  <1>7. Filled(Kept(own, index), index, t) = IF held # {} THEN ValueAsOf(Kept(own, index), Max(held))
                                ELSE IF known # {} THEN ValueAsOf(Kept(own, index), Min(known)) ELSE None
    BY <1>2 DEF Filled
  <1> HIDE DEF known, held
  <1> QED
    BY <1>1, <1>4, <1>5, <1>6, <1>7

Reached(own, index) == {u \in index : \E r \in own : r.at <= u}

\* Forward from the last row before a snapshot, and back from the first snapshot that has one.
LEMMA FilledByARow ==
  ASSUME NEW own, IsTimed(own), \A r \in own : r.value # None, NEW index, IsIndex(index), NEW t \in index,
         Reached(own, index) # {}
  PROVE  Filled(own, index, t)
           = LastOf(UpTo(own, IF t \in Reached(own, index) THEN t ELSE Min(Reached(own, index)))).value
  <1> DEFINE reached == Reached(own, index)
             held == {u \in reached : u <= t}
  <1>1. ASSUME NEW u \in index
        PROVE  /\ u \in reached <=> UpTo(own, u) # {}
               /\ u \in reached => ValueAsOf(own, u) = LastOf(UpTo(own, u)).value /\ ValueAsOf(own, u) # None
               /\ u \notin reached => ValueAsOf(own, u) = None
    <2>1. u \in reached <=> UpTo(own, u) # {}
      BY DEF Reached, UpTo
    <2>2. UpTo(own, u) \subseteq own /\ IsTimed(UpTo(own, u))
      BY PartOfTimed DEF UpTo
    <2>3. UpTo(own, u) # {} => LastOf(UpTo(own, u)) \in own
      BY <2>2, LastInTime
    <2>4. ValueAsOf(own, u) = IF UpTo(own, u) = {} THEN None ELSE LastOf(UpTo(own, u)).value
      BY DEF ValueAsOf, UpTo
    <2> QED
      BY <2>1, <2>3, <2>4
  <1>2. {u \in index : ValueAsOf(own, u) # None} = reached
    BY <1>1 DEF Reached
  <1>3. reached \subseteq index /\ reached \in SUBSET Int /\ IsFiniteSet(reached)
    BY FS_Subset DEF Reached, IsIndex
  <1>4. Filled(own, index, t) = IF held # {} THEN ValueAsOf(own, Max(held)) ELSE ValueAsOf(own, Min(reached))
    BY <1>2 DEF Filled
  <1>5. CASE t \in reached
    <2>1. t \in held /\ held \in SUBSET Int /\ IsFiniteSet(held) /\ \A u \in held : u <= t
      <3>1. held \subseteq reached
        OBVIOUS
      <3> QED
        BY <1>3, <1>5, <3>1, FS_Subset
    <2> HIDE DEF held
    <2>2. Max(held) \in held /\ t <= Max(held) /\ Max(held) <= t
      BY <2>1, MaxOfNumbers
    <2>3. Max(held) \in Int /\ t \in Int
      BY <2>1, <2>2
    <2>4. Max(held) = t
      BY <2>2, <2>3
    <2> QED
      BY <1>1, <1>4, <1>5, <2>1, <2>4
  <1>6. CASE t \notin reached
    <2>1. held = {}
      <3>1. SUFFICES ASSUME NEW u \in reached, u <= t PROVE FALSE
        OBVIOUS
      <3>2. PICK r \in own : r.at <= u
        BY DEF Reached
      <3>3. r.at \in Int /\ u \in Int /\ t \in Int
        BY <1>3 DEF IsTimed, IsIndex
      <3>4. r.at <= t
        BY <3>1, <3>2, <3>3
      <3> QED
        BY <1>6, <3>4 DEF Reached
    <2>2. Min(reached) \in reached
      BY <1>3, MinOfNumbers
    <2>3. ValueAsOf(own, Min(reached)) = LastOf(UpTo(own, Min(reached))).value
      BY <1>1, <1>3, <2>2
    <2> QED
      BY <1>4, <1>6, <2>1, <2>3
  <1> QED
    BY <1>5, <1>6

\* What the series of an object and a replication holds, whatever else is reconciled with it.
LEMMA ReconciledPair ==
  ASSUME NEW rows, \A p : IsTimed(Of(rows, p)), NEW c, NEW s, OneAMoment(Of(rows, <<c, s>>)),
         NEW index, IsIndex(index)
  PROVE  {<<r.at, r.value>> : r \in {q \in Reconcile(rows, index) : q.component = c /\ q.sample = s}}
           = {<<t, Filled(Of(rows, <<c, s>>), index, t)>> :
                t \in {u \in index : \E r \in Of(rows, <<c, s>>) : r.at <= Max(index)}}
  <1> DEFINE P == <<c, s>>
             own == Of(rows, P)
             near == NarrowToWindow(rows, index)
             filled(p, t) == [at |-> t, component |-> p[1], sample |-> p[2], value |-> Filled(Of(near, p), index, t)]
             mine == {q \in Reconcile(rows, index) : q.component = c /\ q.sample = s}
             there == \E r \in own : r.at <= Max(index)
  <1>1. Reconcile(rows, index) = UNION {{filled(p, t) : t \in index} : p \in ByReplication(near)}
    BY DEF Reconcile, IsIndex
  <1>2. Of(near, P) = Kept(own, index)
    BY KeptRows
  <1>3. IsTimed(own) /\ OneAMoment(own)
    OBVIOUS
  <1>4. P \in ByReplication(near) <=> there
    <2>1. P \in ByReplication(near) <=> Kept(own, index) # {}
      BY <1>2 DEF Of, ByReplication
    <2>2. Max(index) \in index
      BY EndsOfAnIndex
    <2>3. UpTo(Kept(own, index), Max(index)) = {} <=> UpTo(own, Max(index)) = {}
      BY <1>3, <2>2, KeptReadsAlike
    <2>4. there <=> UpTo(own, Max(index)) # {}
      BY DEF UpTo
    <2>5. Kept(own, index) = UpTo(Kept(own, index), Max(index))
      <3>1. SUFFICES ASSUME NEW r \in Kept(own, index) PROVE r.at <= Max(index)
        BY DEF UpTo
      <3>2. CASE r.at <= Max(index)
        BY <3>2
      <3>3. CASE ~(r.at <= Max(index))
        <4> DEFINE before == {x \in own : x.at < Min(index)}
        <4>1. before # {} /\ r = LastOf(before)
          BY <3>1, <3>3 DEF Kept
        <4>2. IsTimed(before)
          BY <1>3, PartOfTimed
        <4>3. r \in before
          <5> HIDE DEF before
          <5> QED
            BY <4>1, <4>2, LastInTime
        <4>4. r.at \in Int /\ r.at < Min(index)
          BY <1>3, <4>3 DEF IsTimed
        <4> QED
          BY <4>4, EndsOfAnIndex
      <3> QED
        BY <3>2, <3>3
    <2> HIDE DEF own, there
    <2> QED
      BY <2>1, <2>3, <2>4, <2>5
  <1>5. ASSUME NEW t \in index PROVE Filled(Of(near, P), index, t) = Filled(own, index, t)
    <2> HIDE DEF own, near
    <2> QED
      BY <1>2, <1>3, KeptIsFilledAlike
  <1>6. ASSUME NEW q \in mine
        PROVE  there /\ \E t \in index : q.at = t /\ q.value = Filled(own, index, t)
    <2>1. PICK p \in ByReplication(near) : q \in {filled(p, t) : t \in index}
      BY <1>1
    <2>2. PICK t \in index : q = filled(p, t)
      BY <2>1
    <2>3. PICK r \in near : p = <<r.component, r.sample>>
      BY DEF ByReplication
    <2>4. p = P
      BY <2>2, <2>3
    <2>5. q.at = t /\ q.value = Filled(Of(near, P), index, t)
      BY <2>2, <2>4
    <2> HIDE DEF P, own, near, there
    <2> QED
      BY <1>4, <1>5, <2>1, <2>4, <2>5
  <1>7. ASSUME there, NEW t \in index
        PROVE  \E q \in mine : q.at = t /\ q.value = Filled(own, index, t)
    <2>1. P \in ByReplication(near)
      BY <1>4, <1>7
    <2>2. filled(P, t) \in Reconcile(rows, index)
      BY <1>1, <2>1
    <2>3. filled(P, t).at = t /\ filled(P, t).component = c /\ filled(P, t).sample = s
          /\ filled(P, t).value = Filled(Of(near, P), index, t)
      OBVIOUS
    <2> QED
      BY <1>5, <2>2, <2>3
  <1> HIDE DEF mine, own, there
  <1> QED
    BY <1>6, <1>7 DEF mine, own, there, P

\* The rows a trace makes for one owner: each value of it, times the share.
Multiple(trace, c, s, share) == {[at |-> x.at, component |-> c, sample |-> s, value |-> x.value * share] : x \in trace}

LEMMA MultipleOfATrace ==
  ASSUME NEW trace, IsTimed(trace), OneAMoment(trace), \A x \in trace : x.value \in Int, NEW c, NEW s, NEW share \in Int
  PROVE  /\ IsTimed(Multiple(trace, c, s, share)) /\ OneAMoment(Multiple(trace, c, s, share))
         /\ \A r \in Multiple(trace, c, s, share) : r.value # None
         /\ \A t : (\E r \in Multiple(trace, c, s, share) : r.at <= t) <=> (\E x \in trace : x.at <= t)
         /\ \A t : UpTo(trace, t) # {} =>
              LastOf(UpTo(Multiple(trace, c, s, share), t)).value = share * LastOf(UpTo(trace, t)).value
  <1> DEFINE rows == Multiple(trace, c, s, share)
             of == [x \in trace |-> [at |-> x.at, component |-> c, sample |-> s, value |-> x.value * share]]
  <1>1. rows = {of[x] : x \in trace} /\ DOMAIN of = trace
    BY DEF Multiple
  <1>2. \A x \in trace : of[x].at = x.at /\ of[x].value = x.value * share
    OBVIOUS
  <1> HIDE DEF of, rows
  <1>3. IsTimed(rows)
    <2>1. IsFiniteSet(rows)
      BY <1>1, ImageIsFinite DEF IsTimed
    <2> QED
      BY <1>1, <1>2, <2>1 DEF IsTimed
  <1>4. OneAMoment(rows)
    BY <1>1, <1>2 DEF OneAMoment
  <1>5. \A r \in rows : r.value # None
    <2>1. SUFFICES ASSUME NEW x \in trace PROVE of[x].value # None
      BY <1>1
    <2>2. x.value \in Int /\ share \in Int /\ None \notin Int
      BY TimeAssumption
    <2>3. x.value * share \in Int
      BY <2>2
    <2> QED
      BY <1>2, <2>2, <2>3
  <1>6. \A t : (\E r \in rows : r.at <= t) <=> (\E x \in trace : x.at <= t)
    BY <1>1, <1>2
  <1>7. ASSUME NEW t, UpTo(trace, t) # {} PROVE LastOf(UpTo(rows, t)).value = share * LastOf(UpTo(trace, t)).value
    <2> DEFINE last == LastOf(UpTo(trace, t))
    <2>1. IsTimed(UpTo(trace, t)) /\ IsTimed(UpTo(rows, t)) /\ OneAMoment(UpTo(rows, t))
      BY <1>3, <1>4, PartOfTimed DEF UpTo
    <2>2. last \in UpTo(trace, t) /\ \A x \in UpTo(trace, t) : x.at <= last.at
      BY <1>7, <2>1, LastInTime
    <2> HIDE DEF last
    <2>3. last \in trace /\ last.at <= t
      BY <2>2 DEF UpTo
    <2>4. of[last] \in UpTo(rows, t) /\ of[last].at = last.at /\ of[last].value = last.value * share
      BY <1>1, <1>2, <2>3 DEF UpTo
    <2>5. \A r \in UpTo(rows, t) : r.at <= of[last].at
      <3>1. TAKE r \in UpTo(rows, t)
      <3>2. PICK x \in trace : r = of[x]
        BY <1>1 DEF UpTo
      <3>3. x \in UpTo(trace, t) /\ r.at = x.at
        BY <1>2, <3>2 DEF UpTo
      <3> QED
        BY <2>2, <2>4, <3>3
    <2>6. LastOf(UpTo(rows, t)) = of[last]
      BY <2>1, <2>4, <2>5, LastIsAlone
    <2>7. last.value * share = share * last.value
      BY <2>3
    <2> QED
      BY <2>4, <2>6, <2>7 DEF last
  <1> QED
    BY <1>3, <1>4, <1>5, <1>6, <1>7 DEF rows

\* A share of a trace, filled, is the share of what the trace reads as at each snapshot.
LEMMA MultipleIsFilled ==
  ASSUME NEW trace, IsTimed(trace), OneAMoment(trace), \A x \in trace : x.value \in Int, NEW c, NEW s, NEW share \in Int,
         NEW index, IsIndex(index), NEW t \in index, \E x \in trace : x.at <= Max(index)
  PROVE  Filled(Multiple(trace, c, s, share), index, t) = share * TraceAt(trace, index, t)
  <1> DEFINE rows == Multiple(trace, c, s, share)
             reached == Reached(rows, index)
             moment == IF t \in reached THEN t ELSE Min(reached)
  <1>1. /\ IsTimed(rows) /\ \A r \in rows : r.value # None
        /\ \A u : (\E r \in rows : r.at <= u) <=> (\E x \in trace : x.at <= u)
        /\ \A u : UpTo(trace, u) # {} => LastOf(UpTo(rows, u)).value = share * LastOf(UpTo(trace, u)).value
    BY MultipleOfATrace
  <1> HIDE DEF rows
  <1>2. reached = {u \in index : \E x \in trace : x.at <= u}
    BY <1>1 DEF Reached
  <1>3. Max(index) \in reached
    BY <1>2, EndsOfAnIndex
  <1>4. Filled(rows, index, t) = LastOf(UpTo(rows, moment)).value
    BY <1>1, <1>3, FilledByARow
  <1>5. moment \in reached
    <2>1. reached \in SUBSET Int /\ IsFiniteSet(reached)
      BY FS_Subset DEF Reached, IsIndex
    <2> HIDE DEF reached
    <2> QED
      BY <1>3, <2>1, MinOfNumbers
  <1>6. UpTo(trace, moment) # {}
    BY <1>2, <1>5 DEF UpTo
  <1>7. TraceAt(trace, index, t) = LastOf(UpTo(trace, moment)).value
    BY <1>2 DEF TraceAt, UpTo
  <1> QED
    BY <1>1, <1>4, <1>6, <1>7 DEF rows


(* --------------------------- the files that are named -------------------- *)

LEMMA TextRowsAreRows ==
  ASSUME export \in Exports, NEW class, NEW property
  PROVE  LET row == TextRows(class, property)
         IN  \A o \in DOMAIN row : o # None /\ row[o] \in DOMAIN export.data
  <1> DEFINE of(o) == {i \in DOMAIN export.data :
                         /\ export.data[i].property = property /\ property \in export.properties
                         /\ HasMembership(export.data[i].membership)
                         /\ ChildOf(export.data[i].membership) = o
                         /\ ~IsInactive(export.data[i])}
  <1>1. TextRows(class, property) = [o \in {p \in ObjectsOf(class) : of(p) # {}} |-> Max(of(o))]
    BY DEF TextRows
  <1>2. ASSUME NEW o, of(o) # {} PROVE Max(of(o)) \in DOMAIN export.data
    <2>1. of(o) \subseteq DOMAIN export.data
      OBVIOUS
    <2>2. of(o) \in SUBSET Int /\ IsFiniteSet(of(o))
      BY <2>1, AnExport, FS_Subset
    <2> HIDE DEF of
    <2> QED
      BY <1>2, <2>1, <2>2, MaxOfNumbers
  <1>3. \A o \in ObjectsOf(class) : o # None
    BY ExportAssumption DEF IsExport, NamesFiles, ObjectsOf
  <1> HIDE DEF of
  <1> QED
    BY <1>1, <1>2, <1>3

\* What a run knows of files once it has named them: each is one the export may hold.
NamedFiles ==
  step \notin {"chronology", "memberships", "files"} =>
    /\ None \notin DOMAIN files.data_files /\ None \notin DOMAIN files.variables
    /\ \A o \in DOMAIN files.data_files : files.data_files[o] \in DOMAIN export.files
    /\ \A o \in DOMAIN files.variables : files.variables[o] \in DOMAIN export.files

LEMMA NamedFilesNext ==
  ASSUME Resolution, NamedFiles, [Next]_vars
  PROVE  NamedFiles'
  <1>1. CASE NameFiles
    <2> DEFINE filename == TextRows("Data File", "Filename")
               profile == TextRows("Variable", "Profile")
    <2>1. export \in Exports /\ \A i \in DOMAIN export.data :
            export.data[i].text # None => export.data[i].text \in DOMAIN export.files
      BY ExportAssumption DEF Resolution, IsExport, NamesFiles
    <2>2. /\ \A o \in DOMAIN filename : o # None /\ filename[o] \in DOMAIN export.data
          /\ \A o \in DOMAIN profile : o # None /\ profile[o] \in DOMAIN export.data
      BY <2>1, TextRowsAreRows
    <2>3. DataFilePaths = [o \in {p \in DOMAIN filename : export.data[filename[p]].text # None} |-> export.data[filename[o]].text]
      BY DEF DataFilePaths
    <2>4. VariablePaths = [o \in {p \in DOMAIN profile : VariablePath(export.data[profile[p]]) # None} |->
                             VariablePath(export.data[profile[o]])]
      BY DEF VariablePaths
    <2> HIDE DEF filename, profile
    <2>5. None \notin DOMAIN DataFilePaths /\ \A o \in DOMAIN DataFilePaths : DataFilePaths[o] \in DOMAIN export.files
      BY <2>1, <2>2, <2>3
    <2>6. \A i \in DOMAIN export.data :
            VariablePath(export.data[i]) # None => VariablePath(export.data[i]) \in DOMAIN export.files
      BY <2>1, <2>5 DEF VariablePath
    <2>7. None \notin DOMAIN VariablePaths /\ \A o \in DOMAIN VariablePaths : VariablePaths[o] \in DOMAIN export.files
      BY <2>2, <2>4, <2>6
    <2>8. files' = [data_files |-> DataFilePaths, variables |-> VariablePaths] /\ export' = export
      BY <1>1 DEF NameFiles
    <2> QED
      BY <2>5, <2>7, <2>8 DEF NamedFiles
  <1>2. CASE ~NameFiles
    <2>1. /\ UNCHANGED <<files, export>>
          /\ step \in {"chronology", "memberships", "files"} => step' \in {"chronology", "memberships", "files"}
      BY <1>2 DEF Next, vars, Staged, Goto, ResolveMemberships, SettleChronology, ReadRow, ResolveProperties,
                  ApplyWindow, StageTopology, ReadDataFile, StageTimeSeries, StageStepped
    <2> QED
      BY <2>1 DEF NamedFiles
  <1> QED
    BY <1>1, <1>2

\* What a row multiplies its file by, and what the row of a property that opens first does.
ShareGiven(i, value) ==
  IF export.data[i].data_file \in DOMAIN files.data_files \/ value \in {0, None} THEN 1
  ELSE IF Unit(export.data[i]) = Percent THEN value \div 100 ELSE value
ShareTaken(p) == ShareOf(FirstSurvivor(p))

\* An entry that reads a file may have a series, and multiplies the file by its share.
LEMMA FileOfAnEntry ==
  ASSUME Resolution, NamedFiles, step \in AfterResolving, NEW i \in Live, Entry(i).row.data_file # None
  PROVE  /\ MayHaveASeries(export.data[i]) /\ Entry(i).row.data_file \in DOMAIN export.files
         /\ Entry(i).row.scaling = ShareGiven(i, Entry(i).row.value) /\ Entry(i).row.scaling \in Int
         /\ Entry(i).row.data_file = FileOf(i)
  <1> DEFINE data == export.data[i]
             value == Convert(data, MembershipOf(i))
  <1>1. export \in Exports /\ memberships = Sound /\ i \in DOMAIN export.data
    BY DEF Resolution, AfterResolving, Live, Standing
  <1>2. (CHOOSE m \in memberships : m.id = data.membership) = MembershipOf(i)
    BY <1>1, MembershipOfALiveRow
  <1>3. /\ Entry(i).row.data_file = ProfileOf(data).path /\ Entry(i).row.value = value
        /\ Entry(i).row.scaling = Scaling(ProfileOf(data), value, Unit(data))
    BY <1>2 DEF Entry, PropertyRow
  <1>4. /\ None \notin DOMAIN files.data_files /\ None \notin DOMAIN files.variables
        /\ \A o \in DOMAIN files.data_files : files.data_files[o] \in DOMAIN export.files
        /\ \A o \in DOMAIN files.variables : files.variables[o] \in DOMAIN export.files
    BY DEF NamedFiles, AfterResolving
  <1>5. value \in Int \cup {None}
    <2>1. IsNumber(data.value)
      BY <1>1, ExportAssumption DEF IsExport
    <2>2. data.value \in Int => \A stated \in DOMAIN CanonicalUnit : \A unit \in DOMAIN CanonicalUnit[stated] :
            data.value * CanonicalUnit[stated][unit] \in Int
      BY UnitAssumption
    <2> QED
      BY <2>1, <2>2 DEF Convert, IsNumber
  <1> HIDE DEF value
  <1>6. Entry(i).row.data_file = FileOf(i)
    BY <1>3 DEF FileOf
  <1>7. CASE data.data_file \in DOMAIN files.data_files
    BY <1>3, <1>4, <1>7, <1>6 DEF ProfileOf, Scaling, ShareGiven, MayHaveASeries
  <1>8. CASE data.data_file \notin DOMAIN files.data_files
    <2>1. data.variable \in DOMAIN files.variables
      BY <1>3, <1>8 DEF ProfileOf
    <2>2. ProfileOf(data) = [path |-> files.variables[data.variable], is_share |-> TRUE]
      BY <1>8, <2>1 DEF ProfileOf
    <2>3. Entry(i).row.scaling = IF value \in {None, 0} THEN 1 ELSE IF Unit(data) = Percent THEN value \div 100 ELSE value
      BY <1>3, <2>2 DEF Scaling
    <2>4. value \notin {None, 0} => value \in Int /\ value \div 100 \in Int
      BY <1>5
    <2>5. Entry(i).row.scaling \in Int
      BY <2>3, <2>4
    <2>6. Entry(i).row.scaling = ShareGiven(i, value)
      BY <1>8, <2>3 DEF ShareGiven
    <2>7. MayHaveASeries(data)
      BY <1>4, <2>1 DEF MayHaveASeries
    <2>8. Entry(i).row.data_file \in DOMAIN export.files
      BY <1>3, <1>4, <2>1, <2>2
    <2> QED
      BY <1>3, <1>4, <1>6, <2>1, <2>5, <2>6, <2>7, <2>8
  <1> QED
    BY <1>7, <1>8

(* ------------------------- the properties that read them ----------------- *)

\* A property that reads a file is some live row's, and its first entry names the file.
LEMMA AReader ==
  ASSUME Resolution, Windowed, NamedFiles, step \in AfterResolving \ {"window"},
         NEW p \in properties, p.data_file # None
  PROVE  /\ p.data_file \in DOMAIN export.files /\ p.scaling \in Int /\ ShareTaken(p) = p.scaling
         /\ p.data_file = FileOf(FirstSurvivor(p))
         /\ \E i \in Live : /\ p = StepAt(EntriesOf(i), chronology.window.start).row
                            /\ SeriesKey(p) = SeriesKey(Entry(i).row) /\ p.object = Entry(i).row.object
                            /\ Entry(First(i)).row.data_file # None
                            /\ First(i) \in Group(i) /\ MayHaveASeries(export.data[First(i)])
  <1>1. /\ export \in Exports /\ memberships = Sound
        /\ properties = {StepAt(EntriesOf(i), chronology.window.start).row : i \in Live}
    BY DEF Resolution, Windowed, AfterResolving
  <1>2. PICK i \in Live : p = StepAt(EntriesOf(i), chronology.window.start).row
    BY <1>1
  <1>3. /\ p.data_file = Entry(First(i)).row.data_file /\ p.scaling = Entry(First(i)).row.scaling
        /\ SeriesKey(p) = SeriesKey(Entry(i).row) /\ p.object = Entry(i).row.object
        /\ IdentifyProperty(p) = IdentifyProperty(Entry(i).row)
    BY <1>1, <1>2, AStep
  <1>4. First(i) \in Group(i) /\ FirstSurvivor(p) = First(i) /\ First(i) \in Live
    BY <1>1, <1>3, FirstRowIsFirst DEF Group
  <1>5. /\ MayHaveASeries(export.data[First(i)]) /\ Entry(First(i)).row.data_file \in DOMAIN export.files
        /\ Entry(First(i)).row.scaling = ShareGiven(First(i), Entry(First(i)).row.value)
        /\ Entry(First(i)).row.scaling \in Int /\ Entry(First(i)).row.data_file = FileOf(First(i))
    BY <1>3, <1>4, FileOfAnEntry
  <1>6. Entry(First(i)).row.value = Convert(export.data[First(i)], MembershipOf(First(i)))
    BY <1>1, <1>4, RowOfAnEntry
  <1>7. ShareTaken(p) = p.scaling
    BY <1>3, <1>4, <1>5, <1>6 DEF ShareTaken, ShareOf, ShareGiven
  <1> QED
    BY <1>2, <1>3, <1>4, <1>5, <1>7

LEMMA ReadersAreAlone ==
  ASSUME Resolution, Windowed, NamedFiles, step \in AfterResolving \ {"window"},
         NEW p \in properties, p.data_file # None, NEW q \in properties, q.data_file # None,
         SeriesKey(p) = SeriesKey(q), p.object = q.object
  PROVE  p = q
  <1>1. export \in Exports /\ memberships = Sound
    BY DEF Resolution, AfterResolving
  <1>2. PICK i \in Live : /\ p = StepAt(EntriesOf(i), chronology.window.start).row
                          /\ SeriesKey(p) = SeriesKey(Entry(i).row) /\ p.object = Entry(i).row.object
                          /\ First(i) \in Group(i) /\ MayHaveASeries(export.data[First(i)])
    BY AReader
  <1>3. PICK j \in Live : /\ q = StepAt(EntriesOf(j), chronology.window.start).row
                          /\ SeriesKey(q) = SeriesKey(Entry(j).row) /\ q.object = Entry(j).row.object
                          /\ First(j) \in Group(j) /\ MayHaveASeries(export.data[First(j)])
    BY AReader
  <1>4. EntriesOf(i) = EntriesOf(j)
    BY <1>1, <1>2, <1>3, OneSeries
  <1> QED
    BY <1>2, <1>3, <1>4

\* No step of a property no file states is of an object that reads one.
LEMMA ReadersHaveNoSteps ==
  ASSUME Resolution, Timing, Windowed, NamedFiles, step \in AfterResolving \ {"window"},
         NEW p \in properties, p.data_file # None, NEW j \in Changing,
         SeriesKey(p) = SeriesKey(Entry(j).row), p.object = Entry(j).row.object
  PROVE  Entry(First(j)).row.data_file # None
  <1>1. export \in Exports /\ memberships = Sound /\ IsWindow(chronology.window)
    BY DEF Resolution, Timing, AfterResolving
  <1>2. PICK i \in Live : /\ SeriesKey(p) = SeriesKey(Entry(i).row) /\ p.object = Entry(i).row.object
                          /\ Entry(First(i)).row.data_file # None
                          /\ First(i) \in Group(i) /\ MayHaveASeries(export.data[First(i)])
    BY AReader
  <1>3. PICK b \in Group(j) : IsDated(export.data[b])
    BY <1>1, AChangingPropertyIsDated
  <1>4. Group(i) = Group(j) /\ EntriesOf(i) = EntriesOf(j)
    BY <1>1, <1>2, <1>3, OneSeries DEF MayHaveASeries, Changing
  <1>5. First(i) = First(j)
    BY <1>4 DEF First
  <1> QED
    BY <1>2, <1>5

(* ------------------------- the trace of a property ----------------------- *)

\* What a file holds for an object: a value at each moment, and no two at one.
LEMMA ATrace ==
  ASSUME export \in Exports, IsNumber(chronology.profile_year), NEW p, p.data_file \in DOMAIN export.files, Reads(p), NEW s
  PROVE  IsTimed(Trace(p, p.data_file, s)) /\ OneAMoment(Trace(p, p.data_file, s)) /\ \A x \in Trace(p, p.data_file, s) : x.value \in Int
  <1> DEFINE file == export.files[p.data_file]
             own == {q \in DatedRows(file) : q.sample = s /\ (file.layout = "shared" \/ q.name = p.object)}
             point == [r \in own |-> [at |-> Stamp(file, r.at), value |-> r.value]]
  <1>1. IsTrace(file)
    BY ExportAssumption DEF IsExport, NamesFiles, Reads
  <1>2. own \subseteq file.rows /\ \A r \in own : r.at # None
    BY DEF DatedRows, RowsInScope
  <1>3. IsFiniteSet(own) /\ \A r \in own : r.at \in Int /\ r.value \in Int
    BY <1>1, <1>2, FS_Subset DEF IsTrace, IsNumber
  <1>4. /\ \A t \in Int : Stamp(file, t) \in Int
        /\ \A t, u \in Int : Stamp(file, t) = Stamp(file, u) => t = u
    <2>1. CASE ~file.yearless
      BY <2>1 DEF Stamp
    <2>2. CASE file.yearless
      <3>1. chronology.profile_year \in Int /\ YearLength \in Int
        BY <2>2, TimeAssumption DEF Reads, IsSupported, IsNumber
      <3>2. PICK y \in Int : y = YearLength * chronology.profile_year
        BY <3>1
      <3>3. \A t : Stamp(file, t) = y + t
        BY <2>2, <3>2 DEF Stamp
      <3> QED
        BY <3>2, <3>3
    <2> QED
      BY <2>1, <2>2
  <1>5. \A r, q \in own : r.at = q.at => r = q
    BY <1>1, <1>2 DEF IsTrace
  <1>6. Trace(p, p.data_file, s) = {point[r] : r \in own} /\ DOMAIN point = own
        /\ \A r \in own : point[r].at = Stamp(file, r.at) /\ point[r].value = r.value
    BY DEF Trace
  <1> HIDE DEF own, point
  <1>7. IsFiniteSet(Trace(p, p.data_file, s))
    BY <1>3, <1>6, ImageIsFinite
  <1>8. \A r \in own : point[r].at \in Int /\ point[r].value \in Int
    BY <1>3, <1>4, <1>6
  <1>9. \A r, q \in own : point[r].at = point[q].at => r = q
    BY <1>3, <1>4, <1>5, <1>6
  <1> QED
    BY <1>6, <1>7, <1>8, <1>9 DEF IsTimed, OneAMoment

(* ---------------------------- the files are read ------------------------- *)

\* A file gives a class and property a series where it can be read and holds one of theirs.
Gives(path, k) ==
  /\ k \in KeysReading(path) /\ export.files[path].present /\ IsSupported(export.files[path])
  /\ HasSeries(export.files[path], OwnersOf(path, k))
AttachedRows(path, k) == Attach(export.files[path], OwnersOf(path, k))
Paths == {p.data_file : p \in properties} \ {None}

\* While files are read: what those read so far give, and nothing else, is there; and of what
\* each of them does not give there is a warning.  Then the series are made of it.
FilesRead ==
  /\ step \notin {"files read", "steps", "staged"} => DOMAIN parts = {}
  /\ step \in {"files read", "steps", "staged"} =>
       /\ unread \subseteq Paths
       /\ \A k : k \in DOMAIN parts <=> \E path \in Paths \ unread : Gives(path, k)
       /\ \A k \in DOMAIN parts : \A r :
            r \in parts[k] <=> \E path \in Paths \ unread : Gives(path, k) /\ r \in AttachedRows(path, k)
       /\ \A path \in Paths \ unread : \A k \in KeysReading(path) : Gives(path, k) \/ <<path, k>> \in warned
  /\ step \in {"steps", "staged"} => unread = {} /\ \A k \in DOMAIN parts : k \in DOMAIN series /\ series[k] = SinkSeries(parts[k])
  /\ step = "staged" => DOMAIN series \subseteq DOMAIN parts \cup {SeriesKey(s.row) : s \in Unfiled}

LEMMA FilesAreFixed ==
  ASSUME UNCHANGED <<export, request, chronology, properties>>
  PROVE  /\ Paths' = Paths /\ \A path : KeysReading(path)' = KeysReading(path)
         /\ \A path, k : Gives(path, k)' = Gives(path, k) /\ AttachedRows(path, k)' = AttachedRows(path, k)
  <1>1. Paths' = Paths /\ \A path : KeysReading(path)' = KeysReading(path)
    BY DEF Paths, KeysReading
  <1>2. \A path, k : OwnersOf(path, k)' = OwnersOf(path, k)
    BY DEF OwnersOf
  <1>3. \A file, at : Stamp(file, at)' = Stamp(file, at)
    BY DEF Stamp
  <1>4. \A file : DatedRows(file)' = DatedRows(file) /\ IsSupported(file)' = IsSupported(file)
    BY DEF DatedRows, RowsInScope, IsSupported
  <1>5. \A path, k : Gives(path, k)' = Gives(path, k)
    BY <1>1, <1>2, <1>4 DEF Gives
  <1>6. \A path, k : AttachedRows(path, k)' = AttachedRows(path, k)
    BY <1>2, <1>3, <1>4 DEF AttachedRows, Attach
  <1> QED
    BY <1>1, <1>5, <1>6

LEMMA FilesReadInit == Init => NamedFiles /\ FilesRead
  BY DEF Init, NamedFiles, FilesRead

LEMMA ReadDataFileKeeps ==
  ASSUME FilesRead, NEW path \in unread, ReadDataFile(path)
  PROVE  FilesRead'
  <1> DEFINE done == Paths \ unread
             file == export.files[path]
             found == {k \in KeysReading(path) : Gives(path, k)}
  <1>1. /\ step = "files read" /\ step' = "files read" /\ unread' = unread \ {path}
        /\ UNCHANGED <<export, request, chronology, properties>>
    BY DEF ReadDataFile
  <1>2. /\ Paths' = Paths /\ \A q : KeysReading(q)' = KeysReading(q)
        /\ \A q, k : Gives(q, k)' = Gives(q, k) /\ AttachedRows(q, k)' = AttachedRows(q, k)
    BY <1>1, FilesAreFixed
  <1>3. /\ unread \subseteq Paths
        /\ \A k : k \in DOMAIN parts <=> \E q \in done : Gives(q, k)
        /\ \A k \in DOMAIN parts : \A r : r \in parts[k] <=> \E q \in done : Gives(q, k) /\ r \in AttachedRows(q, k)
        /\ \A q \in done : \A k \in KeysReading(q) : Gives(q, k) \/ <<q, k>> \in warned
    BY <1>1 DEF FilesRead
  <1>4. path \in Paths /\ path \notin done /\ Paths \ (unread \ {path}) = done \cup {path}
    BY <1>3
  <1>5. /\ DOMAIN parts' = DOMAIN parts \cup found
        /\ \A k \in DOMAIN parts' : \A r :
             r \in parts'[k] <=> (k \in DOMAIN parts /\ r \in parts[k]) \/ (k \in found /\ r \in AttachedRows(path, k))
        /\ warned \subseteq warned' /\ \A k \in KeysReading(path) \ found : <<path, k>> \in warned'
    <2>1. CASE ~file.present \/ ~IsSupported(file)
      <3>1. parts' = parts /\ warned' = warned \cup {<<path, k>> : k \in KeysReading(path)}
        BY <2>1 DEF ReadDataFile
      <3>2. found = {}
        BY <2>1 DEF Gives
      <3> QED
        BY <3>1, <3>2
    <2>2. CASE ~(~file.present \/ ~IsSupported(file))
      <3>1. found = {k \in KeysReading(path) : HasSeries(file, OwnersOf(path, k))}
        BY <2>2 DEF Gives
      <3>2. /\ warned' = warned \cup {<<path, k>> : k \in KeysReading(path) \ found}
            /\ parts' = [k \in DOMAIN parts \cup found |->
                  (IF k \in DOMAIN parts THEN parts[k] ELSE {})
                    \cup (IF k \in found THEN Attach(file, OwnersOf(path, k)) ELSE {})]
        BY <2>2, <3>1 DEF ReadDataFile
      <3> HIDE DEF found
      <3> QED
        BY <3>2 DEF AttachedRows
    <2> QED
      BY <2>1, <2>2
  <1>6. \A k : k \in found <=> Gives(path, k)
    BY DEF Gives
  <1> HIDE DEF done, found
  <1>7. \A k : k \in DOMAIN parts' <=> \E q \in done \cup {path} : Gives(q, k)
    BY <1>3, <1>5, <1>6
  <1>8. ASSUME NEW k \in DOMAIN parts', NEW r
        PROVE  r \in parts'[k] <=> \E q \in done \cup {path} : Gives(q, k) /\ r \in AttachedRows(q, k)
    <2>1. r \in parts'[k] <=> (k \in DOMAIN parts /\ r \in parts[k]) \/ (k \in found /\ r \in AttachedRows(path, k))
      BY <1>5
    <2>2. k \in DOMAIN parts /\ r \in parts[k] <=> \E q \in done : Gives(q, k) /\ r \in AttachedRows(q, k)
      BY <1>3
    <2> QED
      BY <1>6, <2>1, <2>2
  <1>9. \A q \in done \cup {path} : \A k \in KeysReading(q) : Gives(q, k) \/ <<q, k>> \in warned'
    BY <1>3, <1>5, <1>6
  <1>10. Paths' \ unread' = done \cup {path} /\ unread' \subseteq Paths'
    BY <1>1, <1>2, <1>3, <1>4
  <1>11. \A k \in DOMAIN parts' : \A r :
           r \in parts'[k] <=> \E q \in Paths' \ unread' : Gives(q, k)' /\ r \in AttachedRows(q, k)'
    BY <1>2, <1>8, <1>10
  <1>12. \A k : k \in DOMAIN parts' <=> \E q \in Paths' \ unread' : Gives(q, k)'
    BY <1>2, <1>7, <1>10
  <1>13. \A q \in Paths' \ unread' : \A k \in KeysReading(q)' : Gives(q, k)' \/ <<q, k>> \in warned'
    BY <1>2, <1>9, <1>10
  <1> QED
    BY <1>1, <1>10, <1>11, <1>12, <1>13 DEF FilesRead

\* A step that leaves what has been read as it is.
LEMMA FilesReadIsKept ==
  ASSUME FilesRead, step \in {"files read", "steps", "staged"}, step' \in {"files read", "steps", "staged"},
         UNCHANGED <<export, request, chronology, properties, unread, parts, warned>>,
         step' \in {"steps", "staged"} => unread = {} /\ \A k \in DOMAIN parts : k \in DOMAIN series' /\ series'[k] = SinkSeries(parts[k]),
         step' = "staged" => (DOMAIN series \subseteq DOMAIN parts \cup {SeriesKey(s.row) : s \in Unfiled})'
  PROVE  FilesRead'
  <1>1. /\ Paths' = Paths /\ \A q : KeysReading(q)' = KeysReading(q)
        /\ \A q, k : Gives(q, k)' = Gives(q, k) /\ AttachedRows(q, k)' = AttachedRows(q, k)
    BY FilesAreFixed
  <1>2. /\ unread \subseteq Paths
        /\ \A k : k \in DOMAIN parts <=> \E q \in Paths \ unread : Gives(q, k)
        /\ \A k \in DOMAIN parts : \A r : r \in parts[k] <=> \E q \in Paths \ unread : Gives(q, k) /\ r \in AttachedRows(q, k)
        /\ \A q \in Paths \ unread : \A k \in KeysReading(q) : Gives(q, k) \/ <<q, k>> \in warned
    BY DEF FilesRead
  <1>3. \A k : SinkSeries(parts[k])' = SinkSeries(parts[k])
    BY DEF SinkSeries
  <1> QED
    BY <1>1, <1>2, <1>3 DEF FilesRead

LEMMA FilesReadNext ==
  ASSUME Stepwise, FilesRead, [Next]_vars
  PROVE  FilesRead'
  <1>1. CASE StageTopology
    <2>1. /\ step' = "files read" /\ DOMAIN parts' = {} /\ unread' = Paths
          /\ UNCHANGED <<export, request, chronology, properties>>
      BY <1>1 DEF StageTopology, Goto, FilesRead, Paths
    <2>2. Paths' = Paths
      BY <2>1, FilesAreFixed
    <2>3. Paths' \ unread' = {}
      BY <2>1, <2>2
    <2> QED
      BY <2>1, <2>2, <2>3 DEF FilesRead
  <1>2. CASE \E path \in unread : ReadDataFile(path)
    BY <1>2, ReadDataFileKeeps
  <1>3. CASE StageTimeSeries
    <2>1. /\ step = "files read" /\ step' = "steps" /\ unread = {}
          /\ UNCHANGED <<export, request, chronology, properties, unread, parts, warned>>
          /\ series' = [k \in DOMAIN parts |-> SinkSeries(parts[k])]
      BY <1>3 DEF StageTimeSeries, Goto
    <2> QED
      BY <2>1, FilesReadIsKept
  <1>4. CASE StageStepped
    <2> DEFINE keys == {SeriesKey(s.row) : s \in Unfiled}
    <2>1. /\ step = "steps" /\ step' = "staged" /\ DOMAIN series = DOMAIN parts
          /\ UNCHANGED <<export, request, chronology, properties, stepped, unread, parts, warned>>
      BY <1>4 DEF StageStepped, Goto, Stepwise
    <2>2. {s \in stepped : s.row.data_file = None /\ SeriesKey(s.row) \notin DOMAIN series} = Unfiled
      BY <2>1 DEF Unfiled
    <2>3. series' = [k \in DOMAIN series \cup keys |-> IF k \in DOMAIN series THEN series[k] ELSE SinkSeries(RowsOfSteps(k))]
      BY <1>4, <2>2 DEF StageStepped, RowsOfSteps
    <2>4. unread = {} /\ \A k \in DOMAIN parts : k \in DOMAIN series /\ series[k] = SinkSeries(parts[k])
      BY <2>1 DEF FilesRead
    <2>5. keys' = keys
      BY <2>1 DEF Unfiled
    <2> HIDE DEF keys
    <2>6. DOMAIN series' \subseteq DOMAIN parts' \cup keys' /\ \A k \in DOMAIN parts : k \in DOMAIN series' /\ series'[k] = SinkSeries(parts[k])
      BY <2>1, <2>3, <2>4, <2>5
    <2> QED
      BY <2>1, <2>4, <2>6, FilesReadIsKept DEF keys
  <1>5. CASE ~StageTopology /\ ~(\E path \in unread : ReadDataFile(path)) /\ ~StageTimeSeries /\ ~StageStepped
    <2>1. CASE step' \in {"files read", "steps", "staged"}
      <3>1. step' = step /\ UNCHANGED <<export, request, chronology, properties, stepped, unread, parts, warned, series>>
        BY <1>5, <2>1 DEF Next, vars, Staged, Goto, ResolveMemberships, NameFiles, ReadRow, ResolveProperties,
             SettleChronology, ApplyWindow
      <3>2. step = "staged" => (DOMAIN series \subseteq DOMAIN parts \cup {SeriesKey(s.row) : s \in Unfiled})'
        BY <3>1 DEF FilesRead, Unfiled
      <3>3. step \in {"steps", "staged"} => unread = {} /\ \A k \in DOMAIN parts : k \in DOMAIN series /\ series[k] = SinkSeries(parts[k])
        BY DEF FilesRead
      <3> QED
        BY <2>1, <3>1, <3>2, <3>3, FilesReadIsKept
    <2>2. CASE step' \notin {"files read", "steps", "staged"}
      <3>1. step \notin {"files read", "steps", "staged"} /\ parts' = parts
        BY <1>5, <2>2 DEF Next, vars, Staged, Goto, ResolveMemberships, NameFiles, ReadRow, ResolveProperties,
             SettleChronology, ApplyWindow
      <3> QED
        BY <2>2, <3>1 DEF FilesRead
    <2> QED
      BY <2>1, <2>2
  <1> QED
    BY <1>1, <1>2, <1>3, <1>4, <1>5

(* ------------------------- the rows of a file's owners ------------------- *)

\* Once every file is read: under a class and property each reader has the share of its trace,
\* and no row is of anything that reads no file.
LEMMA RowsOfReaders ==
  ASSUME Resolution, Timing, Windowed, NamedFiles, FilesRead, step = "staged", NEW k \in DOMAIN parts
  PROVE  /\ \A p \in properties : Reads(p) /\ SeriesKey(p) = k =>
              \A s : Of(parts[k], <<p.object, s>>) = Multiple(Trace(p, p.data_file, s), p.object, s, p.scaling)
         /\ \A r \in parts[k] : \E p \in properties : Reads(p) /\ SeriesKey(p) = k /\ p.object = r.component
         /\ \A pair : IsTimed(Of(parts[k], pair))
  <1>1. /\ \A r : r \in parts[k] <=> \E path \in Paths : Gives(path, k) /\ r \in AttachedRows(path, k)
        /\ Paths \ unread = Paths
    BY DEF FilesRead
  <1>2. /\ step \in AfterResolving \ {"window"} /\ export \in Exports /\ IsNumber(chronology.profile_year)
    BY DEF Resolution, Timing, AfterResolving
  <1> DEFINE own(p) == {q \in DatedRows(export.files[p.data_file]) :
                          export.files[p.data_file].layout = "shared" \/ q.name = p.object}
             rowOf(p, q) == [at |-> Stamp(export.files[p.data_file], q.at), component |-> p.object,
                             sample |-> q.sample, value |-> q.value * p.scaling]
  \* A row is of a reader, that reads the file and is given it.
  <1>3. ASSUME NEW r \in parts[k]
        PROVE  \E p \in properties : /\ Reads(p) /\ SeriesKey(p) = k /\ p.object = r.component
                                     /\ \E q \in own(p) : r = rowOf(p, q)
    <2>1. PICK path \in Paths : Gives(path, k) /\ r \in AttachedRows(path, k)
      BY <1>1
    <2>2. PICK p \in OwnersOf(path, k) : \E q \in DatedRows(export.files[path]) :
            /\ export.files[path].layout = "shared" \/ q.name = p.object
            /\ r = [at |-> Stamp(export.files[path], q.at), component |-> p.object, sample |-> q.sample, value |-> q.value * p.scaling]
      BY <2>1 DEF AttachedRows, Attach
    <2>3. p \in properties /\ p.data_file = path /\ SeriesKey(p) = k /\ path # None
      BY <2>1 DEF OwnersOf, Paths
    <2>4. Reads(p)
      BY <2>1, <2>3 DEF Reads, Gives
    <2>5. p.object = r.component
      BY <2>2
    <2> QED
      BY <2>2, <2>3, <2>4, <2>5
  <1>4. ASSUME NEW p \in properties, Reads(p), SeriesKey(p) = k, NEW q \in own(p)
        PROVE  rowOf(p, q) \in parts[k]
    <2> DEFINE path == p.data_file
    <2>1. path \in Paths /\ p \in OwnersOf(path, k) /\ k \in KeysReading(path)
      BY <1>4 DEF Paths, Reads, OwnersOf, KeysReading
    <2>2. HasSeries(export.files[path], OwnersOf(path, k))
      <3>1. q \in export.files[path].rows
        BY DEF DatedRows, RowsInScope
      <3>2. export.files[path].layout = "columns" => p.object \in {r.name : r \in export.files[path].rows}
        BY <3>1
      <3> QED
        BY <2>1, <3>2 DEF HasSeries
    <2>3. Gives(path, k)
      BY <1>4, <2>1, <2>2 DEF Gives, Reads
    <2>4. rowOf(p, q) \in AttachedRows(path, k)
      BY <2>1 DEF AttachedRows, Attach
    <2> QED
      BY <1>1, <2>1, <2>3, <2>4
  <1>5. ASSUME NEW p \in properties, Reads(p), SeriesKey(p) = k, NEW s
        PROVE  Of(parts[k], <<p.object, s>>) = Multiple(Trace(p, p.data_file, s), p.object, s, p.scaling)
    <2>1. Multiple(Trace(p, p.data_file, s), p.object, s, p.scaling) = {rowOf(p, q) : q \in {x \in own(p) : x.sample = s}}
      <3> DEFINE mine == {x \in own(p) : x.sample = s}
                 point(q) == [at |-> Stamp(export.files[p.data_file], q.at), value |-> q.value]
                 times(x) == [at |-> x.at, component |-> p.object, sample |-> s, value |-> x.value * p.scaling]
      <3>1. Trace(p, p.data_file, s) = {point(q) : q \in mine}
        BY DEF Trace
      <3>2. \A q \in mine : times(point(q)) = rowOf(p, q)
        OBVIOUS
      <3>3. Multiple(Trace(p, p.data_file, s), p.object, s, p.scaling) = {times(x) : x \in Trace(p, p.data_file, s)}
        BY DEF Multiple
      <3> HIDE DEF mine, point, times, rowOf
      <3>4. {times(x) : x \in Trace(p, p.data_file, s)} = {rowOf(p, q) : q \in mine}
        BY <3>1, <3>2
      <3> QED
        BY <3>3, <3>4 DEF mine
    <2>2. ASSUME NEW r \in Of(parts[k], <<p.object, s>>) PROVE \E q \in own(p) : q.sample = s /\ r = rowOf(p, q)
      <3>1. r \in parts[k] /\ r.component = p.object /\ r.sample = s
        BY DEF Of
      <3>2. PICK o \in properties : /\ Reads(o) /\ SeriesKey(o) = k /\ o.object = r.component
                                     /\ \E q \in own(o) : r = rowOf(o, q)
        BY <1>3, <3>1
      <3>3. o = p
        BY <1>2, <1>5, <3>1, <3>2, ReadersAreAlone DEF Reads
      <3>4. PICK q \in own(p) : r = rowOf(p, q)
        BY <3>2, <3>3
      <3>5. rowOf(p, q).sample = q.sample
        OBVIOUS
      <3> QED
        BY <3>1, <3>4, <3>5
    <2>3. ASSUME NEW q \in own(p), q.sample = s PROVE rowOf(p, q) \in Of(parts[k], <<p.object, s>>)
      <3>1. rowOf(p, q) \in parts[k]
        BY <1>4, <1>5
      <3>2. rowOf(p, q).component = p.object /\ rowOf(p, q).sample = s
        BY <2>3
      <3> HIDE DEF rowOf
      <3> QED
        BY <3>1, <3>2 DEF Of
    <2> HIDE DEF own, rowOf
    <2> QED
      BY <2>1, <2>2, <2>3
  <1>6. ASSUME NEW pair PROVE IsTimed(Of(parts[k], pair))
    <2>1. CASE Of(parts[k], pair) = {}
      BY <2>1, FS_EmptySet DEF IsTimed
    <2>2. CASE Of(parts[k], pair) # {}
      <3>1. PICK r \in parts[k] : <<r.component, r.sample>> = pair
        BY <2>2 DEF Of
      <3>2. PICK p \in properties : Reads(p) /\ SeriesKey(p) = k /\ p.object = r.component
        BY <1>3
      <3>3. p.data_file \in DOMAIN export.files /\ p.scaling \in Int
        BY <1>2, <3>2, AReader DEF Reads
      <3>4. /\ IsTimed(Trace(p, p.data_file, r.sample)) /\ OneAMoment(Trace(p, p.data_file, r.sample))
            /\ \A x \in Trace(p, p.data_file, r.sample) : x.value \in Int
        BY <1>2, <3>2, <3>3, ATrace
      <3>5. IsTimed(Multiple(Trace(p, p.data_file, r.sample), p.object, r.sample, p.scaling))
        BY <3>3, <3>4, MultipleOfATrace
      <3> QED
        BY <1>5, <3>1, <3>2, <3>5
    <2> QED
      BY <2>1, <2>2
  <1> QED
    BY <1>3, <1>5, <1>6

\* A reconciled row is of an object that has a row.
LEMMA ReconciledRowsAreOfTheirRows ==
  ASSUME NEW rows, \A pair : IsTimed(Of(rows, pair)), NEW index, NEW r \in Reconcile(rows, index)
  PROVE  \E q \in rows : q.component = r.component /\ q.sample = r.sample
  <1> DEFINE near == NarrowToWindow(rows, index)
             filled(p, t) == [at |-> t, component |-> p[1], sample |-> p[2], value |-> Filled(Of(near, p), index, t)]
  <1>1. index # {} /\ r \in UNION {{filled(p, t) : t \in index} : p \in ByReplication(near)}
    BY DEF Reconcile
  <1>2. PICK p \in ByReplication(near) : r \in {filled(p, t) : t \in index}
    BY <1>1
  <1>3. PICK t \in index : r = filled(p, t)
    BY <1>2
  <1>4. PICK n \in near : p = <<n.component, n.sample>>
    BY DEF ByReplication
  <1>5. n \in Kept(Of(rows, p), index)
    <2>1. n \in Of(near, p)
      BY <1>4 DEF Of
    <2> QED
      BY <2>1, KeptRows
  <1>6. n \in Of(rows, p)
    <2> DEFINE before == {x \in Of(rows, p) : x.at < Min(index)}
    <2>1. IsTimed(before)
      BY PartOfTimed
    <2>2. before # {} => LastOf(before) \in before
      <3> HIDE DEF before
      <3> QED
        BY <2>1, LastInTime
    <2> QED
      BY <1>5, <2>2 DEF Kept
  <1>7. n \in rows
    BY <1>6 DEF Of
  <1>8. r.component = n.component /\ r.sample = n.sample
    BY <1>3, <1>4
  <1> QED
    BY <1>7, <1>8

LEMMA RowsOfStepsAreTimed ==
  ASSUME export \in Exports, memberships = Sound, IsWindow(chronology.window), NEW k,
         stepped = UNION {{StepAt(EntriesOf(j), m) : m \in Moments(j)} : j \in Changing}, NEW pair
  PROVE  IsTimed(Of(RowsOfSteps(k), pair))
  <1>1. CASE Of(RowsOfSteps(k), pair) = {}
    BY <1>1, FS_EmptySet DEF IsTimed
  <1>2. CASE Of(RowsOfSteps(k), pair) # {}
    <2>1. pair \in ByReplication(RowsOfSteps(k))
      BY <1>2 DEF Of, ByReplication
    <2>2. PICK j \in Changing : /\ SeriesKey(Entry(j).row) = k /\ k \notin DOMAIN parts /\ pair = PairOf(j)
                                /\ Entry(First(j)).row.data_file = None
      BY <2>1, PairsAreProperties
    <2>3. Of(RowsOfSteps(k), pair) = RowsAt(j, Moments(j))
      BY <2>2, RowsOfAChangingProperty
    <2>4. Moments(j) \in SUBSET Int /\ IsFiniteSet(Moments(j))
      BY MomentsOfAProperty DEF Changing
    <2>5. IsFiniteSet(RowsAt(j, Moments(j)))
      <3> DEFINE at == [m \in Moments(j) |-> RowAt(j, m)]
      <3>1. DOMAIN at = Moments(j) /\ RowsAt(j, Moments(j)) = {at[m] : m \in Moments(j)}
        BY DEF RowsAt
      <3> HIDE DEF at
      <3> QED
        BY <2>4, <3>1, ImageIsFinite
    <2>6. \A r \in RowsAt(j, Moments(j)) : r.at \in Int
      BY <2>4 DEF RowsAt, RowAt
    <2> QED
      BY <2>3, <2>5, <2>6 DEF IsTimed
  <1> QED
    BY <1>1, <1>2

(* ------------------------ each its own share of its trace ---------------- *)

\* What is known once the run has staged an export.
StagedFacts ==
  /\ Resolution /\ Timing /\ Windowed /\ Stepwise /\ NamedFiles /\ FilesRead
  /\ step = "staged" /\ chronology.index # None

\* A property whose file gives no series has no trace in it.
LEMMA NothingIsHeld ==
  ASSUME StagedFacts, NEW p \in properties, Reads(p), SeriesKey(p) \notin DOMAIN parts, NEW s
  PROVE  Trace(p, p.data_file, s) = {} /\ <<p.data_file, SeriesKey(p)>> \in warned
  <1> DEFINE path == p.data_file
             k == SeriesKey(p)
  <1>1. path \in Paths \ unread /\ k \in KeysReading(path) /\ p \in OwnersOf(path, k)
    BY DEF StagedFacts, FilesRead, Reads, Paths, KeysReading, OwnersOf
  <1>2. ~Gives(path, k)
    BY <1>1 DEF StagedFacts, FilesRead
  <1>3. ~HasSeries(export.files[path], OwnersOf(path, k))
    BY <1>1, <1>2 DEF Gives, Reads
  <1>4. export.files[path].layout = "columns" /\ \A r \in export.files[path].rows : r.name # p.object
    BY <1>1, <1>3 DEF HasSeries
  <1>5. DatedRows(export.files[path]) \subseteq export.files[path].rows
    BY DEF DatedRows, RowsInScope
  <1>6. {q \in DatedRows(export.files[path]) :
            q.sample = s /\ (export.files[path].layout = "shared" \/ q.name = p.object)} = {}
    BY <1>4, <1>5
  <1>7. Trace(p, p.data_file, s) = {}
    BY <1>6 DEF Trace
  <1> QED
    BY <1>1, <1>2, <1>7 DEF StagedFacts, FilesRead

\* The rule of the code: one share of one file, whichever entry is in force.
HoldsShare(p, sample, share) ==
  LET trace == Trace(p, p.data_file, sample)
      index == {t \in chronology.index : \E r \in trace : r.at <= Max(chronology.index)}
  IN  {<<r.at, r.value>> : r \in {q \in RowsFor(p) : q.sample = sample}}
        = {<<t, share * TraceAt(trace, chronology.index, t)>> : t \in index}

LEMMA SharesAreHeld ==
  ASSUME StagedFacts, NEW p \in properties, Reads(p), SeriesKey(p) \in DOMAIN series, NEW s
  PROVE  HoldsShare(p, s, ShareTaken(p))
  <1> DEFINE k == SeriesKey(p)
             index == chronology.index
             trace == Trace(p, p.data_file, s)
             share == ShareTaken(p)
             reached == {t \in index : \E r \in trace : r.at <= Max(index)}
             mine == {q \in RowsFor(p) : q.sample = s}
  <1>1. /\ export \in Exports /\ memberships = Sound /\ IsWindow(chronology.window) /\ IsNumber(chronology.profile_year)
        /\ step \in AfterResolving \ {"window"} /\ index \in SUBSET Int /\ IsFiniteSet(index)
        /\ stepped = UNION {{StepAt(EntriesOf(j), m) : m \in Moments(j)} : j \in Changing}
    BY DEF StagedFacts, Resolution, Timing, Windowed, AfterResolving
  <1>2. /\ p.data_file \in DOMAIN export.files /\ share \in Int /\ share = p.scaling
    BY <1>1, AReader DEF StagedFacts, Reads
  <1>3. IsTimed(trace) /\ OneAMoment(trace) /\ \A x \in trace : x.value \in Int
    BY <1>1, <1>2, ATrace
  <1>4. SUFFICES {<<r.at, r.value>> : r \in mine} = {<<t, share * TraceAt(trace, index, t)>> : t \in reached}
    BY DEF HoldsShare
  <1>5. CASE k \in DOMAIN parts /\ index # {}
    <2> DEFINE rows == parts[k]
               own == Of(rows, <<p.object, s>>)
    <2>1. series[k] = Reconcile(rows, index) /\ IsIndex(index)
      BY <1>1, <1>5 DEF StagedFacts, FilesRead, SinkSeries, IsIndex
    <2>2. own = Multiple(trace, p.object, s, share) /\ \A pair : IsTimed(Of(rows, pair))
      BY <1>2, <1>5, RowsOfReaders DEF StagedFacts
    <2>3. /\ OneAMoment(own)
          /\ \A t : (\E r \in own : r.at <= t) <=> (\E x \in trace : x.at <= t)
      BY <1>2, <1>3, <2>2, MultipleOfATrace
    <2>4. mine = {q \in Reconcile(rows, index) : q.component = p.object /\ q.sample = s}
      BY <2>1 DEF RowsFor
    <2> HIDE DEF rows, mine, trace, share, index
    <2>5. {<<r.at, r.value>> : r \in mine} = {<<t, Filled(own, index, t)>> : t \in {u \in index : \E r \in own : r.at <= Max(index)}}
      <3>1. {<<r.at, r.value>> : r \in {q \in Reconcile(rows, index) : q.component = p.object /\ q.sample = s}}
              = {<<t, Filled(own, index, t)>> : t \in {u \in index : \E r \in own : r.at <= Max(index)}}
        BY <2>1, <2>2, <2>3, ReconciledPair
      <3> QED
        BY <2>4, <3>1
    <2> HIDE DEF own
    <2>6. {u \in index : \E r \in own : r.at <= Max(index)} = reached
      BY <2>3
    <2>7. ASSUME NEW t \in reached PROVE Filled(own, index, t) = share * TraceAt(trace, index, t)
      BY <1>2, <1>3, <2>1, <2>2, MultipleIsFilled
    <2> HIDE DEF reached
    <2> QED
      BY <2>5, <2>6, <2>7
  <1>6. CASE k \in DOMAIN parts /\ index = {}
    <2>1. series[k] = {}
      BY <1>6 DEF StagedFacts, FilesRead, SinkSeries, Reconcile
    <2> QED
      BY <1>6, <2>1 DEF RowsFor
  <1>7. CASE k \notin DOMAIN parts
    <2>1. trace = {}
      BY <1>7, NothingIsHeld
    <2>2. k \in {SeriesKey(u.row) : u \in Unfiled} \ DOMAIN parts
      BY <1>7 DEF StagedFacts, FilesRead
    <2>3. series[k] = Reconcile(RowsOfSteps(k), index)
      BY <2>2 DEF StagedFacts, Stepwise, SinkSeries
    <2>4. ASSUME NEW r \in RowsFor(p) PROVE FALSE
      <3>1. r \in Reconcile(RowsOfSteps(k), index) /\ r.component = p.object
        BY <2>3 DEF RowsFor
      <3>2. \A pair : IsTimed(Of(RowsOfSteps(k), pair))
        BY <1>1, RowsOfStepsAreTimed
      <3>3. PICK q \in RowsOfSteps(k) : q.component = p.object
        BY <3>1, <3>2, ReconciledRowsAreOfTheirRows
      <3>4. <<q.component, q.sample>> \in ByReplication(RowsOfSteps(k))
        BY DEF ByReplication
      <3>5. PICK j \in Changing : /\ SeriesKey(Entry(j).row) = k /\ <<q.component, q.sample>> = PairOf(j)
                                  /\ Entry(First(j)).row.data_file = None
        BY <1>1, <3>4, PairsAreProperties
      <3>6. p.object = Entry(j).row.object
        BY <3>3, <3>5 DEF PairOf
      <3> QED
        BY <1>1, <3>5, <3>6, ReadersHaveNoSteps DEF StagedFacts, Reads
    <2> QED
      BY <2>1, <2>4
  <1> QED
    BY <1>5, <1>6, <1>7

\* A series holds rows of nothing that neither reads a file nor changes inside the window.
LEMMA RowsHaveAnOwner ==
  ASSUME StagedFacts, NEW k \in DOMAIN series, NEW r \in series[k]
  PROVE  \E p \in properties : SeriesKey(p) = k /\ p.object = r.component /\ (Reads(p) \/ HasSteps(p))
  <1>1. /\ export \in Exports /\ memberships = Sound /\ IsWindow(chronology.window)
        /\ properties = {StepAt(EntriesOf(i), chronology.window.start).row : i \in Live}
        /\ stepped = UNION {{StepAt(EntriesOf(j), m) : m \in Moments(j)} : j \in Changing}
    BY DEF StagedFacts, Resolution, Timing, Windowed, AfterResolving
  <1>2. CASE k \in DOMAIN parts
    <2>1. r \in Reconcile(parts[k], chronology.index)
      BY <1>2 DEF StagedFacts, FilesRead, SinkSeries
    <2>2. \A pair : IsTimed(Of(parts[k], pair))
      BY <1>2, RowsOfReaders DEF StagedFacts
    <2>3. PICK q \in parts[k] : q.component = r.component
      BY <2>1, <2>2, ReconciledRowsAreOfTheirRows
    <2> QED
      BY <1>2, <2>3, RowsOfReaders DEF StagedFacts
  <1>3. CASE k \notin DOMAIN parts
    <2>1. k \in {SeriesKey(u.row) : u \in Unfiled} \ DOMAIN parts
      BY <1>3 DEF StagedFacts, FilesRead
    <2>2. r \in Reconcile(RowsOfSteps(k), chronology.index)
      BY <2>1 DEF StagedFacts, Stepwise, SinkSeries
    <2>3. \A pair : IsTimed(Of(RowsOfSteps(k), pair))
      BY <1>1, RowsOfStepsAreTimed
    <2>4. PICK q \in RowsOfSteps(k) : q.component = r.component
      BY <2>2, <2>3, ReconciledRowsAreOfTheirRows
    <2>5. <<q.component, q.sample>> \in ByReplication(RowsOfSteps(k))
      BY DEF ByReplication
    <2>6. PICK j \in Changing : SeriesKey(Entry(j).row) = k /\ <<q.component, q.sample>> = PairOf(j)
      BY <1>1, <2>5, PairsAreProperties
    <2> DEFINE p == StepAt(EntriesOf(j), chronology.window.start).row
    <2>7. j \in Live /\ p \in properties
      BY <1>1 DEF Changing
    <2>8. SeriesKey(p) = k /\ p.object = r.component /\ IdentifyProperty(p) = IdentifyProperty(Entry(j).row)
      BY <1>1, <2>4, <2>6, <2>7, AStep DEF PairOf
    <2>9. HasSteps(p)
      <3>1. chronology.window.start \in Moments(j)
        BY <1>1, <2>7, MomentsOfAProperty
      <3>2. StepAt(EntriesOf(j), chronology.window.start) \in stepped
        BY <1>1, <3>1
      <3> QED
        BY <3>2 DEF HasSteps
    <2> QED
      BY <2>7, <2>8, <2>9
  <1> QED
    BY <1>2, <1>3

\* Where the entry in force has the file and the share of the first, that is its own share of
\* its own file.
LEMMA SharesAreOfTheEntryInForce ==
  ASSUME StagedFacts, NEW p \in properties, Reads(p), SeriesKey(p) \in DOMAIN series, ~HasContest(p), NEW s
  PROVE  HoldsShares(p, s)
  <1> DEFINE index == {t \in chronology.index : ReadsAsTheFirst(p, t)}
             Own(t) == Trace(p, FileOf(InForce(p, t)), s)
             Starts(t) == \E r \in Own(t) : r.at <= Max(chronology.index)
             trace == Trace(p, p.data_file, s)
             begun == \E r \in trace : r.at <= Max(chronology.index)
             share == ShareTaken(p)
             V(t) == share * TraceAt(trace, chronology.index, t)
             mine == {q \in RowsFor(p) : q.sample = s}
             W(t) == ShareOf(InForce(p, t)) * TraceAt(Own(t), chronology.index, t)
  <1>1. FirstRow(p) = FirstSurvivor(p)
    BY RowsOfAnUncontestedProperty DEF FirstRow, FirstSurvivor
  <1>2. p.data_file = FileOf(FirstRow(p)) /\ ShareTaken(p) = ShareOf(FirstRow(p))
    BY <1>1, AReader DEF StagedFacts, Reads, ShareTaken, AfterResolving
  <1>3. ASSUME NEW t \in index PROVE (Starts(t) <=> begun) /\ W(t) = V(t)
    <2>1. FileOf(InForce(p, t)) = p.data_file /\ ShareOf(InForce(p, t)) = share
      BY <1>2 DEF ReadsAsTheFirst
    <2> QED
      BY <2>1
  <1>4. {<<r.at, r.value>> : r \in mine} = {<<t, V(t)>> : t \in {u \in chronology.index : begun}}
    BY SharesAreHeld DEF HoldsShare
  <1> SUFFICES {<<r.at, r.value>> : r \in {q \in RowsFor(p) : q.sample = s /\ q.at \in index}}
                 = {<<t, W(t)>> : t \in {u \in index : Starts(u)}}
    BY DEF HoldsShares
  <1>5. {q \in RowsFor(p) : q.sample = s /\ q.at \in index} = {q \in mine : q.at \in index}
    OBVIOUS
  <1>6. index \subseteq chronology.index
    OBVIOUS
  <1> HIDE DEF index, Own, Starts, begun, share, V, mine, W, trace
  <1>7. ASSUME NEW r \in mine, r.at \in index PROVE Starts(r.at) /\ r.value = W(r.at)
    <2>1. PICK t \in chronology.index : begun /\ <<r.at, r.value>> = <<t, V(t)>>
      BY <1>4
    <2> QED
      BY <1>3, <1>7, <2>1
  <1>8. ASSUME NEW t \in index, Starts(t) PROVE \E r \in mine : r.at = t /\ r.value = W(t)
    <2>1. begun /\ t \in chronology.index
      BY <1>3, <1>6, <1>8
    <2>2. <<t, V(t)>> \in {<<r.at, r.value>> : r \in mine}
      BY <1>4, <2>1
    <2> QED
      BY <1>3, <2>2
  <1> QED
    BY <1>5, <1>7, <1>8

\* An object that reads a Data File has, at every snapshot and each replication by itself, the
\* share its entry in force states of that entry's own file, whatever else is dated or reads
\* the file: where that entry has the file and the share of the one that opens first, which
\* the code reads throughout, and no two rows contend for the property.  One that has no
\* series is warned of, and a series holds rows of nothing else.
THEOREM FilesAreSharedOut == Spec => []FileSeriesAreTheOwnersShares
  <1> DEFINE Inv == Resolution /\ Timing /\ Windowed /\ Stepwise /\ NamedFiles /\ FilesRead
  <1>1. Init => Inv
    BY ResolutionInit, WindowedInit, FilesReadInit
  <1>2. Inv /\ [Next]_vars => Inv'
    BY ResolutionNext, TimingNext, WindowedNext, StepwiseNext, NamedFilesNext, FilesReadNext
  <1>3. Inv => FileSeriesAreTheOwnersShares
    <2>1. SUFFICES ASSUME StagedFacts PROVE FileSeriesAreTheOwnersShares
      BY DEF StagedFacts, FileSeriesAreTheOwnersShares
    <2>2. \A p \in {q \in properties : Reads(q)} : \A sample \in Samples(p) :
            SeriesKey(p) \in DOMAIN series /\ ~HasContest(p) => HoldsShares(p, sample)
      BY <2>1, SharesAreOfTheEntryInForce
    <2>3. \A p \in {q \in properties : Reads(q)} :
            SeriesKey(p) \notin DOMAIN series => <<p.data_file, SeriesKey(p)>> \in warned
      <3>1. \A k \in DOMAIN parts : k \in DOMAIN series
        BY <2>1 DEF StagedFacts, FilesRead
      <3> QED
        BY <2>1, <3>1, NothingIsHeld
    <2>4. \A k \in DOMAIN series : \A r \in series[k] :
            \E p \in properties : SeriesKey(p) = k /\ p.object = r.component /\ (Reads(p) \/ HasSteps(p))
      BY <2>1, RowsHaveAnOwner
    <2> QED
      BY <2>2, <2>3, <2>4 DEF FileSeriesAreTheOwnersShares
  <1> QED
    BY <1>1, <1>2, <1>3, PTL DEF Spec
=============================================================================
