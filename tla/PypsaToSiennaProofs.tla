-------------------------- MODULE PypsaToSiennaProofs --------------------------
(***************************************************************************)
(* Theorems about PypsaToSienna, for every network, every carrier mapping  *)
(* and every price of a shortfall; and, after them, about ExtensionSidecar,*)
(* the records such a leg makes and how they travel from hop to hop.       *)
(***************************************************************************)
EXTENDS PypsaToSienna, ExtensionSidecar, SequenceTheorems, FunctionTheorems, FiniteSetTheorems, TLAPS

IsTable(rows) == rows \in Seq(ToSet(rows))

\* The names of a table are told apart.
NamedApart(rows) == \A i, j \in DOMAIN rows : rows[i].name = rows[j].name => i = j

(* ----------------------------- choosing rows ---------------------------- *)

LEMMA Tables ==
  ASSUME NEW rows, IsTable(rows)
  PROVE  Len(rows) \in Nat /\ DOMAIN rows = 1 .. Len(rows) /\ ToSet(rows) = {rows[i] : i \in DOMAIN rows}
  BY DEF IsTable, ToSet

LEMMA TableOfRows ==
  ASSUME NEW rows, NEW n \in Nat, rows = [i \in 1 .. n |-> rows[i]]
  PROVE  IsTable(rows) /\ Len(rows) = n
  <1>1. \A i \in 1 .. n : rows[i] \in ToSet(rows)
    BY DEF ToSet
  <1> QED
    BY <1>1 DEF IsTable

LEMMA SequencesAreTables ==
  ASSUME NEW S, NEW rows \in Seq(S)
  PROVE  IsTable(rows)
  <1>1. rows = [i \in 1 .. Len(rows) |-> rows[i]] /\ Len(rows) \in Nat
    OBVIOUS
  <1> QED
    BY <1>1, TableOfRows

\* Places are numbered by how many are not after them.
LEMMA PlacesAreNumbered ==
  ASSUME NEW n \in Nat, NEW places \in SUBSET (1 .. n)
  PROVE  /\ IsFiniteSet(places) /\ Cardinality(places) \in Nat /\ Cardinality(places) <= n
         /\ \A i \in places : Cardinality({j \in places : j <= i}) \in 1 .. Cardinality(places)
         /\ \A i, k \in places :
              Cardinality({j \in places : j <= i}) = Cardinality({j \in places : j <= k}) => i = k
         /\ \A m \in 1 .. Cardinality(places) :
              \E i \in places : Cardinality({j \in places : j <= i}) = m
  <1> DEFINE upTo(i) == {j \in places : j <= i}
             rank == [i \in places |-> Cardinality(upTo(i))]
             N == Cardinality(places)
  <1>1. IsFiniteSet(places) /\ N \in Nat /\ N <= n
    <2>1. IsFiniteSet(1 .. n) /\ Cardinality(1 .. n) = n
      BY FS_Interval
    <2>2. IsFiniteSet(places) /\ N <= n
      BY <2>1, FS_Subset
    <2> QED
      BY <2>2, FS_CardinalityType
  <1>2. ASSUME NEW i \in places PROVE IsFiniteSet(upTo(i)) /\ Cardinality(upTo(i)) \in 1 .. N
    <2>1. IsFiniteSet(upTo(i)) /\ Cardinality(upTo(i)) <= N
      BY <1>1, FS_Subset
    <2>2. i \in upTo(i)
      OBVIOUS
    <2>3. Cardinality(upTo(i)) \in Nat /\ Cardinality(upTo(i)) # 0
      BY <2>1, <2>2, FS_CardinalityType, FS_EmptySet
    <2> QED
      BY <1>1, <2>1, <2>3
  <1>3. ASSUME NEW i \in places, NEW k \in places, i < k PROVE Cardinality(upTo(i)) # Cardinality(upTo(k))
    <2>1. places \subseteq Int /\ i \in Int /\ k \in Int
      OBVIOUS
    <2>2. k \in upTo(k) /\ k \notin upTo(i)
      BY <1>3, <2>1
    <2>3. \A j \in places : j <= i => j <= k
      BY <1>3, <2>1
    <2>4. upTo(i) \in SUBSET upTo(k)
      BY <2>3
    <2> QED
      BY <1>2, <2>2, <2>4, FS_Subset
  <1>4. ASSUME NEW i \in places, NEW k \in places, Cardinality(upTo(i)) = Cardinality(upTo(k)) PROVE i = k
    <2>1. ~ i < k /\ ~ k < i
      BY <1>3, <1>4
    <2> QED
      BY <2>1
  <1>5. rank \in Injection(places, 1 .. N)
    BY <1>2, <1>4 DEF Injection, IsInjective
  <1>6. rank \in Surjection(places, 1 .. N)
    BY <1>1, <1>5, FS_Interval, FS_Injection
  <1>7. \A m \in 1 .. N : \E i \in places : Cardinality(upTo(i)) = m
    BY <1>6 DEF Surjection
  <1> QED
    BY <1>1, <1>2, <1>4, <1>7

\* What is chosen of a table are the rows of it that are meant, each place once.
LEMMA SelectedRows ==
  ASSUME NEW rows, IsTable(rows), NEW some
  PROVE  /\ IsTable(Selected(rows, some)) /\ Len(Selected(rows, some)) <= Len(rows)
         /\ ToSet(Selected(rows, some)) = ToSet(rows) \cap some
         /\ NamedApart(rows) => NamedApart(Selected(rows, some))
  <1> DEFINE places == {i \in DOMAIN rows : rows[i] \in some}
             upTo(i) == Cardinality({j \in places : j <= i})
             at(k) == CHOOSE i \in places : upTo(i) = k
             z == Selected(rows, some)
             N == Cardinality(places)
  <1>1. z = [k \in 1 .. N |-> rows[at(k)]]
    BY DEF Selected
  <1>2. DOMAIN rows = 1 .. Len(rows) /\ Len(rows) \in Nat
    BY Tables
  <1>3. /\ N \in Nat /\ N <= Len(rows)
        /\ \A i \in places : upTo(i) \in 1 .. N
        /\ \A i, k \in places : upTo(i) = upTo(k) => i = k
        /\ \A m \in 1 .. N : \E i \in places : upTo(i) = m
    BY <1>2, PlacesAreNumbered
  <1> HIDE DEF z, N
  <1>4. \A k \in 1 .. N : at(k) \in places /\ upTo(at(k)) = k
    BY <1>3
  <1>5. \A i \in places : upTo(i) \in 1 .. N /\ at(upTo(i)) = i
    BY <1>3, <1>4
  <1> HIDE DEF at, upTo
  <1>6. IsTable(z) /\ Len(z) = N
    <2>1. z = [k \in 1 .. N |-> z[k]]
      BY <1>1
    <2> QED
      BY <1>3, <2>1, TableOfRows
  <1>7. ToSet(z) = ToSet(rows) \cap some
    <2>1. ToSet(z) = {z[k] : k \in 1 .. N} /\ ToSet(rows) = {rows[i] : i \in DOMAIN rows}
      BY <1>1, Tables DEF ToSet
    <2>2. ASSUME NEW k \in 1 .. N PROVE z[k] \in ToSet(rows) \cap some
      BY <1>1, <1>4, <2>1
    <2>3. ASSUME NEW r \in ToSet(rows) \cap some PROVE r \in ToSet(z)
      <3>1. PICK i \in places : r = rows[i]
        BY <2>1
      <3>2. z[upTo(i)] = r
        BY <1>1, <1>5, <3>1
      <3> QED
        BY <1>5, <2>1, <3>2
    <2> QED
      BY <2>1, <2>2, <2>3
  <1>8. ASSUME NamedApart(rows) PROVE NamedApart(z)
    <2>1. SUFFICES ASSUME NEW k \in 1 .. N, NEW m \in 1 .. N, z[k].name = z[m].name PROVE k = m
      BY <1>1 DEF NamedApart
    <2>2. rows[at(k)].name = rows[at(m)].name /\ at(k) \in DOMAIN rows /\ at(m) \in DOMAIN rows
      BY <1>1, <1>4, <2>1
    <2>3. at(k) = at(m)
      BY <1>8, <2>2 DEF NamedApart
    <2> QED
      BY <1>4, <2>3
  <1> QED
    BY <1>3, <1>6, <1>7, <1>8 DEF z

(* ----------------------------- drops and fates -------------------------- *)

\* Each rule states what it is for.
IsRules(rules) ==
  /\ Len(rules) \in Nat /\ DOMAIN rules = 1 .. Len(rules)
  /\ \A i \in DOMAIN rules : rules[i].why \in Reasons

Drops(rules, r) == \E i \in DOMAIN rules : r \in rules[i].drops

\* A verdict is the null just for a row no rule drops.
LEMMA VerdictOfARow ==
  ASSUME NEW rules, IsRules(rules), NEW r
  PROVE  Verdict(rules, r) = None <=> ~Drops(rules, r)
  <1> DEFINE hits == {i \in DOMAIN rules : r \in rules[i].drops}
  <1>1. ASSUME hits # {} PROVE Min(hits) \in hits
    <2>1. /\ IsFiniteSet(hits) /\ Cardinality(hits) \in Nat
          /\ \A m \in 1 .. Cardinality(hits) :
               \E i \in hits : Cardinality({j \in hits : j <= i}) = m
      BY PlacesAreNumbered DEF IsRules
    <2>2. Cardinality(hits) # 0
      BY <1>1, <2>1, FS_EmptySet
    <2>3. PICK i \in hits : Cardinality({j \in hits : j <= i}) = 1
      <3>1. 1 \in 1 .. Cardinality(hits)
        BY <2>1, <2>2
      <3> QED
        BY <2>1, <3>1
    <2>4. IsFiniteSet({j \in hits : j <= i})
      BY <2>1, FS_Subset
    <2>5. PICK x : {j \in hits : j <= i} = {x}
      BY <2>3, <2>4, FS_Singleton
    <2>6. hits \subseteq Int
      BY DEF IsRules
    <2>7. \A j \in hits : i <= j
      <3>1. i = x
        BY <2>5, <2>6
      <3>2. \A j \in hits : j <= i => j = i
        BY <2>5, <3>1
      <3> QED
        BY <2>6, <3>2
    <2> QED
      BY <2>7 DEF Min
  <1> QED
    BY <1>1, NullAssumption DEF Verdict, Drops, IsRules

\* A name is one row's, or none's.
NamesOne(rows, name) ==
  \E k \in DOMAIN rows : \A m \in DOMAIN rows : rows[m].name = name <=> m = k
NamesNone(rows, name) == \A m \in DOMAIN rows : rows[m].name # name

LEMMA NameOfARow ==
  ASSUME NEW rows, IsTable(rows), NamedApart(rows), NEW r \in ToSet(rows)
  PROVE  NamesOne(rows, r.name) /\ \A q \in ToSet(rows) : q.name = r.name => q = r
  <1>1. PICK k \in DOMAIN rows : rows[k] = r
    BY Tables
  <1>2. \A m \in DOMAIN rows : rows[m].name = r.name <=> m = k
    BY <1>1 DEF NamedApart
  <1> QED
    BY <1>1, <1>2, Tables DEF NamesOne

\* Choosing rows of a table, a name is one row's if its row is chosen and none's otherwise.
LEMMA NamesOfTheSelected ==
  ASSUME NEW rows, IsTable(rows), NamedApart(rows), NEW some, NEW name
  PROVE  IF \E r \in ToSet(rows) \cap some : r.name = name
           THEN NamesOne(Selected(rows, some), name) ELSE NamesNone(Selected(rows, some), name)
  <1> DEFINE z == Selected(rows, some)
  <1>1. IsTable(z) /\ NamedApart(z) /\ ToSet(z) = ToSet(rows) \cap some
    BY SelectedRows
  <1> HIDE DEF z
  <1>2. ASSUME NEW r \in ToSet(z), r.name = name PROVE NamesOne(z, name)
    BY <1>1, <1>2, NameOfARow
  <1>3. ASSUME \A r \in ToSet(z) : r.name # name PROVE NamesNone(z, name)
    BY <1>1, <1>3, Tables DEF NamesNone
  <1>4. IF \E r \in ToSet(rows) \cap some : r.name = name THEN NamesOne(z, name) ELSE NamesNone(z, name)
    BY <1>1, <1>2, <1>3
  <1> QED
    BY <1>4 DEF z

\* One class of rows under the rules of a mapping: a row is kept or has an event, one of the two.
LEMMA KeptOrSkipped ==
  ASSUME NEW rows, IsTable(rows), NamedApart(rows), NEW rules, IsRules(rules), NEW class
  PROVE  /\ IsTable(Kept(rules, rows)) /\ NamedApart(Kept(rules, rows))
         /\ Len(Kept(rules, rows)) <= Len(rows)
         /\ ToSet(Kept(rules, rows)) = {r \in ToSet(rows) : ~Drops(rules, r)}
         /\ IsTable(Skipped(class, rules, rows))
         /\ \A k \in DOMAIN Skipped(class, rules, rows) : Skipped(class, rules, rows)[k].class = class
         /\ \A r \in ToSet(rows) :
              IF Drops(rules, r)
                THEN NamesNone(Kept(rules, rows), r.name) /\ NamesOne(Skipped(class, rules, rows), r.name)
                ELSE NamesOne(Kept(rules, rows), r.name) /\ NamesNone(Skipped(class, rules, rows), r.name)
         /\ \A name : (\A r \in ToSet(rows) : r.name # name) =>
              NamesNone(Kept(rules, rows), name) /\ NamesNone(Skipped(class, rules, rows), name)
  <1> DEFINE keep == {r \in ToSet(rows) : Verdict(rules, r) = None}
             drop == {r \in ToSet(rows) : Verdict(rules, r) # None}
             kept == Selected(rows, keep)
             gone == Selected(rows, drop)
             events == Skipped(class, rules, rows)
  <1>1. Kept(rules, rows) = kept
    BY DEF Kept
  <1>2. events = [i \in DOMAIN gone |-> [class |-> class, name |-> gone[i].name, why |-> Verdict(rules, gone[i])]]
    BY DEF Skipped
  <1>3. \A r \in ToSet(rows) : (r \in keep <=> ~Drops(rules, r)) /\ (r \in drop <=> Drops(rules, r))
    BY VerdictOfARow
  <1> HIDE DEF keep, drop
  <1>4. /\ IsTable(kept) /\ NamedApart(kept) /\ Len(kept) <= Len(rows) /\ ToSet(kept) = ToSet(rows) \cap keep
        /\ IsTable(gone)
    BY SelectedRows
  <1>5. ASSUME NEW name
        PROVE  /\ IF \E r \in ToSet(rows) \cap keep : r.name = name THEN NamesOne(kept, name) ELSE NamesNone(kept, name)
               /\ IF \E r \in ToSet(rows) \cap drop : r.name = name THEN NamesOne(gone, name) ELSE NamesNone(gone, name)
    BY NamesOfTheSelected
  <1> HIDE DEF kept, gone, events
  <1>6. IsTable(events) /\ \A k \in DOMAIN events : events[k].class = class
    <2>1. DOMAIN gone = 1 .. Len(gone) /\ Len(gone) \in Nat
      BY <1>4, Tables
    <2>2. events = [k \in 1 .. Len(gone) |-> events[k]]
      BY <1>2, <2>1
    <2> QED
      BY <1>2, <2>1, <2>2, TableOfRows
  <1>7. ASSUME NEW name
        PROVE  (NamesOne(gone, name) => NamesOne(events, name)) /\ (NamesNone(gone, name) => NamesNone(events, name))
    <2>1. DOMAIN events = DOMAIN gone /\ \A k \in DOMAIN gone : events[k].name = gone[k].name
      BY <1>2
    <2> QED
      BY <2>1 DEF NamesOne, NamesNone
  <1>8. ToSet(kept) = {r \in ToSet(rows) : ~Drops(rules, r)}
    BY <1>3, <1>4
  <1>9. ASSUME NEW r \in ToSet(rows)
        PROVE  IF Drops(rules, r)
                 THEN NamesNone(kept, r.name) /\ NamesOne(events, r.name)
                 ELSE NamesOne(kept, r.name) /\ NamesNone(events, r.name)
    <2>1. \A q \in ToSet(rows) : q.name = r.name => q = r
      BY NameOfARow
    <2>2. CASE Drops(rules, r)
      BY <1>3, <1>5, <1>7, <2>1, <2>2
    <2>3. CASE ~Drops(rules, r)
      BY <1>3, <1>5, <1>7, <2>1, <2>3
    <2> QED
      BY <2>2, <2>3
  <1>10. ASSUME NEW name, \A r \in ToSet(rows) : r.name # name
         PROVE  NamesNone(kept, name) /\ NamesNone(events, name)
    BY <1>5, <1>7, <1>10
  <1> QED
    BY <1>1, <1>4, <1>6, <1>8, <1>9, <1>10 DEF events

(* ------------------------------- the parts ------------------------------ *)

\* The part that runs after each.
Follows ==
  [stage |-> "validate", validate |-> "buses", buses |-> "prices", prices |-> "loads",
   loads |-> "generators", generators |-> "ThermalStandard",
   ThermalStandard |-> "RenewableDispatch", RenewableDispatch |-> "RenewableNonDispatch",
   RenewableNonDispatch |-> "storage_units", storage_units |-> "HydroDispatch",
   HydroDispatch |-> "EnergyReservoirStorage", EnergyReservoirStorage |-> "lines",
   lines |-> "links", links |-> "areas", areas |-> "arcs", arcs |-> "resolve",
   resolve |-> "store", store |-> "written"]

LEMMA PartsFollow ==
  ASSUME NEW part \in DOMAIN Follows, Goto(part)
  PROVE  step = part /\ step' = Follows[part]
  <1> DEFINE place == CHOOSE i \in DOMAIN Parts : Parts[i] = part
  <1>1. DOMAIN Parts = 1 .. 19
    BY DEF Parts
  <1>2. \E i \in 1 .. 18 : Parts[i] = part /\ Parts[i + 1] = Follows[part]
    BY DEF Parts, Follows
  <1>3. \A i, j \in 1 .. 19 : Parts[i] = Parts[j] => i = j
    BY DEF Parts
  <1>4. place \in 1 .. 18 /\ Parts[1 + place] = Follows[part]
    BY <1>1, <1>2, <1>3
  <1> QED
    BY <1>4 DEF Goto

\* The steps at which the part of a class has still to run.
BeforeBuses == {"stage", "validate", "refused", "buses"}
BeforeLoads == BeforeBuses \cup {"prices", "loads"}
BeforeGenerators == BeforeLoads \cup {"generators"}
BeforeUnits == BeforeGenerators \cup GeneratorTypes \cup {"storage_units"}
BeforeLines == BeforeUnits \cup {"HydroDispatch", "EnergyReservoirStorage", "lines"}
BeforeLinks == BeforeLines \cup {"links"}

Before ==
  [buses |-> BeforeBuses, loads |-> BeforeLoads, generators |-> BeforeGenerators,
   storage_units |-> BeforeUnits, lines |-> BeforeLines, links |-> BeforeLinks]

\* And those at which the rows in scope have been read and a type has still to be mapped.
Ahead ==
  [ThermalStandard |-> {"ThermalStandard"},
   RenewableDispatch |-> {"ThermalStandard", "RenewableDispatch"},
   RenewableNonDispatch |-> GeneratorTypes,
   HydroDispatch |-> {"HydroDispatch"},
   EnergyReservoirStorage |-> {"HydroDispatch", "EnergyReservoirStorage"}]

PlantTypes(class) == IF class \in {"generators", "storage_units"} THEN TypesOf(class) ELSE {}

\* Whether a type's table has still to be written.
IsAhead(class, type) ==
  step \in Before[class] \/ (type \in PlantTypes(class) /\ step \in Ahead[type])

\* Whether a row of the network has still to be decided.
Undecided(class, r) ==
  \/ step \in Before[class]
  \/ r \in ToSet(scope) /\ \E type \in PlantTypes(class) : TypeOf[r.carrier] = type /\ step \in Ahead[type]

(* -------------------------------- fates --------------------------------- *)

RowsOf(class, name) ==
  {p \in ClassTypes(class) \X Nat : p[2] \in DOMAIN TableOf(p[1]) /\ TableOf(p[1])[p[2]].name = name}
EventsOf(class, name) == {i \in DOMAIN skips : skips[i].class = class /\ skips[i].name = name}

Untouched(class, name) == RowsOf(class, name) = {} /\ EventsOf(class, name) = {}
Settled(class, name) ==
  \/ /\ EventsOf(class, name) = {}
     /\ \E type \in ClassTypes(class) : \E i \in 1 .. Len(network[class]) : RowsOf(class, name) = {<<type, i>>}
  \/ RowsOf(class, name) = {} /\ \E i : EventsOf(class, name) = {i}

\* What a sequence of events says of a name of a class.
NoEvent(events, class, name) == \A k \in DOMAIN events : ~ (events[k].class = class /\ events[k].name = name)
OneEvent(events, class, name) ==
  \E k \in DOMAIN events : \A m \in DOMAIN events : events[m].class = class /\ events[m].name = name <=> m = k

LEMMA Joined ==
  ASSUME NEW x, IsTable(x), NEW y, IsTable(y), NEW xy, xy = x \o y
  PROVE  /\ IsTable(xy) /\ Len(xy) = Len(x) + Len(y)
         /\ \A i \in DOMAIN x : i \in DOMAIN xy /\ xy[i] = x[i]
         /\ \A i \in DOMAIN y : Len(x) + i \in DOMAIN xy /\ xy[Len(x) + i] = y[i]
         /\ \A i \in DOMAIN xy : i \in DOMAIN x \/ (i - Len(x) \in DOMAIN y /\ i = Len(x) + (i - Len(x)))
  <1>1. /\ Len(x) \in Nat /\ DOMAIN x = 1 .. Len(x)
        /\ Len(y) \in Nat /\ DOMAIN y = 1 .. Len(y)
    BY Tables
  <1> DEFINE S == ToSet(x) \cup ToSet(y)
  <1>2. /\ xy \in Seq(S) /\ Len(xy) = Len(x) + Len(y) /\ DOMAIN xy = 1 .. Len(x) + Len(y)
        /\ \A i \in 1 .. Len(x) + Len(y) : xy[i] = IF i <= Len(x) THEN x[i] ELSE y[i - Len(x)]
    <2>1. x \in Seq(S) /\ y \in Seq(S)
      BY DEF IsTable
    <2>2. /\ xy \in Seq(S) /\ Len(xy) = Len(x) + Len(y)
          /\ \A i \in 1 .. Len(x) + Len(y) : xy[i] = IF i <= Len(x) THEN x[i] ELSE y[i - Len(x)]
      BY <2>1, ConcatProperties
    <2> HIDE DEF S
    <2> QED
      BY <2>2
  <1> HIDE DEF S
  <1>3. IsTable(xy)
    BY <1>2, SequencesAreTables
  <1>4. \A i \in DOMAIN y : i \in Nat /\ Len(x) + i \in 1 .. Len(x) + Len(y) /\ ~ Len(x) + i <= Len(x)
                             /\ Len(x) + i - Len(x) = i
    BY <1>1
  <1>5. ASSUME NEW i \in 1 .. Len(x) + Len(y), i \notin 1 .. Len(x)
        PROVE  i - Len(x) \in 1 .. Len(y) /\ i = Len(x) + (i - Len(x))
    BY <1>1, <1>5
  <1>6. ASSUME NEW i \in DOMAIN x PROVE i \in DOMAIN xy /\ xy[i] = x[i]
    BY <1>1, <1>2
  <1>7. ASSUME NEW i \in DOMAIN y PROVE Len(x) + i \in DOMAIN xy /\ xy[Len(x) + i] = y[i]
    <2>1. Len(x) + i \in 1 .. Len(x) + Len(y) /\ ~ Len(x) + i <= Len(x) /\ Len(x) + i - Len(x) = i
      BY <1>4
    <2> QED
      BY <1>2, <2>1
  <1>8. ASSUME NEW i \in DOMAIN xy PROVE i \in DOMAIN x \/ (i - Len(x) \in DOMAIN y /\ i = Len(x) + (i - Len(x)))
    BY <1>1, <1>2, <1>5
  <1> QED
    BY <1>2, <1>3, <1>6, <1>7, <1>8

\* Events appended to those there are.
LEMMA EventsJoined ==
  ASSUME IsTable(skips), NEW new, IsTable(new), skips' = skips \o new, NEW class, NEW name
  PROVE  /\ IsTable(skips')
         /\ NoEvent(new, class, name) => EventsOf(class, name)' = EventsOf(class, name)
         /\ OneEvent(new, class, name) /\ EventsOf(class, name) = {} => \E i : EventsOf(class, name)' = {i}
  <1>1. /\ IsTable(skips')
        /\ \A i \in DOMAIN skips : i \in DOMAIN skips' /\ skips'[i] = skips[i]
        /\ \A i \in DOMAIN new : Len(skips) + i \in DOMAIN skips' /\ skips'[Len(skips) + i] = new[i]
        /\ \A i \in DOMAIN skips' : i \in DOMAIN skips \/ \E k \in DOMAIN new : i = Len(skips) + k
    <2>1. IsTable(skips')
      BY Joined
    <2>2. \A i \in DOMAIN skips : i \in DOMAIN skips' /\ skips'[i] = skips[i]
      BY Joined
    <2>3. \A i \in DOMAIN new : Len(skips) + i \in DOMAIN skips' /\ skips'[Len(skips) + i] = new[i]
      BY Joined
    <2>4. ASSUME NEW i \in DOMAIN skips', i \notin DOMAIN skips 
          PROVE  i - Len(skips) \in DOMAIN new /\ i = Len(skips) + (i - Len(skips))
      BY <2>4, Joined
    <2> QED
      BY <2>1, <2>2, <2>3, <2>4
  <1>2. EventsOf(class, name)' = {i \in DOMAIN skips' : skips'[i].class = class /\ skips'[i].name = name}
    BY DEF EventsOf
  <1>3. ASSUME NoEvent(new, class, name) PROVE EventsOf(class, name)' = EventsOf(class, name)
    BY <1>1, <1>2, <1>3 DEF EventsOf, NoEvent
  <1>4. ASSUME OneEvent(new, class, name), EventsOf(class, name) = {} PROVE \E i : EventsOf(class, name)' = {i}
    <2>1. PICK k \in DOMAIN new :
            \A m \in DOMAIN new : new[m].class = class /\ new[m].name = name <=> m = k
      BY <1>4 DEF OneEvent
    <2>2. ASSUME NEW i PROVE i \in EventsOf(class, name)' <=> i = Len(skips) + k
      <3>1. i \in DOMAIN skips => ~ (skips'[i].class = class /\ skips'[i].name = name)
        BY <1>1, <1>4 DEF EventsOf
      <3>2. Len(skips) + k \in EventsOf(class, name)'
        BY <1>1, <1>2, <2>1
      <3>3. ASSUME i \in EventsOf(class, name)' PROVE i = Len(skips) + k
        BY <1>1, <1>2, <2>1, <3>1, <3>3
      <3> QED
        BY <3>2, <3>3
    <2>3. EventsOf(class, name)' = {Len(skips) + k}
      BY <2>2
    <2> QED
      BY <2>3
  <1> QED
    BY <1>1, <1>3, <1>4

\* One class of rows, some types of which get their tables: K states the rows of each, and new
\* the events of those left out.
LEMMA ATreatedClass ==
  ASSUME NEW class, NEW T \in SUBSET ClassTypes(class), NEW K,
         IsTable(skips), NEW new, IsTable(new), skips' = skips \o new,
         \A type \in T : /\ IsTable(K[type]) /\ Len(K[type]) <= Len(network[class])
                         /\ TableOf(type) = <<>> /\ DOMAIN TableOf(type)' = DOMAIN K[type]
                         /\ \A k \in DOMAIN K[type] : TableOf(type)'[k].name = K[type][k].name,
         \A type \in ClassTypes(class) \ T : TableOf(type)' = TableOf(type),
         network' = network, Len(network[class]) \in Nat, NEW name
  PROVE  /\ (\A type \in T : NamesNone(K[type], name)) /\ NoEvent(new, class, name)
              => (Untouched(class, name) => Untouched(class, name)') /\ (Settled(class, name) => Settled(class, name)')
         /\ Untouched(class, name) /\ (\A type \in T : NamesNone(K[type], name)) /\ OneEvent(new, class, name)
              => Settled(class, name)'
         /\ Untouched(class, name) /\ NoEvent(new, class, name)
              /\ (\E type \in T : NamesOne(K[type], name) /\ \A other \in T \ {type} : NamesNone(K[other], name))
              => Settled(class, name)'
  <1>1. RowsOf(class, name)' =
          {p \in ClassTypes(class) \X Nat : p[2] \in DOMAIN TableOf(p[1])' /\ TableOf(p[1])'[p[2]].name = name}
    BY DEF RowsOf, ClassTypes, TypesOf, LoadTypes, GeneratorTypes, StorageTypes
  <1>2. ASSUME NEW type \in ClassTypes(class) \ T, NEW i
        PROVE  <<type, i>> \in RowsOf(class, name)' <=> <<type, i>> \in RowsOf(class, name)
    BY <1>1, <1>2 DEF RowsOf
  <1>3. ASSUME NEW type \in T, NEW i
        PROVE  /\ <<type, i>> \notin RowsOf(class, name)
               /\ <<type, i>> \in RowsOf(class, name)' <=> i \in DOMAIN K[type] /\ K[type][i].name = name
    <2>1. DOMAIN K[type] \subseteq Nat
      BY Tables
    <2>2. DOMAIN TableOf(type) = {}
      OBVIOUS
    <2> QED
      BY <1>1, <2>1, <2>2 DEF RowsOf
  <1>4. /\ RowsOf(class, name) \subseteq ClassTypes(class) \X Nat
        /\ RowsOf(class, name)' \subseteq ClassTypes(class) \X Nat
    BY <1>1 DEF RowsOf
  <1>5. ASSUME \A type \in T : NamesNone(K[type], name) PROVE RowsOf(class, name)' = RowsOf(class, name)
    <2>1. \A type \in ClassTypes(class), i \in Nat :
            <<type, i>> \in RowsOf(class, name)' <=> <<type, i>> \in RowsOf(class, name)
      <3>1. ASSUME NEW type \in ClassTypes(class), NEW i \in Nat
            PROVE  <<type, i>> \in RowsOf(class, name)' <=> <<type, i>> \in RowsOf(class, name)
        <4>1. CASE type \in T
          BY <1>3, <1>5, <4>1 DEF NamesNone
        <4>2. CASE type \notin T
          BY <1>2, <4>2
        <4> QED
          BY <4>1, <4>2
      <3> QED
        BY <3>1
    <2>2. \A p : p \in ClassTypes(class) \X Nat => p = <<p[1], p[2]>> /\ p[1] \in ClassTypes(class) /\ p[2] \in Nat
      OBVIOUS
    <2>3. ASSUME NEW p PROVE p \in RowsOf(class, name)' <=> p \in RowsOf(class, name)
      BY <1>4, <2>1, <2>2
    <2> QED
      BY <2>3
  <1>6. ASSUME RowsOf(class, name) = {}, NEW type \in T, NamesOne(K[type], name),
               \A other \in T \ {type} : NamesNone(K[other], name)
        PROVE  \E i \in 1 .. Len(network[class]) : RowsOf(class, name)' = {<<type, i>>}
    <2>1. PICK k \in DOMAIN K[type] : \A m \in DOMAIN K[type] : K[type][m].name = name <=> m = k
      BY <1>6 DEF NamesOne
    <2>2. k \in 1 .. Len(network[class]) /\ k \in Nat
      BY Tables
    <2>3. ASSUME NEW u \in ClassTypes(class), NEW i \in Nat
          PROVE  <<u, i>> \in RowsOf(class, name)' <=> u = type /\ i = k
      <3>1. CASE u = type
        BY <1>3, <2>1, <3>1
      <3>2. CASE u \in T /\ u # type
        BY <1>3, <1>6, <3>2 DEF NamesNone
      <3>3. CASE u \notin T
        BY <1>2, <1>6, <3>3
      <3> QED
        BY <3>1, <3>2, <3>3
    <2>4. \A p \in ClassTypes(class) \X Nat : p \in RowsOf(class, name)' <=> p = <<type, k>>
      BY <2>3
    <2>5. <<type, k>> \in ClassTypes(class) \X Nat
      BY <2>2
    <2> QED
      BY <1>4, <2>2, <2>4, <2>5
  <1>7. /\ NoEvent(new, class, name) => EventsOf(class, name)' = EventsOf(class, name)
        /\ OneEvent(new, class, name) /\ EventsOf(class, name) = {} => \E i : EventsOf(class, name)' = {i}
    BY EventsJoined
  <1>8. /\ Untouched(class, name)' <=> RowsOf(class, name)' = {} /\ EventsOf(class, name)' = {}
        /\ Settled(class, name)' <=>
             \/ /\ EventsOf(class, name)' = {}
                /\ \E type \in ClassTypes(class) : \E i \in 1 .. Len(network[class]) : RowsOf(class, name)' = {<<type, i>>}
             \/ RowsOf(class, name)' = {} /\ \E i : EventsOf(class, name)' = {i}
    BY DEF Untouched, Settled, ClassTypes, TypesOf, LoadTypes, GeneratorTypes, StorageTypes
  <1> QED
    BY <1>5, <1>6, <1>7, <1>8 DEF Untouched, Settled

(* ------------------------------ the invariant --------------------------- *)

Unmapped == {"stage", "validate", "refused"}

\* Where the leg is, the tables it has written, and what a validated network is.
Layout ==
  /\ step \in DOMAIN Follows \cup {"written", "refused", "failed"}
  /\ \A class \in Classes : IsTable(network[class])
  /\ Classes \subseteq DOMAIN network
  /\ network.buses = <<>> => network.lines = <<>> /\ network.links = <<>>
  /\ IsTable(skips)
  /\ step \in Unmapped => DOMAIN tables = {} /\ skips = <<>>
  /\ step \notin Unmapped => \A class \in Classes : NamedApart(network[class])
  /\ \A class \in Classes : \A type \in ClassTypes(class) : IsAhead(class, type) => type \notin DOMAIN tables
  /\ step \notin BeforeBuses /\ network.buses # <<>> => "ACBus" \in DOMAIN tables

\* While the types of a class of plants are mapped one by one, what is in scope is of them.
Scoped ==
  \A class \in {"generators", "storage_units"} :
    (\E type \in PlantTypes(class) : step \in Ahead[type]) =>
      /\ IsTable(scope) /\ NamedApart(scope)
      /\ Len(scope) <= Len(network[class]) /\ ToSet(scope) \subseteq ToSet(network[class])
      /\ \A r \in ToSet(scope) : TypeOf[r.carrier] \in TypesOf(class)

\* A row of a class has its fate once it is decided, and none before.
SettledClass(class) ==
  \A r \in ToSet(network[class]) :
    IF Undecided(class, r) THEN Untouched(class, r.name) ELSE Settled(class, r.name)

Fated == Layout /\ Scoped /\ \A class \in Classes : SettledClass(class)

LEMMA PutWrites ==
  ASSUME NEW type, NEW rows, Put(type, rows)
  PROVE  /\ TableOf(type)' = rows /\ \A other : other # type => TableOf(other)' = TableOf(other)
         /\ DOMAIN tables' = DOMAIN tables \cup {type}
  BY DEF Put, TableOf

LEMMA SkippedOfAClass ==
  ASSUME NEW rules, NEW rows, NEW class, NEW other, NEW name,
         \A k \in DOMAIN Skipped(class, rules, rows) : Skipped(class, rules, rows)[k].class = class
  PROVE  /\ NamesOne(Skipped(class, rules, rows), name) => OneEvent(Skipped(class, rules, rows), class, name)
         /\ NamesNone(Skipped(class, rules, rows), name) => NoEvent(Skipped(class, rules, rows), class, name)
         /\ other # class => NoEvent(Skipped(class, rules, rows), other, name)
  BY DEF NamesOne, NamesNone, OneEvent, NoEvent

\* A part leaves another class as it was.
LEMMA ClassIsKept ==
  ASSUME NEW class \in Classes, SettledClass(class), IsTable(skips), IsTable(network[class]),
         NEW new, IsTable(new), skips' = skips \o new, \A name : NoEvent(new, class, name),
         \A type \in ClassTypes(class) : TableOf(type)' = TableOf(type), network' = network,
         \A r \in ToSet(network[class]) : Undecided(class, r)' <=> Undecided(class, r)
  PROVE  SettledClass(class)'
  <1>1. Len(network[class]) \in Nat
    BY Tables
  <1>2. ASSUME NEW name
        PROVE  (Untouched(class, name) => Untouched(class, name)') /\ (Settled(class, name) => Settled(class, name)')
    <2> DEFINE T == {}
               K == <<>>
    <2>1. T \in SUBSET ClassTypes(class) /\ \A type : type \notin T
      OBVIOUS
    <2> HIDE DEF T, K
    <2>2. NoEvent(new, class, name)
      OBVIOUS
    <2>3. /\ \A type \in T : NamesNone(K[type], name)
          /\ \A type \in T : /\ IsTable(K[type]) /\ Len(K[type]) <= Len(network[class])
                             /\ TableOf(type) = <<>> /\ DOMAIN TableOf(type)' = DOMAIN K[type]
                             /\ \A k \in DOMAIN K[type] : TableOf(type)'[k].name = K[type][k].name
          /\ \A type \in ClassTypes(class) \ T : TableOf(type)' = TableOf(type)
      BY <2>1
    <2> QED
      BY <1>1, <2>1, <2>2, <2>3, ATreatedClass
  <1>3. ASSUME NEW r \in ToSet(network[class])
        PROVE  IF Undecided(class, r)' THEN Untouched(class, r.name)' ELSE Settled(class, r.name)'
    BY <1>2 DEF SettledClass
  <1> QED
    BY <1>3 DEF SettledClass

\* A part that maps a whole table writes a row or an event for each row of it.
LEMMA ClassIsMapped ==
  ASSUME NEW class \in Classes, NEW type, ClassTypes(class) = {type}, PlantTypes(class) = {},
         SettledClass(class), IsTable(skips), IsTable(network[class]), NamedApart(network[class]),
         step \in Before[class], step' \notin Before[class], type \notin DOMAIN tables,
         NEW rules, IsRules(rules), skips' = skips \o Skipped(class, rules, network[class]), network' = network,
         DOMAIN TableOf(type)' = DOMAIN Kept(rules, network[class]),
         \A k \in DOMAIN Kept(rules, network[class]) :
           TableOf(type)'[k].name = Kept(rules, network[class])[k].name
  PROVE  SettledClass(class)'
  <1> DEFINE rows == network[class]
             kept == Kept(rules, rows)
             new == Skipped(class, rules, rows)
             T == {type}
             K == [t \in T |-> kept]
  <1>1. /\ IsTable(kept) /\ Len(kept) <= Len(rows) /\ IsTable(new)
        /\ \A k \in DOMAIN new : new[k].class = class
        /\ \A r \in ToSet(rows) :
             IF Drops(rules, r)
               THEN NamesNone(kept, r.name) /\ NamesOne(new, r.name)
               ELSE NamesOne(kept, r.name) /\ NamesNone(new, r.name)
    BY KeptOrSkipped
  <1>2. Len(rows) \in Nat
    BY Tables
  <1>3. ASSUME NEW name
        PROVE  (NamesOne(new, name) => OneEvent(new, class, name)) /\ (NamesNone(new, name) => NoEvent(new, class, name))
    BY <1>1, SkippedOfAClass
  <1>4. TableOf(type) = <<>>
    BY DEF TableOf
  <1>5. T \in SUBSET ClassTypes(class) /\ K[type] = kept /\ \A t \in T : t = type
    OBVIOUS
  <1> HIDE DEF T, K, kept, new
  <1>6. /\ \A t \in T : /\ IsTable(K[t]) /\ Len(K[t]) <= Len(rows)
                        /\ TableOf(t) = <<>> /\ DOMAIN TableOf(t)' = DOMAIN K[t]
                        /\ \A k \in DOMAIN K[t] : TableOf(t)'[k].name = K[t][k].name
        /\ \A t \in ClassTypes(class) \ T : TableOf(t)' = TableOf(t)
    BY <1>1, <1>4, <1>5 DEF T, kept
  <1>7. ASSUME NEW r \in ToSet(rows) PROVE Settled(class, r.name)'
    <2>1. Untouched(class, r.name)
      BY DEF SettledClass, Undecided
    <2>2. CASE Drops(rules, r)
      <3>1. (\A t \in T : NamesNone(K[t], r.name)) /\ OneEvent(new, class, r.name)
        BY <1>1, <1>3, <1>5, <2>2
      <3> QED
        BY <1>1, <1>2, <1>5, <1>6, <2>1, <3>1, ATreatedClass DEF new
    <2>3. CASE ~Drops(rules, r)
      <3>1. /\ NoEvent(new, class, r.name)
            /\ \E t \in T : NamesOne(K[t], r.name) /\ \A other \in T \ {t} : NamesNone(K[other], r.name)
        BY <1>1, <1>3, <1>5, <2>3 DEF T
      <3> QED
        BY <1>1, <1>2, <1>5, <1>6, <2>1, <3>1, ATreatedClass DEF new
    <2> QED
      BY <2>2, <2>3
  <1>8. \A r : ~Undecided(class, r)'
    BY DEF Undecided, PlantTypes
  <1> QED
    BY <1>7, <1>8 DEF SettledClass

\* Of a table some rows of which are chosen.
LEMMA ChosenByName ==
  ASSUME NEW rows, IsTable(rows), NamedApart(rows), NEW some
  PROVE  /\ \A r \in ToSet(rows) :
              IF r \in some THEN NamesOne(Selected(rows, some), r.name) ELSE NamesNone(Selected(rows, some), r.name)
         /\ \A name : (\A r \in ToSet(rows) : r.name # name) => NamesNone(Selected(rows, some), name)
  <1>1. ASSUME NEW name
        PROVE  IF \E r \in ToSet(rows) \cap some : r.name = name
                 THEN NamesOne(Selected(rows, some), name) ELSE NamesNone(Selected(rows, some), name)
    BY NamesOfTheSelected
  <1>2. ASSUME NEW r \in ToSet(rows)
        PROVE  IF r \in some THEN NamesOne(Selected(rows, some), r.name) ELSE NamesNone(Selected(rows, some), r.name)
    <2>1. \A q \in ToSet(rows) : q.name = r.name => q = r
      BY NameOfARow
    <2>2. CASE r \in some
      BY <1>1, <2>2
    <2>3. CASE r \notin some
      BY <1>1, <2>1, <2>3
    <2> QED
      BY <2>2, <2>3
  <1>3. ASSUME NEW name, \A r \in ToSet(rows) : r.name # name PROVE NamesNone(Selected(rows, some), name)
    BY <1>1, <1>3
  <1> QED
    BY <1>2, <1>3

\* Rules written out one by one.
LEMMA ARule ==
  ASSUME NEW why \in Reasons, NEW drops
  PROVE  Rule(why, drops).why \in Reasons /\ Rule(why, drops).drops = drops
  BY DEF Rule

LEMMA OneRule ==
  ASSUME NEW a, a.why \in Reasons, NEW rules, rules = <<a>>
  PROVE  IsTable(rules) /\ IsRules(rules)
  <1>1. Len(rules) = 1 /\ DOMAIN rules = 1 .. 1 /\ rules[1] = a
    OBVIOUS
  <1>2. rules = [i \in 1 .. 1 |-> rules[i]]
    OBVIOUS
  <1>3. \A i \in 1 .. 1 : i = 1
    OBVIOUS
  <1> QED
    BY <1>1, <1>2, <1>3, TableOfRows DEF IsRules

LEMMA ThreeRules ==
  ASSUME NEW a, NEW b, NEW c, a.why \in Reasons, b.why \in Reasons, c.why \in Reasons,
         NEW rules, rules = <<a, b, c>>
  PROVE  IsRules(rules)
  <1>1. Len(rules) = 3 /\ DOMAIN rules = 1 .. 3 /\ rules[1] = a /\ rules[2] = b /\ rules[3] = c
    OBVIOUS
  <1>2. \A i \in 1 .. 3 : i = 1 \/ i = 2 \/ i = 3
    OBVIOUS
  <1> QED
    BY <1>1, <1>2 DEF IsRules

LEMMA FiveRules ==
  ASSUME NEW a, NEW b, NEW c, NEW d, NEW e, a.why \in Reasons, b.why \in Reasons, c.why \in Reasons,
         d.why \in Reasons, e.why \in Reasons, NEW rules, rules = <<a, b, c, d, e>>
  PROVE  IsTable(rules) /\ IsRules(rules) /\ DOMAIN rules = 1 .. 5 /\ rules[1] = a /\ rules[2] = b
  <1>1. /\ Len(rules) = 5 /\ DOMAIN rules = 1 .. 5
        /\ rules[1] = a /\ rules[2] = b /\ rules[3] = c /\ rules[4] = d /\ rules[5] = e
    OBVIOUS
  <1>2. rules = [i \in 1 .. 5 |-> rules[i]]
    OBVIOUS
  <1>3. \A i \in 1 .. 5 : i = 1 \/ i = 2 \/ i = 3 \/ i = 4 \/ i = 5
    OBVIOUS
  <1> QED
    BY <1>1, <1>2, <1>3, TableOfRows DEF IsRules

LEMMA RulesJoined ==
  ASSUME NEW x, IsTable(x), IsRules(x), NEW y, IsTable(y), IsRules(y), NEW rules, rules = x \o y
  PROVE  IsRules(rules) /\ \A r : Drops(y, r) => Drops(rules, r)
  <1>1. IsTable(rules)
    BY Joined
  <1>2. \A i \in DOMAIN x : rules[i] = x[i]
    BY Joined
  <1>3. \A i \in DOMAIN y : Len(x) + i \in DOMAIN rules /\ rules[Len(x) + i] = y[i]
    BY Joined
  <1>4. ASSUME NEW i \in DOMAIN rules, i \notin DOMAIN x
        PROVE  i - Len(x) \in DOMAIN y /\ i = Len(x) + (i - Len(x))
    BY <1>4, Joined
  <1>5. ASSUME NEW i \in DOMAIN rules PROVE rules[i].why \in Reasons
    <2>1. CASE i \in DOMAIN x
      BY <1>2, <2>1 DEF IsRules
    <2>2. CASE i \notin DOMAIN x
      <3>1. i - Len(x) \in DOMAIN y /\ i = Len(x) + (i - Len(x))
        BY <1>4, <2>2
      <3>2. rules[i] = y[i - Len(x)]
        BY <1>3, <3>1
      <3> QED
        BY <3>1, <3>2 DEF IsRules
    <2> QED
      BY <2>1, <2>2
  <1>6. ASSUME NEW r, Drops(y, r) PROVE Drops(rules, r)
    BY <1>3, <1>6 DEF Drops
  <1> QED
    BY <1>1, <1>5, <1>6, Tables DEF IsRules

\* The rules a source table is read under, and what they leave.
LEMMA RulesOfAScope ==
  ASSUME NEW class \in {"generators", "storage_units"}, NEW rows
  PROVE  /\ IsRules(ScopeRules(class, rows))
         /\ \A r \in ToSet(rows) : ~Drops(ScopeRules(class, rows), r) =>
              r.carrier \in DOMAIN TypeOf /\ TypeOf[r.carrier] \in TypesOf(class)
  <1> DEFINE own == Rule("load shedding", OwnRows(rows))
             first == IF class = "generators" THEN <<own>> ELSE <<>>
             unnamed == {r \in ToSet(rows) : r.carrier \notin DOMAIN TypeOf}
             a == Rule("unnamed carrier", unnamed)
             b == Rule("unsupported", Unsupported(class, rows))
             c == Rule("bus scope", OffTheAcBuses(rows))
             d == Rule("unbuilt candidate", UnbuiltCandidates(rows))
             e == Rule("rejected build", RejectedBuilds(rows))
             rest == <<a, b, c, d, e>>
             rules == ScopeRules(class, rows)
  <1>1. rules = first \o rest
    BY DEF ScopeRules
  <1>2. /\ a.why \in Reasons /\ b.why \in Reasons /\ c.why \in Reasons /\ d.why \in Reasons
        /\ e.why \in Reasons /\ own.why \in Reasons
        /\ a.drops = unnamed /\ b.drops = Unsupported(class, rows)
    BY DEF Rule, Reasons
  <1> HIDE DEF own, a, b, c, d, e, unnamed, rules
  <1>3. IsTable(rest) /\ IsRules(rest) /\ DOMAIN rest = 1 .. 5 /\ rest[1] = a /\ rest[2] = b
    BY <1>2, FiveRules
  <1>4. IsTable(first) /\ IsRules(first)
    <2>1. IsTable(<<own>>) /\ IsRules(<<own>>)
      BY <1>2, OneRule
    <2>2. IsTable(<<>>) /\ IsRules(<<>>)
      BY DEF IsTable, IsRules
    <2> QED
      BY <2>1, <2>2
  <1> HIDE DEF first, rest
  <1>5. IsRules(rules) /\ \A r : Drops(rest, r) => Drops(rules, r)
    BY <1>1, <1>3, <1>4, RulesJoined
  <1>6. ASSUME NEW r \in ToSet(rows), ~Drops(rules, r)
        PROVE  r.carrier \in DOMAIN TypeOf /\ TypeOf[r.carrier] \in TypesOf(class)
    <2>1. 1 \in DOMAIN rest /\ 2 \in DOMAIN rest
      BY <1>3
    <2>2. r \notin a.drops /\ r \notin b.drops
      BY <1>3, <1>5, <1>6, <2>1 DEF Drops
    <2>3. r \notin unnamed /\ r \notin Unsupported(class, rows)
      BY <1>2, <2>2
    <2> QED
      BY <2>3 DEF Unsupported, unnamed
  <1> QED
    BY <1>5, <1>6 DEF rules

LEMMA RulesOfAMapping ==
  ASSUME NEW type, NEW rows
  PROVE  IsRules(MappingRules(type, rows))
  <1>1. CASE type = "HydroDispatch"
    <2> DEFINE a == Rule("no inflow", {r \in ToSet(rows) : ~Has(Inflow, r.name)})
               b == Rule("no capacity", {r \in ToSet(rows) : EffectivePNom(r) <= 0})
               c == Rule("no efficiency", {r \in ToSet(rows) : r.efficiency <= 0})
    <2>1. MappingRules(type, rows) = <<a, b, c>>
      BY <1>1 DEF MappingRules
    <2>2. a.why \in Reasons /\ b.why \in Reasons /\ c.why \in Reasons
      BY DEF Rule, Reasons
    <2> HIDE DEF a, b, c
    <2> QED
      BY <2>1, <2>2, ThreeRules
  <1>2. CASE type = "EnergyReservoirStorage"
    <2> DEFINE a == Rule("no energy", {r \in ToSet(rows) : r.hours <= 0})
    <2>1. MappingRules(type, rows) = <<a>>
      BY <1>2 DEF MappingRules
    <2>2. a.why \in Reasons
      BY DEF Rule, Reasons
    <2> HIDE DEF a
    <2> QED
      BY <2>1, <2>2, OneRule
  <1>3. CASE type \notin {"HydroDispatch", "EnergyReservoirStorage"}
    <2>1. MappingRules(type, rows) = <<>>
      BY <1>3 DEF MappingRules
    <2> QED
      BY <2>1 DEF IsRules
  <1> QED
    BY <1>1, <1>2, <1>3

LEMMA RulesOfATable ==
  /\ \A why \in Reasons : \A drops : IsRules(<<Rule(why, drops)>>)
  /\ IsRules(LineRules) /\ IsRules(LinkRules)
  <1>1. ASSUME NEW why \in Reasons, NEW drops PROVE IsRules(<<Rule(why, drops)>>)
    BY ARule, OneRule
  <1>2. IsRules(LineRules)
    <2> DEFINE a == Rule("dynamic rating", DynamicallyRated(network.lines))
    <2>1. LineRules = <<a>>
      BY DEF LineRules
    <2>2. a.why \in Reasons
      BY DEF Rule, Reasons
    <2> HIDE DEF a
    <2> QED
      BY <2>1, <2>2, OneRule
  <1>3. IsRules(LinkRules)
    <2> DEFINE a == Rule("link scope", {r \in ToSet(network.links) :
                          r.multiport \/ ~({r.bus0, r.bus1} \subseteq AcBusNames)})
               b == Rule("unbuilt candidate", UnbuiltCandidates(network.links))
               c == Rule("rejected build", RejectedBuilds(network.links))
    <2>1. LinkRules = <<a, b, c>>
      BY DEF LinkRules
    <2>2. a.why \in Reasons /\ b.why \in Reasons /\ c.why \in Reasons
      BY DEF Rule, Reasons
    <2> HIDE DEF a, b, c
    <2> QED
      BY <2>1, <2>2, ThreeRules
  <1> QED
    BY <1>1, <1>2, <1>3

(* ------------------------------ going on -------------------------------- *)

LEMMA NothingJoined ==
  ASSUME NEW x, IsTable(x)
  PROVE  x = x \o <<>> /\ IsTable(<<>>)
  <1>1. x \o <<>> = x
    BY ConcatEmptySeq DEF IsTable
  <1> QED
    BY <1>1 DEF IsTable

\* The parts one by one.
LEMMA OnePart ==
  /\ DOMAIN Follows = {"stage", "validate", "buses", "prices", "loads", "generators",
       "ThermalStandard", "RenewableDispatch", "RenewableNonDispatch", "storage_units",
       "HydroDispatch", "EnergyReservoirStorage", "lines", "links", "areas", "arcs", "resolve", "store"}
  /\ Follows["stage"] = "validate" /\ Follows["validate"] = "buses" /\ Follows["buses"] = "prices"
  /\ Follows["prices"] = "loads" /\ Follows["loads"] = "generators"
  /\ Follows["generators"] = "ThermalStandard" /\ Follows["ThermalStandard"] = "RenewableDispatch"
  /\ Follows["RenewableDispatch"] = "RenewableNonDispatch"
  /\ Follows["RenewableNonDispatch"] = "storage_units"
  /\ Follows["storage_units"] = "HydroDispatch"
  /\ Follows["HydroDispatch"] = "EnergyReservoirStorage"
  /\ Follows["EnergyReservoirStorage"] = "lines" /\ Follows["lines"] = "links"
  /\ Follows["links"] = "areas" /\ Follows["areas"] = "arcs" /\ Follows["arcs"] = "resolve"
  /\ Follows["resolve"] = "store" /\ Follows["store"] = "written"
  BY DEF Follows

\* The steps before a class come to an end with its own part, and none comes back to them.
LEMMA BeforeEnds ==
  ASSUME NEW part \in DOMAIN Follows, NEW class \in Classes
  PROVE  /\ Follows[part] \in Before[class] => part \in Before[class]
         /\ part # class => (Follows[part] \in Before[class] <=> part \in Before[class])
         /\ part = class => part \in Before[class] /\ Follows[part] \notin Before[class]
         /\ Follows[part] \notin Unmapped \ {"validate"} /\ (Follows[part] = "validate" => part = "stage")
  <1>1. CASE class = "buses"
    BY <1>1, OnePart DEF Before, BeforeBuses, Unmapped
  <1>2. CASE class = "loads"
    BY <1>2, OnePart DEF Before, BeforeBuses, BeforeLoads, Unmapped
  <1>3. CASE class = "generators"
    BY <1>3, OnePart DEF Before, BeforeBuses, BeforeLoads, BeforeGenerators, Unmapped
  <1>4. CASE class = "storage_units"
    BY <1>4, OnePart DEF Before, BeforeBuses, BeforeLoads, BeforeGenerators, BeforeUnits, GeneratorTypes, Unmapped
  <1>5. CASE class = "lines"
    BY <1>5, OnePart DEF Before, BeforeBuses, BeforeLoads, BeforeGenerators, BeforeUnits, BeforeLines,
                         GeneratorTypes, Unmapped
  <1>6. CASE class = "links"
    BY <1>6, OnePart DEF Before, BeforeBuses, BeforeLoads, BeforeGenerators, BeforeUnits, BeforeLines, BeforeLinks,
                         GeneratorTypes, Unmapped
  <1> QED
    BY <1>1, <1>2, <1>3, <1>4, <1>5, <1>6 DEF Classes

\* And so for the types a class of plants is mapped to.
LEMMA AheadEnds ==
  ASSUME NEW part \in DOMAIN Follows, NEW class \in {"generators", "storage_units"}, NEW type \in TypesOf(class)
  PROVE  /\ part # class /\ part # type => (Follows[part] \in Ahead[type] <=> part \in Ahead[type])
         /\ part = class => Follows[part] \in Ahead[type] /\ part \notin Ahead[type]
         /\ part = type => Follows[part] \notin Ahead[type] /\ part \in Ahead[type]
         /\ part \in Ahead[type] => part \in TypesOf(class) /\ part \notin Before[class]
  <1>1. CASE class = "generators"
    <2>1. type \in GeneratorTypes
      BY <1>1 DEF TypesOf
    <2>2. CASE type = "ThermalStandard"
      BY <1>1, <2>2, OnePart DEF Ahead, TypesOf, GeneratorTypes, Before, BeforeBuses, BeforeLoads, BeforeGenerators
    <2>3. CASE type = "RenewableDispatch"
      BY <1>1, <2>3, OnePart DEF Ahead, TypesOf, GeneratorTypes, Before, BeforeBuses, BeforeLoads, BeforeGenerators
    <2>4. CASE type = "RenewableNonDispatch"
      BY <1>1, <2>4, OnePart DEF Ahead, TypesOf, GeneratorTypes, Before, BeforeBuses, BeforeLoads, BeforeGenerators
    <2> QED
      BY <2>1, <2>2, <2>3, <2>4 DEF GeneratorTypes
  <1>2. CASE class = "storage_units"
    <2>1. type \in StorageTypes
      BY <1>2 DEF TypesOf
    <2>2. CASE type = "HydroDispatch"
      BY <1>2, <2>2, OnePart DEF Ahead, TypesOf, GeneratorTypes, StorageTypes, Before, BeforeBuses, BeforeLoads,
                                 BeforeGenerators, BeforeUnits
    <2>3. CASE type = "EnergyReservoirStorage"
      BY <1>2, <2>3, OnePart DEF Ahead, TypesOf, GeneratorTypes, StorageTypes, Before, BeforeBuses, BeforeLoads,
                                 BeforeGenerators, BeforeUnits
    <2> QED
      BY <2>1, <2>2, <2>3 DEF StorageTypes
  <1> QED
    BY <1>1, <1>2

\* Names that are as many as the rows tell them apart.
LEMMA AsManyNames ==
  ASSUME NEW rows, IsTable(rows), Cardinality(Names(rows)) = Len(rows)
  PROVE  NamedApart(rows)
  <1> DEFINE nameAt == [i \in 1 .. Len(rows) |-> rows[i].name]
  <1>1. Len(rows) \in Nat /\ DOMAIN rows = 1 .. Len(rows)
    BY Tables
  <1>2. nameAt \in Surjection(1 .. Len(rows), Names(rows))
    BY <1>1 DEF Surjection, Names
  <1>3. IsFiniteSet(1 .. Len(rows)) /\ Cardinality(1 .. Len(rows)) = Len(rows)
    <2>1. ASSUME NEW n \in Nat PROVE IsFiniteSet(1 .. n) /\ Cardinality(1 .. n) = n
      BY FS_Interval
    <2> QED
      BY <1>1, <2>1
  <1>4. nameAt \in Injection(1 .. Len(rows), Names(rows))
    BY <1>2, <1>3, FS_Surjection
  <1> QED
    BY <1>1, <1>4 DEF Injection, IsInjective, NamedApart

\* What no part of a class has decided stays undecided, and the rest decided.
LEMMA UndecidedStays ==
  ASSUME NEW part \in DOMAIN Follows, step = part, step' = Follows[part], NEW class \in Classes,
         part # class, part \notin PlantTypes(class),
         scope' = scope \/ part \in {"generators", "storage_units"}, NEW r
  PROVE  Undecided(class, r)' <=> Undecided(class, r)
  <1>1. step' \in Before[class] <=> step \in Before[class]
    BY BeforeEnds
  <1>2. ASSUME NEW type \in PlantTypes(class)
        PROVE  /\ step' \in Ahead[type] <=> step \in Ahead[type]
               /\ scope' # scope => step \notin Ahead[type]
    <2>1. class \in {"generators", "storage_units"} /\ type \in TypesOf(class)
      BY <1>2 DEF PlantTypes
    <2>2. step' \in Ahead[type] <=> step \in Ahead[type]
      BY <2>1, AheadEnds
    <2>3. step \in Ahead[type] => step \in TypesOf(class)
      BY <2>1, AheadEnds
    <2>4. "generators" \notin TypesOf(class) /\ "storage_units" \notin TypesOf(class)
      BY DEF TypesOf, GeneratorTypes, StorageTypes
    <2> QED
      BY <2>2, <2>3, <2>4
  <1> QED
    BY <1>1, <1>2 DEF Undecided, PlantTypes, TypesOf, GeneratorTypes, StorageTypes

\* A table is written once.
LEMMA AheadFades ==
  ASSUME NEW part \in DOMAIN Follows, step = part, step' = Follows[part], NEW class \in Classes,
         NEW type \in ClassTypes(class)
  PROVE  /\ IsAhead(class, type)' => IsAhead(class, type)
         /\ part = type /\ type \in PlantTypes(class) => IsAhead(class, type) /\ ~IsAhead(class, type)'
         /\ part = class /\ PlantTypes(class) = {} => IsAhead(class, type) /\ ~IsAhead(class, type)'
  <1>1. /\ step' \in Before[class] => step \in Before[class]
        /\ part = class => step \in Before[class] /\ step' \notin Before[class]
    BY BeforeEnds
  <1>2. ASSUME type \in PlantTypes(class)
        PROVE  /\ step' \in Ahead[type] => step \in Ahead[type] \/ part = class
               /\ part = type => step' \notin Ahead[type] /\ step \in Ahead[type] /\ step \notin Before[class]
    <2>1. class \in {"generators", "storage_units"} /\ type \in TypesOf(class)
      BY <1>2 DEF PlantTypes
    <2>2. part # class /\ part # type => (step' \in Ahead[type] <=> step \in Ahead[type])
      BY <2>1, AheadEnds
    <2>3. part = type => step' \notin Ahead[type] /\ step \in Ahead[type]
      BY <2>1, AheadEnds
    <2>4. step \in Ahead[type] => step \notin Before[class]
      BY <2>1, AheadEnds
    <2> QED
      BY <2>2, <2>3, <2>4
  <1>3. /\ IsAhead(class, type) <=> step \in Before[class] \/ (type \in PlantTypes(class) /\ step \in Ahead[type])
        /\ IsAhead(class, type)' <=> step' \in Before[class] \/ (type \in PlantTypes(class) /\ step' \in Ahead[type])
    BY DEF IsAhead, PlantTypes, TypesOf, GeneratorTypes, StorageTypes
  <1> QED
    BY <1>1, <1>2, <1>3

LEMMA LayoutGoesOn ==
  ASSUME Layout, NEW part \in DOMAIN Follows \ Unmapped, step = part, step' = Follows[part], network' = network,
         NEW new, IsTable(new), skips' = skips \o new, NEW W, DOMAIN tables' = DOMAIN tables \cup W,
         \A class \in Classes : \A type \in ClassTypes(class) : type \in W => ~IsAhead(class, type)',
         part = "buses" /\ network.buses # <<>> => "ACBus" \in W
  PROVE  Layout'
  <1>1. step' \in DOMAIN Follows \cup {"written", "refused", "failed"}
    BY OnePart
  <1>2. step' \notin Unmapped
    <2>1. "buses" \in Classes /\ step \notin Unmapped
      BY DEF Classes, Unmapped
    <2>2. step' \notin Unmapped \ {"validate"} /\ (step' = "validate" => part = "stage")
      BY <2>1, BeforeEnds
    <2> QED
      BY <2>2 DEF Unmapped
  <1>3. IsTable(skips')
    <2>1. IsTable(skips)
      BY DEF Layout
    <2> QED
      BY <2>1, Joined
  <1>4. ASSUME NEW class \in Classes, NEW type \in ClassTypes(class), IsAhead(class, type)'
        PROVE  type \notin DOMAIN tables'
    <2>1. IsAhead(class, type)
      BY <1>4, AheadFades
    <2> QED
      BY <1>4, <2>1 DEF Layout
  <1>5. step' \notin BeforeBuses /\ network.buses # <<>> => "ACBus" \in DOMAIN tables'
    <2>1. CASE step \notin BeforeBuses
      BY <2>1 DEF Layout
    <2>2. CASE step \in BeforeBuses
      <3>1. part = "buses"
        BY <2>2 DEF BeforeBuses, Unmapped
      <3> QED
        BY <3>1
    <2> QED
      BY <2>1, <2>2
  <1>6. /\ \A class \in Classes : IsTable(network[class]) /\ NamedApart(network[class])
        /\ Classes \subseteq DOMAIN network
        /\ network.buses = <<>> => network.lines = <<>> /\ network.links = <<>>
    BY DEF Layout
  <1>7. \A class \in Classes : \A type \in ClassTypes(class) : IsAhead(class, type)' => type \notin DOMAIN tables'
    BY <1>4
  <1> QED
    BY <1>1, <1>2, <1>3, <1>5, <1>6, <1>7
       DEF Layout, Classes, ClassTypes, TypesOf, LoadTypes, GeneratorTypes, StorageTypes, BeforeBuses, Unmapped

\* Before the network is mapped nothing has a fate.
LEMMA NothingYet ==
  (step \in Unmapped \cup {"buses"} /\ DOMAIN tables = {} /\ skips = <<>>) =>
    \A class \in Classes : SettledClass(class)
  <1> SUFFICES ASSUME step \in Unmapped \cup {"buses"}, DOMAIN tables = {}, skips = <<>>,
                      NEW class \in Classes, NEW r \in ToSet(network[class])
               PROVE  Undecided(class, r) /\ Untouched(class, r.name)
    BY DEF SettledClass
  <1>1. step \in Before[class]
    BY DEF Unmapped, Classes, Before, BeforeBuses, BeforeLoads, BeforeGenerators, BeforeUnits, BeforeLines, BeforeLinks
  <1>2. \A type : TableOf(type) = <<>>
    BY DEF TableOf
  <1>3. RowsOf(class, r.name) = {} /\ EventsOf(class, r.name) = {}
    BY <1>2 DEF RowsOf, EventsOf
  <1> QED
    BY <1>1, <1>3 DEF Undecided, Untouched

\* A part of one class leaves the others as they were.
LEMMA OtherClasses ==
  ASSUME Layout, NEW part \in DOMAIN Follows, step = part, step' = Follows[part], network' = network,
         NEW new, IsTable(new), skips' = skips \o new,
         scope' = scope \/ part \in {"generators", "storage_units"},
         NEW class \in Classes, SettledClass(class), part # class, part \notin PlantTypes(class),
         \A name : NoEvent(new, class, name), \A type \in ClassTypes(class) : TableOf(type)' = TableOf(type)
  PROVE  SettledClass(class)'
  <1>1. IsTable(skips) /\ IsTable(network[class])
    BY DEF Layout
  <1>2. ASSUME NEW r \in ToSet(network[class]) PROVE Undecided(class, r)' <=> Undecided(class, r)
    BY UndecidedStays
  <1> QED
    BY <1>1, <1>2, ClassIsKept

\* A part that belongs to no class, or to one of them, keeps the layout and the fates of the others.
LEMMA TheRestGoesOn ==
  ASSUME Layout, \A class \in Classes : SettledClass(class),
         NEW part \in DOMAIN Follows \ Unmapped, step = part, step' = Follows[part], network' = network,
         NEW new, IsTable(new), skips' = skips \o new,
         scope' = scope \/ part \in {"generators", "storage_units"},
         NEW W, DOMAIN tables' = DOMAIN tables \cup W, \A type : type \notin W => TableOf(type)' = TableOf(type),
         \A class \in Classes : \A type \in ClassTypes(class) : type \in W => ~IsAhead(class, type)',
         part = "buses" /\ network.buses # <<>> => "ACBus" \in W,
         \A class \in Classes :
           \/ class = part \/ part \in PlantTypes(class)
           \/ (\A name : NoEvent(new, class, name)) /\ W \cap ClassTypes(class) = {}
  PROVE  /\ Layout'
         /\ \A class \in Classes : class # part /\ part \notin PlantTypes(class) => SettledClass(class)'
  <1>1. Layout'
    BY LayoutGoesOn
  <1>2. ASSUME NEW class \in Classes, class # part, part \notin PlantTypes(class) PROVE SettledClass(class)'
    <2>1. (\A name : NoEvent(new, class, name)) /\ W \cap ClassTypes(class) = {}
      BY <1>2
    <2>2. \A type \in ClassTypes(class) : TableOf(type)' = TableOf(type)
      BY <2>1
    <2>3. SettledClass(class) /\ part # class
      BY <1>2
    <2> QED
      BY <1>2, <2>1, <2>2, <2>3, OtherClasses
  <1> QED
    BY <1>1, <1>2

LEMMA ScopedStays ==
  ASSUME Scoped, NEW part \in DOMAIN Follows \ {"generators", "storage_units"}, step = part, step' = Follows[part],
         scope' = scope, network' = network
  PROVE  Scoped'
  <1>1. ASSUME NEW class \in {"generators", "storage_units"}, NEW type \in PlantTypes(class), step' \in Ahead[type]
        PROVE  step \in Ahead[type]
    <2>1. type \in TypesOf(class)
      BY DEF PlantTypes
    <2>2. part # class
      OBVIOUS
    <2> QED
      BY <1>1, <2>1, <2>2, AheadEnds
  <1>2. ASSUME NEW class \in {"generators", "storage_units"}, \E type \in PlantTypes(class) : step' \in Ahead[type]
        PROVE  /\ IsTable(scope) /\ NamedApart(scope)
               /\ Len(scope) <= Len(network[class]) /\ ToSet(scope) \subseteq ToSet(network[class])
               /\ \A r \in ToSet(scope) : TypeOf[r.carrier] \in TypesOf(class)
    <2>1. \E type \in PlantTypes(class) : step \in Ahead[type]
      BY <1>1, <1>2
    <2> QED
      BY <2>1 DEF Scoped
  <1> QED
    BY <1>2 DEF Scoped, PlantTypes, TypesOf, GeneratorTypes, StorageTypes

\* A part of no class.
LEMMA NoClass ==
  ASSUME Fated, NEW part \in {"prices", "areas", "arcs", "resolve", "store"}, step = part, step' = Follows[part],
         network' = network, scope' = scope, skips' = skips,
         NEW W \in SUBSET {"Area", "Arc"}, DOMAIN tables' = DOMAIN tables \cup W,
         \A type : type \notin W => TableOf(type)' = TableOf(type)
  PROVE  Fated'
  <1>1. part \in DOMAIN Follows \ Unmapped /\ part \notin {"generators", "storage_units"}
    BY OnePart DEF Unmapped
  <1>2. IsTable(<<>>) /\ skips' = skips \o <<>>
    BY NothingJoined DEF Fated, Layout
  <1>3. ASSUME NEW class \in Classes
        PROVE  /\ class # part /\ part \notin PlantTypes(class) /\ W \cap ClassTypes(class) = {}
               /\ \A name : NoEvent(<<>>, class, name)
    BY DEF Classes, PlantTypes, ClassTypes, TypesOf, GeneratorTypes, StorageTypes, LoadTypes, NoEvent
  <1>4. part # "buses"
    OBVIOUS
  <1>5. \A class \in Classes : \A type \in ClassTypes(class) : type \in W => ~IsAhead(class, type)'
    BY <1>3
  <1>6. Layout' /\ \A class \in Classes : class # part /\ part \notin PlantTypes(class) => SettledClass(class)'
    <2>1. Layout /\ \A class \in Classes : SettledClass(class)
      BY DEF Fated
    <2> QED
      BY <1>1, <1>2, <1>3, <1>4, <1>5, <2>1, TheRestGoesOn
  <1>7. Scoped'
    BY <1>1, ScopedStays DEF Fated
  <1> QED
    BY <1>3, <1>6, <1>7 DEF Fated

\* The part of a table that has no rows.
LEMMA AnEmptyTable ==
  ASSUME Fated, NEW class \in {"buses", "lines", "links"}, step = class, step' = Follows[class],
         network[class] = <<>>, network' = network, scope' = scope, skips' = skips, tables' = tables
  PROVE  Fated'
  <1>1. class \in DOMAIN Follows \ Unmapped /\ class \notin {"generators", "storage_units"} /\ class \in Classes
    BY OnePart DEF Unmapped, Classes
  <1>2. IsTable(<<>>) /\ skips' = skips \o <<>>
    BY NothingJoined DEF Fated, Layout
  <1>3. /\ DOMAIN tables' = DOMAIN tables \cup {} /\ \A type : TableOf(type)' = TableOf(type)
        /\ \A other, name : NoEvent(<<>>, other, name)
    BY DEF TableOf, NoEvent
  <1>4. class = "buses" => network.buses = <<>>
    OBVIOUS
  <1>5. Layout' /\ \A other \in Classes : other # class /\ class \notin PlantTypes(other) => SettledClass(other)'
    <2>1. Layout /\ \A other \in Classes : SettledClass(other)
      BY DEF Fated
    <2> DEFINE W == {}
    <2>2. DOMAIN tables' = DOMAIN tables \cup W /\ \A type : type \notin W
      BY <1>3
    <2> HIDE DEF W
    <2>3. /\ \A other \in Classes : \A type \in ClassTypes(other) : type \in W => ~IsAhead(other, type)'
          /\ \A other \in Classes : W \cap ClassTypes(other) = {}
          /\ \A type : type \notin W => TableOf(type)' = TableOf(type)
      BY <1>3, <2>2
    <2> QED
      BY <1>1, <1>2, <1>3, <1>4, <2>1, <2>2, <2>3, TheRestGoesOn
  <1>6. SettledClass(class)'
    <2>1. ToSet(network'[class]) = {}
      BY DEF ToSet
    <2> QED
      BY <2>1 DEF SettledClass
  <1>7. Scoped'
    BY <1>1, ScopedStays DEF Fated
  <1>8. \A other \in Classes : class \notin PlantTypes(other)
    BY DEF PlantTypes, TypesOf, GeneratorTypes, StorageTypes
  <1> QED
    BY <1>5, <1>6, <1>7, <1>8 DEF Fated

\* The part that maps a whole table at once.
LEMMA AWholeTable ==
  ASSUME Fated, NEW class \in {"buses", "lines", "links"}, step = class, step' = Follows[class],
         NEW type, ClassTypes(class) = {type}, class = "buses" => type = "ACBus",
         NEW rules, IsRules(rules), network' = network, scope' = scope,
         skips' = skips \o Skipped(class, rules, network[class]),
         NEW out, Put(type, out), DOMAIN out = DOMAIN Kept(rules, network[class]),
         \A k \in DOMAIN out : out[k].name = Kept(rules, network[class])[k].name
  PROVE  Fated'
  <1> DEFINE new == Skipped(class, rules, network[class])
  <1>1. /\ class \in DOMAIN Follows \ Unmapped /\ class \notin {"generators", "storage_units"} /\ class \in Classes
        /\ \A other \in Classes : class \notin PlantTypes(other)
        /\ PlantTypes(class) = {}
    BY OnePart DEF Unmapped, Classes, PlantTypes, TypesOf, GeneratorTypes, StorageTypes
  <1>2. /\ Layout /\ Scoped /\ \A other \in Classes : SettledClass(other)
        /\ IsTable(skips) /\ IsTable(network[class]) /\ NamedApart(network[class])
    BY <1>1 DEF Fated, Layout
  <1>3. IsTable(new) /\ \A k \in DOMAIN new : new[k].class = class
    BY <1>2, KeptOrSkipped
  <1>4. \A other, name : other # class => NoEvent(new, other, name)
    BY <1>3 DEF NoEvent
  <1>5. /\ TableOf(type)' = out /\ \A other : other # type => TableOf(other)' = TableOf(other)
        /\ DOMAIN tables' = DOMAIN tables \cup {type}
    BY PutWrites
  <1>6. \A other \in Classes : type \in ClassTypes(other) => other = class
    BY <1>1 DEF Classes, ClassTypes, TypesOf, LoadTypes, GeneratorTypes, StorageTypes
  <1>7. /\ step \in Before[class] /\ step' \notin Before[class]
        /\ IsAhead(class, type) /\ ~IsAhead(class, type)'
    <2>1. step \in Before[class] /\ step' \notin Before[class]
      BY <1>1, BeforeEnds
    <2>2. type \in ClassTypes(class)
      OBVIOUS
    <2> QED
      BY <1>1, <2>1, <2>2, AheadFades
  <1>8. type \notin DOMAIN tables
    BY <1>1, <1>2, <1>7 DEF Layout
  <1>9. SettledClass(class)'
    BY <1>1, <1>2, <1>5, <1>7, <1>8, ClassIsMapped
  <1> HIDE DEF new
  <1>10. Layout' /\ \A other \in Classes : other # class /\ class \notin PlantTypes(other) => SettledClass(other)'
    <2> DEFINE W == {type}
    <2>1. DOMAIN tables' = DOMAIN tables \cup W /\ \A other : other \in W <=> other = type
      BY <1>5
    <2> HIDE DEF W
    <2>2. \A other \in Classes : \A t \in ClassTypes(other) : t \in W => ~IsAhead(other, t)'
      <3>1. ASSUME NEW other \in Classes, NEW t \in ClassTypes(other), t \in W PROVE other = class /\ t = type
        BY <1>6, <2>1, <3>1
      <3> QED
        BY <1>7, <3>1
    <2>3. \A other \in Classes :
             other = class \/ ((\A name : NoEvent(new, other, name)) /\ W \cap ClassTypes(other) = {})
      BY <1>4, <1>6, <2>1
    <2>4. /\ class = "buses" /\ network.buses # <<>> => "ACBus" \in W
          /\ \A t : t \notin W => TableOf(t)' = TableOf(t)
      BY <1>5, <2>1
    <2> QED
      BY <1>1, <1>2, <1>3, <2>1, <2>2, <2>3, <2>4, TheRestGoesOn DEF new
  <1>11. Scoped'
    BY <1>1, <1>2, ScopedStays
  <1> QED
    BY <1>1, <1>9, <1>10, <1>11 DEF Fated

LEMMA BusesAreMapped == Fated /\ MapBuses => Fated'
  <1> SUFFICES ASSUME Fated, MapBuses PROVE Fated'
    OBVIOUS
  <1> DEFINE rules == <<Rule("not AC", NotAc(network.buses))>>
             kept == Kept(rules, network.buses)
             out == Numbered(kept, AcBus)
  <1>1. step = "buses" /\ step' = Follows["buses"]
    BY PartsFollow, OnePart DEF MapBuses
  <1>2. network' = network /\ scope' = scope
    BY DEF MapBuses
  <1>3. CASE network.buses = <<>>
    <2>1. skips' = skips /\ tables' = tables
      BY <1>3 DEF MapBuses
    <2> QED
      BY <1>1, <1>2, <1>3, <2>1, AnEmptyTable
  <1>4. CASE network.buses # <<>>
    <2>1. Put("ACBus", out) /\ skips' = skips \o Skipped("buses", rules, network.buses)
      BY <1>4 DEF MapBuses
    <2>2. DOMAIN out = DOMAIN kept /\ \A k \in DOMAIN out : out[k].name = kept[k].name
      BY DEF Numbered, AcBus
    <2>3. IsRules(rules)
      BY RulesOfATable DEF Reasons
    <2>4. ClassTypes("buses") = {"ACBus"}
      BY DEF ClassTypes
    <2> HIDE DEF rules, out
    <2> QED
      BY <1>1, <1>2, <2>1, <2>2, <2>3, <2>4, AWholeTable
  <1> QED
    BY <1>3, <1>4

LEMMA BranchesAreMapped ==
  ASSUME Fated, NEW class \in {"lines", "links"}, NEW type, NEW kind, NEW rules, IsRules(rules),
         ClassTypes(class) = {type}, MapBranches(class, type, kind, rules)
  PROVE  Fated'
  <1> DEFINE kept == Kept(rules, network[class])
             out == Numbered(kept, Branch)
  <1>1. step = class /\ step' = Follows[class]
    BY PartsFollow, OnePart DEF MapBranches
  <1>2. network' = network /\ scope' = scope
    BY DEF MapBranches
  <1>3. "ACBus" \notin DOMAIN tables => network[class] = <<>>
    BY <1>1 DEF Fated, Layout, BeforeBuses
  <1>4. CASE network[class] = <<>>
    <2>1. skips' = skips /\ tables' = tables
      BY <1>4 DEF MapBranches
    <2> QED
      BY <1>1, <1>2, <1>4, <2>1, AnEmptyTable
  <1>5. CASE network[class] # <<>>
    <2>1. Put(type, out) /\ skips' = skips \o Skipped(class, rules, network[class])
      BY <1>3, <1>5 DEF MapBranches
    <2>2. DOMAIN out = DOMAIN kept /\ \A k \in DOMAIN out : out[k].name = kept[k].name
      BY DEF Numbered, Branch
    <2> HIDE DEF out
    <2> QED
      BY <1>1, <1>2, <2>1, <2>2, AWholeTable
  <1> QED
    BY <1>4, <1>5

LEMMA LinesAreMapped == Fated /\ (MapLines \/ MapLinks) => Fated'
  <1>1. ASSUME Fated, MapLines PROVE Fated'
    <2>1. ClassTypes("lines") = {"Line"}
      BY DEF ClassTypes
    <2> QED
      BY <1>1, <2>1, RulesOfATable, BranchesAreMapped DEF MapLines
  <1>2. ASSUME Fated, MapLinks PROVE Fated'
    <2>1. ClassTypes("links") = {"TwoTerminalGenericHVDCLine"}
      BY DEF ClassTypes
    <2> QED
      BY <1>2, <2>1, RulesOfATable, BranchesAreMapped DEF MapLinks
  <1> QED
    BY <1>1, <1>2

LEMMA PartsOfNoClass == Fated /\ (ReadPrices \/ BuildAreas \/ BuildArcs) => Fated'
  <1>1. ASSUME Fated, NEW part \in {"prices", "areas", "arcs"}, Goto(part),
               network' = network, scope' = scope, skips' = skips,
               NEW type \in {"Area", "Arc"}, NEW rows, tables' = tables \/ Put(type, rows)
        PROVE  Fated'
    <2>1. step = part /\ step' = Follows[part]
      BY <1>1, PartsFollow, OnePart
    <2>2. CASE tables' = tables
      <3>1. DOMAIN tables' = DOMAIN tables \cup {} /\ \A other : TableOf(other)' = TableOf(other)
        BY <2>2 DEF TableOf
      <3> QED
        BY <1>1, <2>1, <3>1, NoClass
    <2>3. CASE Put(type, rows)
      <3> DEFINE W == {type}
      <3>1. /\ DOMAIN tables' = DOMAIN tables \cup W /\ W \in SUBSET {"Area", "Arc"}
            /\ \A other : other \notin W => TableOf(other)' = TableOf(other)
        BY <2>3, PutWrites
      <3> HIDE DEF W
      <3> QED
        BY <1>1, <2>1, <3>1, NoClass
    <2> QED
      BY <1>1, <2>2, <2>3
  <1>2. ASSUME Fated, ReadPrices PROVE Fated'
    <2>1. Goto("prices") /\ network' = network /\ scope' = scope /\ skips' = skips /\ tables' = tables
      BY <1>2 DEF ReadPrices
    <2> QED
      BY <1>1, <1>2, <2>1
  <1>3. ASSUME Fated, BuildAreas PROVE Fated'
    <2>1. Goto("areas") /\ network' = network /\ scope' = scope /\ skips' = skips
      BY <1>3 DEF BuildAreas
    <2>2. \E rows : tables' = tables \/ Put("Area", rows)
      BY <1>3 DEF BuildAreas
    <2> QED
      BY <1>1, <1>3, <2>1, <2>2
  <1>4. ASSUME Fated, BuildArcs PROVE Fated'
    <2>1. Goto("arcs") /\ network' = network /\ scope' = scope /\ skips' = skips
      BY <1>4 DEF BuildArcs
    <2>2. \E rows : tables' = tables \/ Put("Arc", rows)
      BY <1>4 DEF BuildArcs
    <2> QED
      BY <1>1, <1>4, <2>1, <2>2
  <1> QED
    BY <1>2, <1>3, <1>4

LEMMA NothingHappens == Fated /\ UNCHANGED vars => Fated'
  <1> SUFFICES ASSUME Fated, UNCHANGED vars PROVE Fated'
    OBVIOUS
  <1>1. step' = step /\ network' = network /\ scope' = scope /\ skips' = skips /\ tables' = tables
    BY DEF vars
  <1>2. Layout' /\ Scoped'
    BY <1>1 DEF Fated, Layout, Scoped, IsAhead, PlantTypes, Classes, ClassTypes, TypesOf, LoadTypes, GeneratorTypes,
                      StorageTypes, Unmapped, BeforeBuses
  <1>3. ASSUME NEW class \in Classes PROVE SettledClass(class)'
    <2>1. IsTable(<<>>) /\ skips' = skips \o <<>> /\ IsTable(skips) /\ IsTable(network[class])
      BY <1>1, NothingJoined DEF Fated, Layout
    <2>2. \A r : Undecided(class, r)' <=> Undecided(class, r)
      BY <1>1 DEF Undecided, PlantTypes, TypesOf, GeneratorTypes, StorageTypes
    <2>3. /\ \A name : NoEvent(<<>>, class, name)
          /\ \A type \in ClassTypes(class) : TableOf(type)' = TableOf(type)
      BY <1>1 DEF NoEvent, TableOf
    <2>4. SettledClass(class)
      BY DEF Fated
    <2> QED
      BY <1>1, <2>1, <2>2, <2>3, <2>4, ClassIsKept
  <1> QED
    BY <1>2, <1>3 DEF Fated

\* A run that ends where it is keeps every fate.
LEMMA TheSinkKeepsFates == Fated /\ (Resolve \/ StoreSeries \/ Terminated) => Fated'
  <1>1. ASSUME Fated, NEW part \in {"resolve", "store"}, step = part, Goto(part) \/ step' = "failed",
               network' = network, scope' = scope, skips' = skips, tables' = tables
        PROVE  Fated'
    <2>1. CASE Goto(part)
      <3>1. step' = Follows[part]
        BY <2>1, PartsFollow, OnePart
      <3>2. DOMAIN tables' = DOMAIN tables \cup {} /\ \A other : TableOf(other)' = TableOf(other)
        BY <1>1 DEF TableOf
      <3> QED
        BY <1>1, <3>1, <3>2, NoClass
    <2>2. CASE step' = "failed"
      <3>1. /\ \A class \in Classes : step \notin Before[class] /\ step' \notin Before[class]
            /\ \A class : \A type \in PlantTypes(class) : step \notin Ahead[type] /\ step' \notin Ahead[type]
        BY <1>1, <2>2 DEF Classes, Before, BeforeBuses, BeforeLoads, BeforeGenerators, BeforeUnits, BeforeLines,
                          BeforeLinks, PlantTypes, TypesOf, GeneratorTypes, StorageTypes, Ahead
      <3>2. Layout'
        <4>1. \A class \in Classes : \A type : ~IsAhead(class, type)'
          BY <3>1 DEF IsAhead, PlantTypes, TypesOf, GeneratorTypes, StorageTypes
        <4>2. step' \notin Unmapped /\ step \notin Unmapped /\ step \notin BeforeBuses
          BY <1>1, <2>2 DEF Unmapped, BeforeBuses
        <4> QED
          BY <1>1, <2>2, <4>1, <4>2
             DEF Fated, Layout, Classes, ClassTypes, TypesOf, LoadTypes, GeneratorTypes, StorageTypes, Unmapped, BeforeBuses
      <3>3. Scoped'
        BY <3>1 DEF Scoped, PlantTypes, TypesOf, GeneratorTypes, StorageTypes
      <3>4. ASSUME NEW class \in Classes PROVE SettledClass(class)'
        <4>1. IsTable(<<>>) /\ skips' = skips \o <<>> /\ IsTable(skips) /\ IsTable(network[class])
          BY <1>1, NothingJoined DEF Fated, Layout
        <4>2. \A r : Undecided(class, r)' <=> Undecided(class, r)
          BY <3>1 DEF Undecided, PlantTypes, TypesOf, GeneratorTypes, StorageTypes
        <4>3. /\ \A name : NoEvent(<<>>, class, name)
              /\ \A type \in ClassTypes(class) : TableOf(type)' = TableOf(type)
          BY <1>1 DEF NoEvent, TableOf
        <4>4. SettledClass(class)
          BY <1>1 DEF Fated
        <4> QED
          BY <1>1, <4>1, <4>2, <4>3, <4>4, ClassIsKept
      <3> QED
        BY <3>2, <3>3, <3>4 DEF Fated
    <2> QED
      BY <1>1, <2>1, <2>2
  <1>2. ASSUME Fated, Resolve PROVE Fated'
    <2>1. step = "resolve" /\ (Goto("resolve") \/ step' = "failed")
      BY <1>2 DEF Resolve
    <2>2. network' = network /\ scope' = scope /\ skips' = skips /\ tables' = tables
      BY <1>2 DEF Resolve
    <2> QED
      BY <1>1, <1>2, <2>1, <2>2
  <1>3. ASSUME Fated, StoreSeries PROVE Fated'
    <2>1. step = "store" /\ (Goto("store") \/ step' = "failed")
      BY <1>3 DEF StoreSeries
    <2>2. network' = network /\ scope' = scope /\ skips' = skips /\ tables' = tables
      BY <1>3 DEF StoreSeries
    <2> QED
      BY <1>1, <1>3, <2>1, <2>2
  <1> QED
    BY <1>2, <1>3, NothingHappens DEF Terminated

\* A network staged as it is, or with the generators an earlier hop added.
LEMMA NothingYetThen ==
  (step' \in Unmapped \cup {"buses"} /\ DOMAIN tables' = {} /\ skips' = <<>>) =>
    \A class \in Classes : SettledClass(class)'
  <1>1. ((step \in Unmapped \cup {"buses"} /\ DOMAIN tables = {} /\ skips = <<>>) =>
            \A class \in Classes : SettledClass(class))'
    BY NothingYet, PTL
  <1> QED
    BY <1>1 DEF Unmapped, Classes

LEMMA NotAheadYet ==
  ASSUME NEW part \in {"stage", "validate", "refused", "buses"}, NEW class, NEW type \in PlantTypes(class)
  PROVE  part \notin Ahead[type]
  BY DEF PlantTypes, TypesOf, GeneratorTypes, StorageTypes, Ahead

LEMMA StagedNetwork == Fated /\ (AddLoadShedding \/ StageAsItIs) => Fated'
  <1> SUFFICES ASSUME Fated, AddLoadShedding \/ StageAsItIs PROVE Fated'
    OBVIOUS
  <1>1. step = "stage" /\ step' = "validate"
    <2>1. Goto("stage")
      BY DEF AddLoadShedding, StageAsItIs
    <2> QED
      BY <2>1, PartsFollow, OnePart
  <1>2. tables' = tables /\ skips' = skips /\ scope' = scope
    BY DEF AddLoadShedding, StageAsItIs
  <1>3. DOMAIN tables = {} /\ skips = <<>> /\ IsTable(skips)
    BY <1>1 DEF Fated, Layout, Unmapped
  <1>4. /\ \A class \in Classes : IsTable(network[class])
        /\ Classes \subseteq DOMAIN network
        /\ network.buses = <<>> => network.lines = <<>> /\ network.links = <<>>
    BY DEF Fated, Layout
  <1>5. /\ \A class \in Classes : IsTable(network'[class])
        /\ Classes \subseteq DOMAIN network'
        /\ network'.buses = <<>> => network'.lines = <<>> /\ network'.links = <<>>
    <2>1. CASE AddLoadShedding
      <3> DEFINE added == [i \in DOMAIN network.buses |-> SheddingAt(network.buses[i])]
                 generators == network.generators \o added
      <3>1. "generators" \in Classes /\ "buses" \in Classes
        BY DEF Classes
      <3>2. network' = [network EXCEPT !.generators = generators]
        BY <2>1 DEF AddLoadShedding
      <3>3. IsTable(added)
        <4>1. DOMAIN network.buses = 1 .. Len(network.buses) /\ Len(network.buses) \in Nat
          BY <1>4, <3>1, Tables
        <4>2. added = [i \in 1 .. Len(network.buses) |-> added[i]]
          BY <4>1
        <4> QED
          BY <4>1, <4>2, TableOfRows
      <3> HIDE DEF added
      <3>4. IsTable(generators)
        BY <1>4, <3>1, <3>3, Joined
      <3> HIDE DEF generators
      <3>5. /\ DOMAIN network' = DOMAIN network /\ network'["generators"] = generators
            /\ \A class \in Classes : class # "generators" => network'[class] = network[class]
        BY <1>4, <3>1, <3>2
      <3>6. network'.buses = network.buses /\ network'.lines = network.lines /\ network'.links = network.links
        BY <3>5 DEF Classes
      <3> QED
        BY <1>4, <3>4, <3>5, <3>6
    <2>2. CASE StageAsItIs
      <3>1. network' = network
        BY <2>2 DEF StageAsItIs
      <3> QED
        BY <1>4, <3>1
    <2> QED
      BY <2>1, <2>2
  <1>6. Layout'
    BY <1>1, <1>2, <1>3, <1>5, OnePart
       DEF Layout, Classes, ClassTypes, TypesOf, LoadTypes, GeneratorTypes, StorageTypes, BeforeBuses, Unmapped
  <1>7. Scoped'
    <2>1. ASSUME NEW class, NEW type \in PlantTypes(class) PROVE step' \notin Ahead[type]
      BY <1>1, NotAheadYet
    <2> QED
      BY <2>1 DEF Scoped, PlantTypes, TypesOf, GeneratorTypes, StorageTypes
  <1> QED
    BY <1>1, <1>2, <1>3, <1>6, <1>7, NothingYetThen DEF Fated, Unmapped

\* A network that passes the validators names its rows apart.
LEMMA ValidatedNetwork == Fated /\ ValidateTheNetwork => Fated'
  <1> SUFFICES ASSUME Fated, ValidateTheNetwork PROVE Fated'
    OBVIOUS
  <1>1. step = "validate" /\ step' \in {"buses", "refused"}
    <2>1. Goto("validate") => step' = "buses"
      BY PartsFollow, OnePart
    <2> QED
      BY <2>1 DEF ValidateTheNetwork
  <1>2. tables' = tables /\ skips' = skips /\ scope' = scope /\ network' = network
    BY DEF ValidateTheNetwork
  <1>3. DOMAIN tables = {} /\ skips = <<>> /\ IsTable(skips)
    BY <1>1 DEF Fated, Layout, Unmapped
  <1>4. /\ \A class \in Classes : IsTable(network[class])
        /\ Classes \subseteq DOMAIN network
        /\ network.buses = <<>> => network.lines = <<>> /\ network.links = <<>>
    BY DEF Fated, Layout
  <1>5. ASSUME step' = "buses", NEW class \in Classes PROVE NamedApart(network[class])
    <2>1. SharedNames = {}
      BY <1>5 DEF ValidateTheNetwork
    <2>2. Cardinality(Names(network[class])) = Len(network[class])
      BY <2>1 DEF SharedNames
    <2> QED
      BY <1>4, <2>2, AsManyNames
  <1>6. Layout'
    BY <1>1, <1>2, <1>3, <1>4, <1>5, OnePart
       DEF Layout, Classes, ClassTypes, TypesOf, LoadTypes, GeneratorTypes, StorageTypes, BeforeBuses, Unmapped
  <1>7. Scoped'
    <2>1. ASSUME NEW class, NEW type \in PlantTypes(class) PROVE step' \notin Ahead[type]
      BY <1>1, NotAheadYet
    <2> QED
      BY <2>1 DEF Scoped, PlantTypes, TypesOf, GeneratorTypes, StorageTypes
  <1> QED
    BY <1>1, <1>2, <1>3, <1>6, <1>7, NothingYetThen DEF Fated, Unmapped

(* -------------------------------- loads --------------------------------- *)

\* Events of something else besides.
LEMMA EventsBeside ==
  ASSUME NEW x, IsTable(x), NEW y, IsTable(y), NEW xy, xy = x \o y, NEW class, NEW name, NoEvent(y, class, name)
  PROVE  /\ NoEvent(x, class, name) => NoEvent(xy, class, name)
         /\ OneEvent(x, class, name) => OneEvent(xy, class, name)
  <1>1. \A i \in DOMAIN x : i \in DOMAIN xy /\ xy[i] = x[i]
    BY Joined
  <1>2. ASSUME NEW i \in DOMAIN xy, i \notin DOMAIN x PROVE ~ (xy[i].class = class /\ xy[i].name = name)
    <2>1. i - Len(x) \in DOMAIN y /\ i = Len(x) + (i - Len(x))
      BY <1>2, Joined
    <2>2. \A k \in DOMAIN y : xy[Len(x) + k] = y[k]
      BY Joined
    <2>3. xy[i] = y[i - Len(x)]
      BY <2>1, <2>2
    <2> QED
      BY <2>1, <2>3 DEF NoEvent
  <1>3. ASSUME NoEvent(x, class, name) PROVE NoEvent(xy, class, name)
    BY <1>1, <1>2, <1>3 DEF NoEvent
  <1>4. ASSUME OneEvent(x, class, name) PROVE OneEvent(xy, class, name)
    <2>1. PICK k \in DOMAIN x : \A m \in DOMAIN x : x[m].class = class /\ x[m].name = name <=> m = k
      BY <1>4 DEF OneEvent
    <2>2. \A m \in DOMAIN xy : xy[m].class = class /\ xy[m].name = name <=> m = k
      BY <1>1, <1>2, <2>1
    <2> QED
      BY <1>1, <2>1, <2>2 DEF OneEvent
  <1> QED
    BY <1>3, <1>4

LEMMA NamesBeside ==
  ASSUME NEW rows, IsTable(rows), NEW some, NEW name, NamesNone(rows, name)
  PROVE  NamesNone(Selected(rows, some), name)
  <1>1. IsTable(Selected(rows, some)) /\ ToSet(Selected(rows, some)) \subseteq ToSet(rows)
    BY SelectedRows
  <1>2. \A r \in ToSet(rows) : r.name # name
    BY Tables DEF NamesNone
  <1>3. \A m \in DOMAIN Selected(rows, some) : Selected(rows, some)[m] \in ToSet(Selected(rows, some))
    BY <1>1, Tables
  <1> QED
    BY <1>1, <1>2, <1>3 DEF NamesNone

LEMMA LoadsAreMapped == Fated /\ MapLoads => Fated'
  <1> SUFFICES ASSUME Fated, MapLoads PROVE Fated'
    OBVIOUS
  <1> DEFINE rules == <<Rule("bus scope", OffTheAcBuses(network.loads))>>
             kept == Kept(rules, network.loads)
             onPlain == {r \in ToSet(kept) : ~IsInterruptible(r)}
             onPriced == {r \in ToSet(kept) : IsInterruptible(r)}
             plain == Selected(kept, onPlain)
             priced == Selected(kept, onPriced)
             unscalable == Selected(kept, {r \in ToSet(kept) : IsUnscalable(r)})
             plainRows == Numbered(plain, PowerLoadRow)
             pricedRows == [i \in DOMAIN priced |-> PowerLoadRow(priced[i], FirstFreeId + Len(plain) + i - 1)]
             some == {t \in LoadTypes : (IF t = "PowerLoad" THEN plain ELSE priced) # <<>>}
             gone == Skipped("loads", rules, network.loads)
             left == [i \in DOMAIN unscalable |->
                        [class |-> "p_set", name |-> unscalable[i].name, why |-> "unscalable"]]
             new == gone \o left
             T == LoadTypes
             K == [t \in T |-> IF t = "PowerLoad" THEN plain ELSE priced]
  <1>1. step = "loads" /\ step' = Follows["loads"] /\ "loads" \in DOMAIN Follows \ Unmapped
    BY PartsFollow, OnePart DEF MapLoads, Unmapped
  <1>2. network' = network /\ scope' = scope
    BY DEF MapLoads
  <1>3. /\ tables' = [t \in DOMAIN tables \cup some |->
                        CASE t = "PowerLoad" -> plainRows
                          [] t = "InterruptiblePowerLoad" -> pricedRows
                          [] OTHER -> tables[t]]
        /\ skips' = skips \o gone \o left
    BY DEF MapLoads
  <1>4. "loads" \in Classes /\ PlantTypes("loads") = {} /\ ClassTypes("loads") = LoadTypes
    BY DEF Classes, PlantTypes, ClassTypes
  <1>5. /\ Layout /\ Scoped /\ \A other \in Classes : SettledClass(other)
        /\ IsTable(skips) /\ IsTable(network.loads) /\ NamedApart(network.loads)
    BY <1>1, <1>4 DEF Fated, Layout
  <1>6. /\ \A i \in DOMAIN plainRows : plainRows[i].name = plain[i].name
        /\ DOMAIN plainRows = DOMAIN plain
        /\ \A i \in DOMAIN pricedRows : pricedRows[i].name = priced[i].name
        /\ DOMAIN pricedRows = DOMAIN priced
    BY DEF Numbered, PowerLoadRow
  <1>7. IsRules(rules)
    BY RulesOfATable DEF Reasons
  <1> HIDE DEF rules, plainRows, pricedRows
  <1>8. /\ IsTable(kept) /\ NamedApart(kept) /\ Len(kept) <= Len(network.loads)
        /\ ToSet(kept) = {r \in ToSet(network.loads) : ~Drops(rules, r)}
        /\ IsTable(gone) /\ \A k \in DOMAIN gone : gone[k].class = "loads"
        /\ \A r \in ToSet(network.loads) :
             IF Drops(rules, r)
               THEN NamesNone(kept, r.name) /\ NamesOne(gone, r.name)
               ELSE NamesOne(kept, r.name) /\ NamesNone(gone, r.name)
    BY <1>5, <1>7, KeptOrSkipped
  <1>9. ASSUME NEW name
        PROVE  (NamesOne(gone, name) => OneEvent(gone, "loads", name)) /\ (NamesNone(gone, name) => NoEvent(gone, "loads", name))
    BY <1>8, SkippedOfAClass
  <1> HIDE DEF kept, gone
  <1>10. /\ IsTable(plain) /\ Len(plain) <= Len(kept)
         /\ IsTable(priced) /\ Len(priced) <= Len(kept)
         /\ IsTable(unscalable)
    BY <1>8, SelectedRows
  <1>11. ASSUME NEW r \in ToSet(kept)
         PROVE  /\ IF r \in onPlain THEN NamesOne(plain, r.name) ELSE NamesNone(plain, r.name)
                /\ IF r \in onPriced THEN NamesOne(priced, r.name) ELSE NamesNone(priced, r.name)
                /\ r \in onPriced <=> r \notin onPlain
    <2>1. r \in onPriced <=> r \notin onPlain
      OBVIOUS
    <2> HIDE DEF onPlain, onPriced
    <2> QED
      BY <1>8, <2>1, ChosenByName
  <1>12. ASSUME NEW name, NamesNone(kept, name) PROVE NamesNone(plain, name) /\ NamesNone(priced, name)
    <2> HIDE DEF onPlain, onPriced
    <2> QED
      BY <1>8, <1>12, NamesBeside
  <1>13. IsTable(left) /\ \A other \in Classes : \A name : NoEvent(left, other, name)
    <2>1. DOMAIN unscalable = 1 .. Len(unscalable) /\ Len(unscalable) \in Nat
      BY <1>10, Tables
    <2>2. left = [i \in 1 .. Len(unscalable) |-> left[i]]
      BY <2>1
    <2>3. IsTable(left)
      BY <2>1, <2>2, TableOfRows
    <2>4. \A i \in DOMAIN left : left[i].class = "p_set"
      OBVIOUS
    <2>5. "p_set" \notin Classes
      BY DEF Classes
    <2> QED
      BY <2>3, <2>4, <2>5 DEF NoEvent
  <1> HIDE DEF left, unscalable, plain, priced
  <1>14. IsTable(new) /\ skips' = skips \o new
    <2>1. IsTable(new)
      BY <1>8, <1>13, Joined
    <2> DEFINE S == ToSet(skips) \cup ToSet(gone) \cup ToSet(left)
    <2>2. skips \in Seq(S) /\ gone \in Seq(S) /\ left \in Seq(S)
      BY <1>5, <1>8, <1>13 DEF IsTable
    <2> HIDE DEF S
    <2> QED
      BY <1>3, <2>1, <2>2, ConcatAssociative
  <1>15. ASSUME NEW other \in Classes, NEW name
         PROVE  /\ NoEvent(gone, other, name) => NoEvent(new, other, name)
                /\ OneEvent(gone, other, name) => OneEvent(new, other, name)
    BY <1>8, <1>13, EventsBeside
  <1> HIDE DEF new
  <1>16. /\ step \in Before["loads"] /\ step' \notin Before["loads"]
         /\ \A t \in LoadTypes : IsAhead("loads", t) /\ ~IsAhead("loads", t)' /\ t \notin DOMAIN tables
    <2>1. step \in Before["loads"] /\ step' \notin Before["loads"]
      BY <1>1, <1>4, BeforeEnds
    <2>2. \A t \in LoadTypes : IsAhead("loads", t) /\ ~IsAhead("loads", t)'
      BY <1>1, <1>4, AheadFades
    <2> QED
      BY <1>4, <1>5, <2>1, <2>2 DEF Layout
  <1>17. /\ DOMAIN tables' = DOMAIN tables \cup some
         /\ \A t : t \notin some => TableOf(t)' = TableOf(t)
    <2>1. DOMAIN tables' = DOMAIN tables \cup some
      BY <1>3
    <2>2. ASSUME NEW t, t \notin some PROVE TableOf(t)' = TableOf(t)
      <3>1. CASE t \in DOMAIN tables
        <4>1. t # "PowerLoad" /\ t # "InterruptiblePowerLoad"
          BY <1>16, <3>1 DEF LoadTypes
        <4> QED
          BY <1>3, <3>1, <4>1 DEF TableOf
      <3>2. CASE t \notin DOMAIN tables
        BY <2>1, <2>2, <3>2 DEF TableOf
      <3> QED
        BY <3>1, <3>2
    <2> QED
      BY <2>1, <2>2
  <1>18. ASSUME NEW t \in LoadTypes
         PROVE  /\ TableOf(t) = <<>> /\ IsTable(K[t]) /\ Len(K[t]) <= Len(network.loads)
                /\ DOMAIN TableOf(t)' = DOMAIN K[t]
                /\ \A k \in DOMAIN K[t] : TableOf(t)'[k].name = K[t][k].name
    <2>1. TableOf(t) = <<>>
      BY <1>16 DEF TableOf
    <2>2. Len(network.loads) \in Nat /\ Len(kept) \in Nat /\ Len(plain) \in Nat /\ Len(priced) \in Nat
      BY <1>5, <1>8, <1>10, Tables
    <2>3. CASE t = "PowerLoad"
      <3>1. K[t] = plain
        BY <2>3 DEF LoadTypes
      <3>2. CASE plain # <<>>
        <4>1. t \in some
          BY <2>3, <3>2
        <4>2. TableOf(t)' = plainRows
          BY <1>3, <2>3, <4>1 DEF TableOf
        <4> QED
          BY <1>6, <1>8, <1>10, <2>1, <2>2, <3>1, <4>2
      <3>3. CASE plain = <<>>
        <4>1. t \notin some
          BY <2>3, <3>3
        <4>2. TableOf(t)' = <<>>
          BY <1>17, <2>1, <4>1
        <4> QED
          BY <1>8, <1>10, <2>1, <2>2, <3>1, <3>3, <4>2
      <3> QED
        BY <3>2, <3>3
    <2>4. CASE t = "InterruptiblePowerLoad"
      <3>1. K[t] = priced
        BY <2>4 DEF LoadTypes
      <3>2. CASE priced # <<>>
        <4>1. t \in some
          BY <2>4, <3>2
        <4>2. TableOf(t)' = pricedRows
          BY <1>3, <2>4, <4>1 DEF TableOf
        <4> QED
          BY <1>6, <1>8, <1>10, <2>1, <2>2, <3>1, <4>2
      <3>3. CASE priced = <<>>
        <4>1. t \notin some
          BY <2>4, <3>3
        <4>2. TableOf(t)' = <<>>
          BY <1>17, <2>1, <4>1
        <4> QED
          BY <1>8, <1>10, <2>1, <2>2, <3>1, <3>3, <4>2
      <3> QED
        BY <3>2, <3>3
    <2> QED
      BY <2>3, <2>4 DEF LoadTypes
  <1>19. K["PowerLoad"] = plain /\ K["InterruptiblePowerLoad"] = priced /\ T = {"PowerLoad", "InterruptiblePowerLoad"}
    BY DEF LoadTypes
  <1>20. T \in SUBSET ClassTypes("loads") /\ \A t \in ClassTypes("loads") : t \in T
    BY <1>4
  <1>21. \A t \in T : /\ IsTable(K[t]) /\ Len(K[t]) <= Len(network.loads)
                      /\ TableOf(t) = <<>> /\ DOMAIN TableOf(t)' = DOMAIN K[t]
                      /\ \A k \in DOMAIN K[t] : TableOf(t)'[k].name = K[t][k].name
    BY <1>18
  <1> HIDE DEF T, K, some
  <1>22. ASSUME NEW r \in ToSet(network.loads) PROVE Settled("loads", r.name)'
    <2>1. Untouched("loads", r.name)
      BY <1>4, <1>5, <1>16 DEF SettledClass, Undecided
    <2>2. Len(network.loads) \in Nat
      BY <1>5, Tables
    <2>3. CASE Drops(rules, r)
      <3>1. (\A t \in T : NamesNone(K[t], r.name)) /\ OneEvent(new, "loads", r.name)
        <4>1. NamesNone(kept, r.name) /\ OneEvent(gone, "loads", r.name)
          BY <1>8, <1>9, <2>3
        <4>2. NamesNone(plain, r.name) /\ NamesNone(priced, r.name)
          BY <1>12, <4>1
        <4> QED
          BY <1>4, <1>15, <1>19, <4>1, <4>2
      <3> QED
        BY <1>2, <1>5, <1>14, <1>20, <1>21, <2>1, <2>2, <3>1, ATreatedClass
    <2>4. CASE ~Drops(rules, r)
      <3>1. /\ NoEvent(new, "loads", r.name)
            /\ \E t \in T : NamesOne(K[t], r.name) /\ \A other \in T \ {t} : NamesNone(K[other], r.name)
        <4>1. r \in ToSet(kept) /\ NoEvent(gone, "loads", r.name)
          BY <1>8, <1>9, <2>4
        <4>2. \/ NamesOne(plain, r.name) /\ NamesNone(priced, r.name)
              \/ NamesOne(priced, r.name) /\ NamesNone(plain, r.name)
          BY <1>11, <4>1
        <4> QED
          BY <1>4, <1>15, <1>19, <4>1, <4>2
      <3> QED
        BY <1>2, <1>5, <1>14, <1>20, <1>21, <2>1, <2>2, <3>1, ATreatedClass
    <2> QED
      BY <2>3, <2>4
  <1>23. SettledClass("loads")'
    <2>1. \A r : ~Undecided("loads", r)'
      BY <1>16 DEF Undecided, PlantTypes
    <2> QED
      BY <1>2, <1>22, <2>1 DEF SettledClass
  <1>24. Layout' /\ \A other \in Classes : other # "loads" /\ "loads" \notin PlantTypes(other) => SettledClass(other)'
    <2>1. some \subseteq LoadTypes
      BY DEF some
    <2>2. \A other \in Classes : \A t \in LoadTypes : t \in ClassTypes(other) => other = "loads"
      BY DEF Classes, ClassTypes, TypesOf, LoadTypes, GeneratorTypes, StorageTypes
    <2>3. \A other \in Classes : \A t \in ClassTypes(other) : t \in some => ~IsAhead(other, t)'
      <3>1. ASSUME NEW other \in Classes, NEW t \in ClassTypes(other), t \in some PROVE other = "loads" /\ t \in LoadTypes
        BY <2>1, <2>2, <3>1
      <3> QED
        BY <1>16, <3>1
    <2>4. \A other \in Classes :
             other = "loads" \/ ((\A name : NoEvent(new, other, name)) /\ some \cap ClassTypes(other) = {})
      <3>1. ASSUME NEW other \in Classes, other # "loads", NEW name PROVE NoEvent(new, other, name)
        <4>1. NoEvent(gone, other, name)
          BY <1>8, <3>1 DEF NoEvent
        <4> QED
          BY <1>15, <4>1
      <3> QED
        BY <2>1, <2>2, <3>1
    <2> QED
      BY <1>1, <1>2, <1>5, <1>14, <1>17, <2>3, <2>4, TheRestGoesOn
  <1>25. Scoped'
    BY <1>1, <1>2, <1>5, ScopedStays
  <1>26. \A other \in Classes : "loads" \notin PlantTypes(other)
    BY DEF PlantTypes, TypesOf, GeneratorTypes, StorageTypes
  <1> QED
    BY <1>23, <1>24, <1>25, <1>26 DEF Fated

(* -------------------------------- plants -------------------------------- *)

\* Reading a source table decides the rows its rules drop, and brings the others into scope.
LEMMA AScopeIsRead ==
  ASSUME Fated, NEW class \in {"generators", "storage_units"}, ReadScope(class)
  PROVE  Fated'
  <1> DEFINE rows == network[class]
             rules == ScopeRules(class, rows)
             kept == Kept(rules, rows)
             new == Skipped(class, rules, rows)
  <1>1. step = class /\ step' = Follows[class] /\ class \in DOMAIN Follows \ Unmapped /\ class \in Classes
    BY PartsFollow, OnePart DEF ReadScope, Unmapped, Classes
  <1>2. network' = network /\ tables' = tables /\ scope' = kept /\ skips' = skips \o new
    BY DEF ReadScope
  <1>3. /\ Layout /\ Scoped /\ \A other \in Classes : SettledClass(other)
        /\ IsTable(skips) /\ IsTable(rows) /\ NamedApart(rows)
    BY <1>1 DEF Fated, Layout
  <1>4. IsRules(rules) /\ \A r \in ToSet(rows) : ~Drops(rules, r) =>
            r.carrier \in DOMAIN TypeOf /\ TypeOf[r.carrier] \in TypesOf(class)
    BY RulesOfAScope
  <1> HIDE DEF rules
  <1>5. /\ IsTable(kept) /\ NamedApart(kept) /\ Len(kept) <= Len(rows)
        /\ ToSet(kept) = {r \in ToSet(rows) : ~Drops(rules, r)}
        /\ IsTable(new) /\ \A k \in DOMAIN new : new[k].class = class
        /\ \A r \in ToSet(rows) :
             IF Drops(rules, r)
               THEN NamesNone(kept, r.name) /\ NamesOne(new, r.name)
               ELSE NamesOne(kept, r.name) /\ NamesNone(new, r.name)
    BY <1>3, <1>4, KeptOrSkipped
  <1>6. ASSUME NEW name
        PROVE  (NamesOne(new, name) => OneEvent(new, class, name)) /\ (NamesNone(new, name) => NoEvent(new, class, name))
    BY <1>5, SkippedOfAClass
  <1>7. \A other, name : other # class => NoEvent(new, other, name)
    BY <1>5 DEF NoEvent
  <1> HIDE DEF kept, new
  <1>8. PlantTypes(class) = TypesOf(class) /\ TypesOf(class) # {}
    BY DEF PlantTypes, TypesOf, GeneratorTypes, StorageTypes
  <1>9. /\ step \in Before[class] /\ step' \notin Before[class]
        /\ \A type \in TypesOf(class) : step' \in Ahead[type]
    BY <1>1, BeforeEnds, AheadEnds
  <1>10. \A type : TableOf(type)' = TableOf(type)
    BY <1>2 DEF TableOf
  <1>11. ASSUME NEW name
         PROVE  /\ NoEvent(new, class, name) => (Untouched(class, name) => Untouched(class, name)')
                /\ OneEvent(new, class, name) => (Untouched(class, name) => Settled(class, name)')
    <2> DEFINE T == {}
               K == <<>>
    <2>1. T \in SUBSET ClassTypes(class) /\ \A type : type \notin T
      OBVIOUS
    <2> HIDE DEF T, K
    <2>2. Len(network[class]) \in Nat
      BY <1>3, Tables
    <2>3. /\ \A type \in T : NamesNone(K[type], name)
          /\ \A type \in T : /\ IsTable(K[type]) /\ Len(K[type]) <= Len(network[class])
                             /\ TableOf(type) = <<>> /\ DOMAIN TableOf(type)' = DOMAIN K[type]
                             /\ \A k \in DOMAIN K[type] : TableOf(type)'[k].name = K[type][k].name
          /\ \A type \in ClassTypes(class) \ T : TableOf(type)' = TableOf(type)
      BY <1>10, <2>1
    <2> QED
      BY <1>2, <1>3, <1>5, <2>1, <2>2, <2>3, ATreatedClass
  <1>12. SettledClass(class)'
    <2>1. ASSUME NEW r \in ToSet(rows)
          PROVE  IF Undecided(class, r)' THEN Untouched(class, r.name)' ELSE Settled(class, r.name)'
      <3>1. Untouched(class, r.name)
        BY <1>1, <1>3, <1>9 DEF SettledClass, Undecided
      <3>2. Undecided(class, r)' <=>
              \/ step' \in Before[class]
              \/ r \in ToSet(scope') /\ \E type \in PlantTypes(class) : TypeOf[r.carrier] = type /\ step' \in Ahead[type]
        BY DEF Undecided, PlantTypes, TypesOf, GeneratorTypes, StorageTypes
      <3>3. CASE Drops(rules, r)
        <4>1. ~Undecided(class, r)'
          BY <1>2, <1>5, <1>9, <3>2, <3>3
        <4>2. OneEvent(new, class, r.name)
          BY <1>5, <1>6, <3>3
        <4> QED
          BY <1>11, <3>1, <4>1, <4>2
      <3>4. CASE ~Drops(rules, r)
        <4>1. r \in ToSet(scope') /\ TypeOf[r.carrier] \in TypesOf(class)
          BY <1>2, <1>4, <1>5, <3>4
        <4>2. Undecided(class, r)'
          BY <1>8, <1>9, <3>2, <4>1
        <4>3. NoEvent(new, class, r.name)
          BY <1>5, <1>6, <3>4
        <4> QED
          BY <1>11, <3>1, <4>2, <4>3
      <3> QED
        BY <3>3, <3>4
    <2> QED
      BY <1>2, <2>1 DEF SettledClass
  <1>13. \A other \in Classes : class \notin PlantTypes(other)
    BY DEF PlantTypes, TypesOf, GeneratorTypes, StorageTypes
  <1>14. Layout' /\ \A other \in Classes : other # class /\ class \notin PlantTypes(other) => SettledClass(other)'
    <2> DEFINE W == {}
    <2>1. DOMAIN tables' = DOMAIN tables \cup W /\ \A type : type \notin W
      BY <1>2
    <2> HIDE DEF W
    <2>2. \A other \in Classes : W \cap ClassTypes(other) = {}
      BY <2>1
    <2> QED
      BY <1>1, <1>2, <1>3, <1>5, <1>7, <1>10, <2>1, <2>2, TheRestGoesOn
  <1>15. Scoped'
    <2>1. ASSUME NEW other \in {"generators", "storage_units"}, other # class, NEW type \in PlantTypes(other)
          PROVE  step' \notin Ahead[type]
      <3>1. type \in TypesOf(other)
        BY <2>1 DEF PlantTypes
      <3>2. step' \in Ahead[type] => step \in Ahead[type]
        BY <1>1, <1>13, <2>1, <3>1, AheadEnds DEF PlantTypes
      <3>3. step \in Ahead[type] => step \in TypesOf(other)
        BY <1>1, <2>1, <3>1, AheadEnds
      <3>4. step \notin TypesOf(other)
        BY <1>1, <1>13, <2>1 DEF PlantTypes, Classes
      <3> QED
        BY <3>2, <3>3, <3>4
    <2>2. ToSet(scope') \subseteq ToSet(rows) /\ \A r \in ToSet(scope') : TypeOf[r.carrier] \in TypesOf(class)
      BY <1>2, <1>4, <1>5
    <2>3. ASSUME NEW other \in {"generators", "storage_units"}, \E type \in PlantTypes(other) : step' \in Ahead[type]
          PROVE  /\ IsTable(scope') /\ NamedApart(scope')
                 /\ Len(scope') <= Len(network[other]) /\ ToSet(scope') \subseteq ToSet(network[other])
                 /\ \A r \in ToSet(scope') : TypeOf[r.carrier] \in TypesOf(other)
      <3>1. other = class
        BY <2>1, <2>3
      <3> QED
        BY <1>2, <1>5, <2>2, <3>1
    <2> QED
      BY <1>2, <2>3 DEF Scoped, PlantTypes, TypesOf, GeneratorTypes, StorageTypes
  <1> QED
    BY <1>12, <1>13, <1>14, <1>15 DEF Fated

\* One mapping decides the rows in scope that are of its type, and no others.
LEMMA OneTypeIsMapped ==
  ASSUME Fated, NEW class \in {"generators", "storage_units"}, NEW type \in TypesOf(class), MapOne(class, type)
  PROVE  Fated'
  <1> DEFINE rows == network[class]
             mine == Selected(scope, {r \in ToSet(scope) : TypeOf[r.carrier] = type})
             rules == MappingRules(type, mine)
             kept == Kept(rules, mine)
             new == Skipped(class, rules, mine)
             out == Numbered(kept, LAMBDA r, id :
                      [id |-> id, name |-> r.name, bus |-> r.bus, capacity |-> Rating(type, r)])
  <1>1. type \in DOMAIN Follows \ Unmapped /\ class \in Classes
    BY OnePart DEF TypesOf, GeneratorTypes, StorageTypes, Unmapped, Classes
  <1>2. step = type /\ step' = Follows[type]
    BY <1>1, PartsFollow DEF MapOne
  <1>3. /\ network' = network /\ scope' = scope /\ skips' = skips \o new
        /\ IF rows = <<>> THEN tables' = tables ELSE Put(type, out)
    BY DEF MapOne
  <1>4. DOMAIN out = DOMAIN kept /\ \A k \in DOMAIN out : out[k].name = kept[k].name
    BY DEF Numbered
  <1> HIDE DEF out
  <1>5. /\ Layout /\ Scoped /\ \A other \in Classes : SettledClass(other)
        /\ IsTable(skips) /\ IsTable(rows) /\ NamedApart(rows)
    BY <1>1, <1>2 DEF Fated, Layout
  <1>6. /\ PlantTypes(class) = TypesOf(class) /\ ClassTypes(class) = TypesOf(class)
        /\ type \in ClassTypes(class)
        /\ \A other \in Classes : type \in ClassTypes(other) \/ type \in PlantTypes(other) => other = class
    BY DEF PlantTypes, ClassTypes, TypesOf, GeneratorTypes, StorageTypes, LoadTypes, Classes
  <1>7. /\ step \in Ahead[type] /\ step' \notin Ahead[type]
        /\ step \notin Before[class] /\ step' \notin Before[class]
        /\ \A t \in TypesOf(class) : t # type => (step' \in Ahead[t] <=> step \in Ahead[t])
    <2>1. type # class
      BY DEF TypesOf, GeneratorTypes, StorageTypes
    <2>2. step \in Ahead[type] /\ step' \notin Ahead[type] /\ step \notin Before[class]
      BY <1>1, <1>2, AheadEnds
    <2>3. step' \notin Before[class]
      BY <1>1, <1>2, <2>2, BeforeEnds
    <2>4. \A t \in TypesOf(class) : t # type => (step' \in Ahead[t] <=> step \in Ahead[t])
      BY <1>1, <1>2, <2>1, AheadEnds
    <2> QED
      BY <2>2, <2>3, <2>4
  <1>8. /\ IsTable(scope) /\ NamedApart(scope) /\ Len(scope) <= Len(rows) /\ ToSet(scope) \subseteq ToSet(rows)
    BY <1>5, <1>6, <1>7 DEF Scoped
  <1>9. /\ IsTable(mine) /\ NamedApart(mine) /\ Len(mine) <= Len(scope)
        /\ ToSet(mine) = {r \in ToSet(scope) : TypeOf[r.carrier] = type}
    BY <1>8, SelectedRows
  <1> HIDE DEF mine
  <1>10. IsRules(rules)
    BY RulesOfAMapping
  <1> HIDE DEF rules
  <1>11. /\ IsTable(kept) /\ NamedApart(kept) /\ Len(kept) <= Len(mine)
         /\ IsTable(new) /\ \A k \in DOMAIN new : new[k].class = class
         /\ \A r \in ToSet(mine) :
              IF Drops(rules, r)
                THEN NamesNone(kept, r.name) /\ NamesOne(new, r.name)
                ELSE NamesOne(kept, r.name) /\ NamesNone(new, r.name)
         /\ \A name : (\A r \in ToSet(mine) : r.name # name) => NamesNone(kept, name) /\ NamesNone(new, name)
    BY <1>9, <1>10, KeptOrSkipped
  <1>12. ASSUME NEW name
         PROVE  (NamesOne(new, name) => OneEvent(new, class, name)) /\ (NamesNone(new, name) => NoEvent(new, class, name))
    BY <1>11, SkippedOfAClass
  <1>13. \A other, name : other # class => NoEvent(new, other, name)
    BY <1>11 DEF NoEvent
  <1> HIDE DEF kept, new
  <1>14. Len(rows) \in Nat /\ Len(kept) <= Len(rows)
    BY <1>5, <1>8, <1>9, <1>11, Tables
  <1>15. /\ IsAhead(class, type) /\ ~IsAhead(class, type)' /\ type \notin DOMAIN tables /\ TableOf(type) = <<>>
    <2>1. IsAhead(class, type) /\ ~IsAhead(class, type)'
      BY <1>1, <1>2, <1>6, AheadFades
    <2> QED
      BY <1>1, <1>5, <1>6, <2>1 DEF Layout, TableOf
  <1>16. SettledClass(class)'
    <2>1. CASE rows = <<>>
      <3>1. ToSet(rows) = {}
        BY <2>1 DEF ToSet
      <3> QED
        BY <1>3, <3>1 DEF SettledClass
    <2>2. CASE rows # <<>>
      <3> DEFINE T == {type}
                 K == [t \in T |-> kept]
      <3>1. TableOf(type)' = out /\ \A other : other # type => TableOf(other)' = TableOf(other)
        BY <1>3, <2>2, PutWrites
      <3>2. T \in SUBSET ClassTypes(class) /\ K[type] = kept /\ \A t : t \in T <=> t = type
        BY <1>6
      <3> HIDE DEF T, K
      <3>3. /\ \A t \in T : /\ IsTable(K[t]) /\ Len(K[t]) <= Len(network[class])
                            /\ TableOf(t) = <<>> /\ DOMAIN TableOf(t)' = DOMAIN K[t]
                            /\ \A k \in DOMAIN K[t] : TableOf(t)'[k].name = K[t][k].name
            /\ \A t \in ClassTypes(class) \ T : TableOf(t)' = TableOf(t)
        BY <1>4, <1>11, <1>14, <1>15, <3>1, <3>2
      <3>4. ASSUME NEW name
            PROVE  /\ NamesNone(kept, name) /\ NoEvent(new, class, name)
                        => (Untouched(class, name) => Untouched(class, name)') /\ (Settled(class, name) => Settled(class, name)')
                   /\ Untouched(class, name) /\ NamesNone(kept, name) /\ OneEvent(new, class, name)
                        => Settled(class, name)'
                   /\ Untouched(class, name) /\ NoEvent(new, class, name) /\ NamesOne(kept, name)
                        => Settled(class, name)'
        <4>1. /\ (\A t \in T : NamesNone(K[t], name)) <=> NamesNone(kept, name)
              /\ NamesOne(kept, name) =>
                   \E t \in T : NamesOne(K[t], name) /\ \A other \in T \ {t} : NamesNone(K[other], name)
          BY <3>2
        <4> HIDE DEF rows
        <4>2. Len(network[class]) \in Nat
          BY <1>14 DEF rows
        <4> QED
          BY <1>3, <1>5, <1>11, <3>2, <3>3, <4>1, <4>2, ATreatedClass
      <3>5. ASSUME NEW r \in ToSet(rows)
            PROVE  IF Undecided(class, r)' THEN Untouched(class, r.name)' ELSE Settled(class, r.name)'
        <4>1. IF Undecided(class, r) THEN Untouched(class, r.name) ELSE Settled(class, r.name)
          BY <1>1, <1>5 DEF SettledClass
        <4>2. /\ Undecided(class, r) <=> r \in ToSet(scope) /\ \E t \in TypesOf(class) : TypeOf[r.carrier] = t /\ step \in Ahead[t]
              /\ Undecided(class, r)' <=> r \in ToSet(scope) /\ \E t \in TypesOf(class) : TypeOf[r.carrier] = t /\ step' \in Ahead[t]
          <5>1. Undecided(class, r)' <=>
                  \/ step' \in Before[class]
                  \/ r \in ToSet(scope') /\ \E t \in PlantTypes(class) : TypeOf[r.carrier] = t /\ step' \in Ahead[t]
            BY DEF Undecided, PlantTypes, TypesOf, GeneratorTypes, StorageTypes
          <5> QED
            BY <1>3, <1>6, <1>7, <5>1 DEF Undecided
        <4>3. CASE r \in ToSet(mine)
          <5>1. r \in ToSet(scope) /\ TypeOf[r.carrier] = type
            BY <1>9, <4>3
          <5>2. Undecided(class, r) /\ ~Undecided(class, r)'
            BY <1>7, <4>2, <5>1
          <5>3. CASE Drops(rules, r)
            BY <1>11, <1>12, <3>4, <4>1, <4>3, <5>2, <5>3
          <5>4. CASE ~Drops(rules, r)
            BY <1>11, <1>12, <3>4, <4>1, <4>3, <5>2, <5>4
          <5> QED
            BY <5>3, <5>4
        <4>4. CASE r \notin ToSet(mine)
          <5>1. \A q \in ToSet(mine) : q.name # r.name
            <6>1. \A q \in ToSet(rows) : q.name = r.name => q = r
              BY <1>5, NameOfARow
            <6> QED
              BY <1>8, <1>9, <4>4, <6>1
          <5>2. NamesNone(kept, r.name) /\ NoEvent(new, class, r.name)
            BY <1>11, <1>12, <5>1
          <5>3. Undecided(class, r)' <=> Undecided(class, r)
            BY <1>7, <1>9, <4>2, <4>4
          <5> QED
            BY <3>4, <4>1, <5>2, <5>3
        <4> QED
          BY <4>3, <4>4
      <3> QED
        BY <1>3, <3>5 DEF SettledClass
    <2> QED
      BY <2>1, <2>2
  <1>17. Layout' /\ \A other \in Classes : other # type /\ type \notin PlantTypes(other) => SettledClass(other)'
    <2> DEFINE W == IF rows = <<>> THEN {} ELSE {type}
    <2>1. /\ DOMAIN tables' = DOMAIN tables \cup W /\ \A t : t \in W => t = type
          /\ \A t : t \notin W => TableOf(t)' = TableOf(t)
      <3>1. CASE rows = <<>>
        BY <1>3, <3>1 DEF TableOf
      <3>2. CASE rows # <<>>
        BY <1>3, <3>2, PutWrites
      <3> QED
        BY <3>1, <3>2
    <2> HIDE DEF W, rows
    <2>2. \A other \in Classes : \A t \in ClassTypes(other) : t \in W => ~IsAhead(other, t)'
      <3>1. ASSUME NEW other \in Classes, NEW t \in ClassTypes(other), t \in W PROVE other = class /\ t = type
        BY <1>6, <2>1, <3>1
      <3> QED
        BY <1>15, <3>1
    <2>3. \A other \in Classes :
            \/ other = type \/ type \in PlantTypes(other)
            \/ (\A name : NoEvent(new, other, name)) /\ W \cap ClassTypes(other) = {}
      <3>1. ASSUME NEW other \in Classes, other # class
            PROVE  (\A name : NoEvent(new, other, name)) /\ W \cap ClassTypes(other) = {}
        BY <1>6, <1>13, <2>1, <3>1
      <3> QED
        BY <1>6, <3>1
    <2>4. type # "buses"
      BY DEF TypesOf, GeneratorTypes, StorageTypes
    <2> QED
      BY <1>1, <1>2, <1>3, <1>5, <1>11, <2>1, <2>2, <2>3, <2>4, TheRestGoesOn
  <1>18. Scoped'
    <2>1. type \notin {"generators", "storage_units"}
      BY DEF TypesOf, GeneratorTypes, StorageTypes
    <2> QED
      BY <1>1, <1>2, <1>3, <1>5, <2>1, ScopedStays
  <1>19. \A other \in Classes : other = class \/ (other # type /\ type \notin PlantTypes(other))
    <2>1. \A other \in Classes : other # type
      BY DEF Classes, TypesOf, GeneratorTypes, StorageTypes
    <2> QED
      BY <1>6, <2>1
  <1> QED
    BY <1>16, <1>17, <1>18, <1>19 DEF Fated

LEMMA PlantsAreMapped == Fated /\ (MapGenerators \/ MapStorageUnits) => Fated'
  <1>1. ASSUME Fated, MapGenerators PROVE Fated'
    <2>1. GeneratorTypes = TypesOf("generators")
      BY DEF TypesOf
    <2>2. ReadScope("generators") \/ \E t \in TypesOf("generators") : MapOne("generators", t)
      BY <1>1, <2>1 DEF MapGenerators
    <2> QED
      BY <1>1, <2>2, AScopeIsRead, OneTypeIsMapped
  <1>2. ASSUME Fated, MapStorageUnits PROVE Fated'
    <2>1. StorageTypes = TypesOf("storage_units")
      BY DEF TypesOf
    <2>2. ReadScope("storage_units") \/ \E t \in TypesOf("storage_units") : MapOne("storage_units", t)
      BY <1>2, <2>1 DEF MapStorageUnits
    <2> QED
      BY <1>2, <2>2, AScopeIsRead, OneTypeIsMapped
  <1> QED
    BY <1>1, <1>2

(* ------------------------------- theorems ------------------------------- *)

LEMMA FatedInit == Init => Fated
  <1> SUFFICES ASSUME Init PROVE Fated
    OBVIOUS
  <1>1. step = "stage" /\ DOMAIN tables = {} /\ skips = <<>> /\ network \in Networks
    BY DEF Init, NoRows
  <1>2. /\ \A class \in Classes : IsTable(network[class])
        /\ Classes \subseteq DOMAIN network
        /\ network.buses = <<>> => network.lines = <<>> /\ network.links = <<>>
    BY <1>1, NetworksAssumption DEF IsNetwork, IsTable
  <1>3. Layout
    BY <1>1, <1>2, OnePart, NothingJoined DEF Layout, IsTable, Unmapped, BeforeBuses
  <1>4. Scoped
    <2>1. ASSUME NEW class, NEW type \in PlantTypes(class) PROVE step \notin Ahead[type]
      BY <1>1, NotAheadYet
    <2> QED
      BY <2>1 DEF Scoped
  <1> QED
    BY <1>1, <1>3, <1>4, NothingYet DEF Fated, Unmapped

LEMMA FatedStep == Fated /\ [Next]_vars => Fated'
  <1> QED
    BY NothingHappens, StagedNetwork, ValidatedNetwork, BusesAreMapped, PartsOfNoClass, LoadsAreMapped, PlantsAreMapped,
       LinesAreMapped, TheSinkKeepsFates DEF Next

LEMMA FatedMeans == Fated => EveryComponentHasOneFate
  <1> SUFFICES ASSUME Fated, IsMapped, NEW class \in Classes, NEW r \in ToSet(network[class])
               PROVE  LET rows == {p \in ClassTypes(class) \X (1 .. Len(network[class])) :
                                     p[2] \in DOMAIN TableOf(p[1]) /\ TableOf(p[1])[p[2]].name = r.name}
                          events == {i \in DOMAIN skips : skips[i].class = class /\ skips[i].name = r.name}
                      IN  Cardinality(rows) + Cardinality(events) = 1
    BY DEF EveryComponentHasOneFate
  <1> DEFINE rows == {p \in ClassTypes(class) \X (1 .. Len(network[class])) :
                        p[2] \in DOMAIN TableOf(p[1]) /\ TableOf(p[1])[p[2]].name = r.name}
             events == {i \in DOMAIN skips : skips[i].class = class /\ skips[i].name = r.name}
  <1>1. ~Undecided(class, r)
    BY DEF IsMapped, Undecided, Classes, Before, BeforeBuses, BeforeLoads, BeforeGenerators, BeforeUnits, BeforeLines,
           BeforeLinks, PlantTypes, TypesOf, GeneratorTypes, StorageTypes, Ahead
  <1>2. Settled(class, r.name)
    BY <1>1 DEF Fated, SettledClass
  <1>3. Len(network[class]) \in Nat
    BY Tables DEF Fated, Layout
  <1>4. /\ rows \subseteq RowsOf(class, r.name)
        /\ \A p \in RowsOf(class, r.name) : p[2] \in 1 .. Len(network[class]) => p \in rows
    BY <1>3 DEF RowsOf
  <1>5. events = EventsOf(class, r.name)
    BY DEF EventsOf
  <1> HIDE DEF rows, events
  <1>6. CASE /\ EventsOf(class, r.name) = {}
             /\ \E type \in ClassTypes(class) : \E i \in 1 .. Len(network[class]) : RowsOf(class, r.name) = {<<type, i>>}
    <2>1. PICK type \in ClassTypes(class), i \in 1 .. Len(network[class]) : RowsOf(class, r.name) = {<<type, i>>}
      BY <1>6
    <2>2. rows = {<<type, i>>}
      BY <1>4, <2>1
    <2>3. Cardinality(rows) = 1 /\ Cardinality(events) = 0
      BY <1>5, <1>6, <2>2, FS_Singleton, FS_EmptySet
    <2> QED
      BY <2>3 DEF rows, events
  <1>7. CASE RowsOf(class, r.name) = {} /\ \E i : EventsOf(class, r.name) = {i}
    <2>1. PICK i : EventsOf(class, r.name) = {i}
      BY <1>7
    <2>2. rows = {}
      BY <1>4, <1>7
    <2>3. Cardinality(rows) = 0 /\ Cardinality(events) = 1
      BY <1>5, <2>1, <2>2, FS_Singleton, FS_EmptySet
    <2> QED
      BY <2>3 DEF rows, events
  <1> QED
    BY <1>2, <1>6, <1>7 DEF Settled

\* Whatever network the leg starts from, whatever the carriers are mapped to and however the
\* shortfalls are priced, once the components are mapped each component of the network is one
\* row of one Sienna table or one COMPONENT_SKIPPED event: the scope rules of a source table,
\* the silent carrier filter of each mapping and the rules of each mapping share its rows out
\* without losing one or writing one twice.
THEOREM ComponentsHaveOneFate == Spec => []EveryComponentHasOneFate
  <1>1. Spec => []Fated
    BY FatedInit, FatedStep, PTL DEF Spec
  <1> QED
    BY <1>1, FatedMeans, PTL

(***************************************************************************)
(* Ids and references, from the first table to the document.               *)
(***************************************************************************)

(* ---------------------------------- ids --------------------------------- *)

\* No two rows of some tables have one id, and the ids are as many as the rows.
Identified(some) ==
  /\ IsFiniteSet(PlacesOf(some))
  /\ \A p \in PlacesOf(some) : some[p[1]][p[2]].id \in 1 .. Cardinality(PlacesOf(some))
  /\ \A p, q \in PlacesOf(some) : some[p[1]][p[2]].id = some[q[1]][q[2]].id => p = q
  /\ \A t \in DOMAIN some : IsTable(some[t])

LEMMA PlaceOfARow ==
  ASSUME NEW some
  PROVE  /\ \A t, i : <<t, i>> \in PlacesOf(some) <=> t \in DOMAIN some /\ i \in DOMAIN some[t]
         /\ \A p \in PlacesOf(some) : p = <<p[1], p[2]>> /\ p[1] \in DOMAIN some /\ p[2] \in DOMAIN some[p[1]]
  <1>1. ASSUME NEW p PROVE p \in PlacesOf(some) <=> \E t \in DOMAIN some : p \in {t} \X DOMAIN some[t]
    BY DEF PlacesOf
  <1>2. ASSUME NEW p, NEW t, NEW S PROVE p \in {t} \X S <=> p = <<p[1], p[2]>> /\ p[1] = t /\ p[2] \in S
    OBVIOUS
  <1>3. ASSUME NEW p \in PlacesOf(some)
        PROVE  p = <<p[1], p[2]>> /\ p[1] \in DOMAIN some /\ p[2] \in DOMAIN some[p[1]]
    <2>1. PICK t \in DOMAIN some : p \in {t} \X DOMAIN some[t]
      BY <1>1
    <2>2. p = <<p[1], p[2]>> /\ p[1] = t /\ p[2] \in DOMAIN some[t]
      BY <1>2, <2>1
    <2> QED
      BY <2>2
  <1>4. ASSUME NEW t, NEW i PROVE <<t, i>> \in PlacesOf(some) <=> t \in DOMAIN some /\ i \in DOMAIN some[t]
    <2>1. ASSUME t \in DOMAIN some, i \in DOMAIN some[t] PROVE <<t, i>> \in PlacesOf(some)
      <3>1. <<t, i>> \in {t} \X DOMAIN some[t]
        BY <2>1
      <3> QED
        BY <1>1, <2>1, <3>1
    <2>2. ASSUME <<t, i>> \in PlacesOf(some) PROVE t \in DOMAIN some /\ i \in DOMAIN some[t]
      BY <1>3, <2>2
    <2> QED
      BY <2>1, <2>2
  <1> QED
    BY <1>3, <1>4

LEMMA SizeOfAColumn ==
  ASSUME NEW t, NEW n \in Nat
  PROVE  IsFiniteSet({t} \X (1 .. n)) /\ Cardinality({t} \X (1 .. n)) = n
  <1> DEFINE S == {t}  T == 1 .. n
  <1>1. IsFiniteSet(T) /\ Cardinality(T) = IF 1 > n THEN 0 ELSE n - 1 + 1
    <2>1. 1 \in Int /\ n \in Int
      OBVIOUS
    <2> QED
      BY <2>1, FS_Interval
  <1>2. IsFiniteSet(S) /\ Cardinality(S) = 1
    BY FS_Singleton
  <1>3. Cardinality(T) = n
    <2> HIDE DEF T
    <2> QED
      BY <1>1
  <1> HIDE DEF S, T
  <1>4. IsFiniteSet(S \X T) /\ Cardinality(S \X T) = Cardinality(S) * Cardinality(T)
    BY <1>1, <1>2, FS_Product
  <1>5. Cardinality(S \X T) = n
    BY <1>2, <1>3, <1>4
  <1> QED
    BY <1>4, <1>5 DEF S, T

\* A table numbered on from the rows before it.
LEMMA IdsGoOn ==
  ASSUME NEW some, Identified(some), NEW type, type \notin DOMAIN some, NEW out, IsTable(out),
         \A i \in DOMAIN out : out[i].id = Cardinality(PlacesOf(some)) + i,
         NEW more, DOMAIN more = DOMAIN some \cup {type}, more[type] = out,
         \A t \in DOMAIN some : more[t] = some[t]
  PROVE  Identified(more) /\ Cardinality(PlacesOf(more)) = Cardinality(PlacesOf(some)) + Len(out)
  <1> DEFINE old == PlacesOf(some)
             new == {type} \X (1 .. Len(out))
             n == Cardinality(PlacesOf(some))
  <1>1. DOMAIN out = 1 .. Len(out) /\ Len(out) \in Nat
    BY Tables
  <1>2. n \in Nat
    BY FS_CardinalityType DEF Identified
  <1>3. PlacesOf(more) = old \cup new
    <2>1. ASSUME NEW p PROVE p \in PlacesOf(more) <=> p \in old \cup new
      <3>1. p \in new <=> p = <<p[1], p[2]>> /\ p[1] = type /\ p[2] \in DOMAIN out
        BY <1>1
      <3>2. p \in PlacesOf(more) <=> p = <<p[1], p[2]>> /\ p[1] \in DOMAIN more /\ p[2] \in DOMAIN more[p[1]]
        BY PlaceOfARow
      <3>3. p \in old <=> p = <<p[1], p[2]>> /\ p[1] \in DOMAIN some /\ p[2] \in DOMAIN some[p[1]]
        BY PlaceOfARow
      <3> QED
        BY <3>1, <3>2, <3>3
    <2> QED
      BY <2>1
  <1>4. IsFiniteSet(new) /\ Cardinality(new) = Len(out)
    BY <1>1, SizeOfAColumn
  <1>5. old \cap new = {}
    <2>1. \A p \in old : p[1] # type
      BY PlaceOfARow
    <2>2. \A p \in new : p[1] = type
      OBVIOUS
    <2> QED
      BY <2>1, <2>2
  <1>6. IsFiniteSet(PlacesOf(more)) /\ Cardinality(PlacesOf(more)) = n + Len(out)
    <2>1. IsFiniteSet(old) /\ n = Cardinality(old)
      BY DEF Identified
    <2> HIDE DEF old, new, n
    <2>2. IsFiniteSet(old \cup new) /\ Cardinality(old \cup new) = n + Cardinality(new) - Cardinality(old \cap new)
      BY <1>4, <2>1, FS_Union
    <2>3. Cardinality(old \cap new) = 0
      BY <1>5, FS_EmptySet
    <2> QED
      BY <1>1, <1>2, <1>3, <1>4, <2>2, <2>3
  <1>7. /\ \A p \in old : more[p[1]][p[2]] = some[p[1]][p[2]] /\ some[p[1]][p[2]].id \in 1 .. n
        /\ \A p \in new : p[2] \in 1 .. Len(out) /\ more[p[1]][p[2]].id = n + p[2] /\ p = <<type, p[2]>>
    <2>1. ASSUME NEW p \in old PROVE more[p[1]][p[2]] = some[p[1]][p[2]] /\ some[p[1]][p[2]].id \in 1 .. n
      BY PlaceOfARow DEF Identified
    <2>2. ASSUME NEW p \in new PROVE p[2] \in 1 .. Len(out) /\ more[p[1]][p[2]].id = n + p[2] /\ p = <<type, p[2]>>
      BY <1>1
    <2> QED
      BY <2>1, <2>2
  <1>8. ASSUME NEW p \in PlacesOf(more) PROVE more[p[1]][p[2]].id \in 1 .. (n + Len(out))
    <2> HIDE DEF old, new, n
    <2> QED
      BY <1>1, <1>2, <1>3, <1>7
  <1>9. ASSUME NEW p \in PlacesOf(more), NEW q \in PlacesOf(more), more[p[1]][p[2]].id = more[q[1]][q[2]].id
        PROVE  p = q
    <2>1. CASE p \in old /\ q \in old
      BY <1>7, <1>9, <2>1 DEF Identified
    <2> HIDE DEF old, new, n
    <2>2. CASE p \in old /\ q \in new
      BY <1>1, <1>2, <1>7, <1>9, <2>2
    <2>3. CASE p \in new /\ q \in old
      BY <1>1, <1>2, <1>7, <1>9, <2>3
    <2>4. CASE p \in new /\ q \in new
      <3>1. p[2] = q[2]
        BY <1>1, <1>2, <1>7, <1>9, <2>4
      <3> QED
        BY <1>7, <2>4, <3>1
    <2> QED
      BY <1>3, <2>1, <2>2, <2>3, <2>4
  <1>10. \A t \in DOMAIN more : IsTable(more[t])
    BY DEF Identified
  <1> QED
    BY <1>6, <1>8, <1>9, <1>10 DEF Identified

(* --------------------------- references by name ------------------------- *)

\* What a row of a class says of the component it is made of, its name and where it is.
Says(class, row, r) ==
  /\ row.name = r.name
  /\ CASE class = "buses" -> row.area = r.area
       [] class \in {"lines", "links"} -> row.bus0 = r.bus0 /\ row.bus1 = r.bus1
       [] OTHER -> row.bus = r.bus

\* The rows of a table are made of rows of its class.
Original ==
  \A class \in Classes : \A type \in ClassTypes(class) \cap DOMAIN tables : \A i \in DOMAIN tables[type] :
    \E r \in ToSet(network[class]) : Says(class, tables[type][i], r)

\* Areas and arcs are derived once, each by its own part.
Derived ==
  /\ step \notin {"arcs", "resolve", "store", "written", "failed"} => "Area" \notin DOMAIN tables
  /\ step \notin {"resolve", "store", "written", "failed"} => "Arc" \notin DOMAIN tables

\* What the sink has written is the tables, every name of which it could resolve.
Resolved ==
  /\ "components" \in DOMAIN document
  /\ step \in {"store", "written"} => document.components = Components /\ RefsHold /\ BranchesHaveArcs

Sourced == Identified(tables) /\ Original /\ Derived /\ Resolved

\* A part that writes some tables, or none, and leaves those there are.
LEMMA TablesAreAdded ==
  ASSUME Sourced, NEW part \in DOMAIN Follows \ {"resolve", "store"}, step = part, step' = Follows[part],
         network' = network, document' = document, Identified(tables'), NEW W, DOMAIN tables' = DOMAIN tables \cup W,
         \A t \in DOMAIN tables : tables'[t] = tables[t],
         "Area" \in W => part = "areas", "Arc" \in W => part = "arcs",
         \A class \in Classes : \A type \in ClassTypes(class) \cap W : \A i \in DOMAIN tables'[type] :
           \E r \in ToSet(network[class]) : Says(class, tables'[type][i], r)
  PROVE  Sourced'
  <1>1. Original'
    <2>1. ASSUME NEW class \in Classes, NEW type \in ClassTypes(class) \cap DOMAIN tables', NEW i \in DOMAIN tables'[type]
          PROVE  \E r \in ToSet(network[class]) : Says(class, tables'[type][i], r)
      <3>1. CASE type \in DOMAIN tables
        BY <3>1, <2>1 DEF Sourced, Original
      <3>2. CASE type \notin DOMAIN tables
        BY <3>2, <2>1
      <3> QED
        BY <3>1, <3>2
    <2>2. \A class \in Classes : \A type \in ClassTypes(class) \cap DOMAIN tables' : \A i \in DOMAIN tables'[type] :
            \E r \in ToSet(network'[class]) : Says(class, tables'[type][i], r)
      BY <2>1
    <2> QED
      BY <2>2 DEF Original, ClassTypes, TypesOf, LoadTypes, GeneratorTypes, StorageTypes, Classes
  <1>2. /\ part # "areas" => step' # "arcs"
        /\ part \notin {"areas", "arcs"} => step' \notin {"arcs", "resolve"}
        /\ part = "areas" => step' = "arcs"
        /\ part = "arcs" => step' = "resolve"
        /\ part # "arcs" => step' # "resolve"
        /\ step' \notin {"store", "written", "failed"}
        /\ step \notin {"resolve", "store", "written", "failed"}
        /\ step = "arcs" => part = "arcs"
    BY OnePart
  <1>3. Derived'
    BY <1>2 DEF Sourced, Derived
  <1>4. Resolved'
    BY <1>2 DEF Sourced, Resolved
  <1> QED
    BY <1>1, <1>3, <1>4 DEF Sourced, Identified, PlacesOf

\* A part that writes no table.
LEMMA NoTableIsAdded ==
  ASSUME Sourced, NEW part \in DOMAIN Follows \ {"resolve", "store"}, step = part, step' = Follows[part],
         network' = network, document' = document, tables' = tables
  PROVE  Sourced'
  <1> DEFINE W == {}
  <1>1. /\ Identified(tables') /\ DOMAIN tables' = DOMAIN tables \cup W
        /\ \A t \in DOMAIN tables : tables'[t] = tables[t]
        /\ "Area" \notin W /\ "Arc" \notin W
        /\ \A class \in Classes : ClassTypes(class) \cap W = {}
    BY DEF Sourced
  <1> HIDE DEF W
  <1> QED
    BY <1>1, TablesAreAdded

\* A part that writes one table, of rows it numbers on.
LEMMA ATableIsAdded ==
  ASSUME Sourced, NEW part \in DOMAIN Follows \ {"resolve", "store"}, step = part, step' = Follows[part],
         network' = network, document' = document,
         NEW type, type \notin DOMAIN tables, NEW out, Put(type, out), NEW kept, IsTable(kept), DOMAIN out = DOMAIN kept,
         out = [i \in DOMAIN out |-> out[i]], \A i \in DOMAIN out : out[i].id = FirstFreeId + i - 1,
         type = "Area" => part = "areas", type = "Arc" => part = "arcs",
         \A class \in Classes : type \in ClassTypes(class) =>
           \A i \in DOMAIN out : \E r \in ToSet(network[class]) : Says(class, out[i], r)
  PROVE  Sourced'
  <1>1. DOMAIN out = 1 .. Len(kept) /\ Len(kept) \in Nat
    BY Tables
  <1>2. IsTable(out)
    BY <1>1, TableOfRows
  <1>3. Cardinality(PlacesOf(tables)) \in Nat
    BY FS_CardinalityType DEF Sourced, Identified
  <1>4. \A i \in DOMAIN out : out[i].id = Cardinality(PlacesOf(tables)) + i
    <2>1. ASSUME NEW i \in 1 .. Len(kept) PROVE FirstFreeId + i - 1 = Cardinality(PlacesOf(tables)) + i
      BY <1>1, <1>3 DEF FirstFreeId
    <2> QED
      BY <1>1, <2>1
  <1>5. /\ DOMAIN tables' = DOMAIN tables \cup {type} /\ tables'[type] = out
        /\ \A t \in DOMAIN tables : tables'[t] = tables[t]
    BY DEF Put
  <1>6. Identified(tables')
    BY <1>2, <1>4, <1>5, IdsGoOn DEF Sourced
  <1> DEFINE W == {type}
  <1>7. /\ DOMAIN tables' = DOMAIN tables \cup W
        /\ "Area" \in W => part = "areas"
        /\ "Arc" \in W => part = "arcs"
        /\ \A class \in Classes : \A t \in ClassTypes(class) \cap W : \A i \in DOMAIN tables'[t] :
             \E r \in ToSet(network[class]) : Says(class, tables'[t][i], r)
    BY <1>5
  <1> HIDE DEF W
  <1> QED
    BY <1>5, <1>6, <1>7, TablesAreAdded

LEMMA KeptRows ==
  ASSUME NEW rows, IsTable(rows), NEW rules
  PROVE  /\ IsTable(Kept(rules, rows))
         /\ \A i \in DOMAIN Kept(rules, rows) : Kept(rules, rows)[i] \in ToSet(rows)
  <1> DEFINE keep == {r \in ToSet(rows) : Verdict(rules, r) = None}
             kept == Selected(rows, keep)
  <1>1. Kept(rules, rows) = kept
    BY DEF Kept
  <1> HIDE DEF keep
  <1>2. IsTable(kept) /\ ToSet(kept) = ToSet(rows) \cap keep
    BY SelectedRows
  <1>3. \A i \in DOMAIN kept : kept[i] \in ToSet(kept)
    BY <1>2, Tables
  <1> QED
    BY <1>1, <1>2, <1>3

LEMMA TypesApart ==
  ASSUME NEW class \in Classes, NEW type \in ClassTypes(class)
  PROVE  /\ \A other \in Classes : type \in ClassTypes(other) => other = class
         /\ type # "Area" /\ type # "Arc"
  BY DEF Classes, ClassTypes, TypesOf, LoadTypes, GeneratorTypes, StorageTypes

LEMMA BusesAreSourced == Fated /\ Sourced /\ MapBuses => Sourced'
  <1> SUFFICES ASSUME Fated, Sourced, MapBuses PROVE Sourced'
    OBVIOUS
  <1> DEFINE rules == <<Rule("not AC", NotAc(network.buses))>>
             kept == Kept(rules, network.buses)
             out == Numbered(kept, AcBus)
  <1>1. step = "buses" /\ step' = Follows["buses"] /\ "buses" \in DOMAIN Follows \ {"resolve", "store"}
    BY PartsFollow, OnePart DEF MapBuses
  <1>2. network' = network /\ document' = document
    BY DEF MapBuses
  <1>3. CASE network.buses = <<>>
    <2>1. tables' = tables
      BY <1>3 DEF MapBuses
    <2> QED
      BY <1>1, <1>2, <2>1, NoTableIsAdded
  <1>4. CASE network.buses # <<>>
    <2>1. Put("ACBus", out)
      BY <1>4 DEF MapBuses
    <2>2. "buses" \in Classes /\ ClassTypes("buses") = {"ACBus"} /\ IsTable(network.buses)
      BY DEF Classes, ClassTypes, Fated, Layout
    <2>3. "ACBus" \notin DOMAIN tables
      <3>1. IsAhead("buses", "ACBus")
        BY <1>1 DEF IsAhead, Before, BeforeBuses
      <3> QED
        BY <2>2, <3>1 DEF Fated, Layout
    <2>4. IsTable(kept) /\ \A i \in DOMAIN kept : kept[i] \in ToSet(network.buses)
      BY <2>2, KeptRows
    <2> HIDE DEF rules, kept
    <2>5. /\ DOMAIN out = DOMAIN kept /\ out = [i \in DOMAIN out |-> out[i]]
          /\ \A i \in DOMAIN out : out[i].id = FirstFreeId + i - 1 /\ Says("buses", out[i], kept[i])
      BY DEF Numbered, AcBus, Says
    <2> HIDE DEF out
    <2>6. \A class \in Classes : "ACBus" \in ClassTypes(class) =>
            \A i \in DOMAIN out : \E r \in ToSet(network[class]) : Says(class, out[i], r)
      <3>1. \A class \in Classes : "ACBus" \in ClassTypes(class) => class = "buses"
        BY <2>2, TypesApart
      <3> QED
        BY <2>4, <2>5, <3>1
    <2> QED
      BY <1>1, <1>2, <2>1, <2>3, <2>4, <2>5, <2>6, ATableIsAdded
  <1> QED
    BY <1>3, <1>4

LEMMA BranchesAreSourced ==
  ASSUME Fated, Sourced, NEW class \in {"lines", "links"}, NEW type, NEW kind, NEW rules,
         ClassTypes(class) = {type}, MapBranches(class, type, kind, rules)
  PROVE  Sourced'
  <1> DEFINE kept == Kept(rules, network[class])
             out == Numbered(kept, Branch)
  <1>1. step = class /\ step' = Follows[class] /\ class \in DOMAIN Follows \ {"resolve", "store"}
    BY PartsFollow, OnePart DEF MapBranches
  <1>2. network' = network /\ document' = document
    BY DEF MapBranches
  <1>3. CASE network[class] = <<>> \/ "ACBus" \notin DOMAIN tables
    <2>1. tables' = tables
      BY <1>3 DEF MapBranches
    <2> QED
      BY <1>1, <1>2, <2>1, NoTableIsAdded
  <1>4. CASE ~(network[class] = <<>> \/ "ACBus" \notin DOMAIN tables)
    <2>1. Put(type, out)
      BY <1>4 DEF MapBranches
    <2>2. class \in Classes /\ type \in ClassTypes(class) /\ IsTable(network[class])
      BY DEF Classes, Fated, Layout
    <2>3. type \notin DOMAIN tables
      <3>1. IsAhead(class, type)
        BY <1>1 DEF IsAhead, Before, BeforeLines, BeforeLinks
      <3> QED
        BY <2>2, <3>1 DEF Fated, Layout
    <2>4. IsTable(kept) /\ \A i \in DOMAIN kept : kept[i] \in ToSet(network[class])
      BY <2>2, KeptRows
    <2> HIDE DEF kept
    <2>5. /\ DOMAIN out = DOMAIN kept /\ out = [i \in DOMAIN out |-> out[i]]
          /\ \A i \in DOMAIN out : out[i].id = FirstFreeId + i - 1 /\ Says(class, out[i], kept[i])
      BY DEF Numbered, Branch, Says
    <2> HIDE DEF out
    <2>6. /\ \A other \in Classes : type \in ClassTypes(other) =>
               \A i \in DOMAIN out : \E r \in ToSet(network[other]) : Says(other, out[i], r)
          /\ type # "Area" /\ type # "Arc"
      <3>1. (\A other \in Classes : type \in ClassTypes(other) => other = class) /\ type # "Area" /\ type # "Arc"
        BY <2>2, TypesApart
      <3> QED
        BY <2>4, <2>5, <3>1
    <2> QED
      BY <1>1, <1>2, <2>1, <2>3, <2>4, <2>5, <2>6, ATableIsAdded
  <1> QED
    BY <1>3, <1>4

LEMMA LinesAreSourced == Fated /\ Sourced /\ (MapLines \/ MapLinks) => Sourced'
  <1>1. ClassTypes("lines") = {"Line"} /\ ClassTypes("links") = {"TwoTerminalGenericHVDCLine"}
    BY DEF ClassTypes
  <1> QED
    BY <1>1, BranchesAreSourced DEF MapLines, MapLinks

LEMMA APlantIsSourced ==
  ASSUME Fated, Sourced, NEW class \in {"generators", "storage_units"}, NEW type \in TypesOf(class), MapOne(class, type)
  PROVE  Sourced'
  <1> DEFINE mine == Selected(scope, {r \in ToSet(scope) : TypeOf[r.carrier] = type})
             kept == Kept(MappingRules(type, mine), mine)
             out == Numbered(kept, LAMBDA r, id :
                      [id |-> id, name |-> r.name, bus |-> r.bus, capacity |-> Rating(type, r)])
  <1>1. type \in DOMAIN Follows \ {"resolve", "store"} /\ class \in Classes
    BY OnePart DEF TypesOf, GeneratorTypes, StorageTypes, Classes
  <1>2. step = type /\ step' = Follows[type]
    BY <1>1, PartsFollow DEF MapOne
  <1>3. /\ network' = network /\ document' = document
        /\ IF network[class] = <<>> THEN tables' = tables ELSE Put(type, out)
    BY DEF MapOne
  <1>4. type \in ClassTypes(class) /\ type \in PlantTypes(class)
    BY DEF ClassTypes, PlantTypes
  <1>5. step \in Ahead[type]
    BY <1>1, <1>2, AheadEnds DEF TypesOf, GeneratorTypes, StorageTypes
  <1>6. CASE network[class] = <<>>
    BY <1>1, <1>2, <1>3, <1>6, NoTableIsAdded
  <1>7. CASE network[class] # <<>>
    <2>1. Put(type, out)
      BY <1>3, <1>7
    <2>2. type \notin DOMAIN tables
      BY <1>1, <1>4, <1>5 DEF Fated, Layout, IsAhead
    <2>3. IsTable(scope) /\ ToSet(scope) \subseteq ToSet(network[class])
      BY <1>4, <1>5 DEF Fated, Scoped
    <2>4. IsTable(mine) /\ ToSet(mine) \subseteq ToSet(scope)
      BY <2>3, SelectedRows
    <2> HIDE DEF mine
    <2>5. IsTable(kept) /\ \A i \in DOMAIN kept : kept[i] \in ToSet(network[class])
      BY <2>3, <2>4, KeptRows
    <2> HIDE DEF kept
    <2>6. /\ DOMAIN out = DOMAIN kept /\ out = [i \in DOMAIN out |-> out[i]]
          /\ \A i \in DOMAIN out : out[i].id = FirstFreeId + i - 1 /\ Says(class, out[i], kept[i])
      BY DEF Numbered, Says
    <2> HIDE DEF out
    <2>7. /\ \A other \in Classes : type \in ClassTypes(other) =>
               \A i \in DOMAIN out : \E r \in ToSet(network[other]) : Says(other, out[i], r)
          /\ type # "Area" /\ type # "Arc"
      <3>1. (\A other \in Classes : type \in ClassTypes(other) => other = class) /\ type # "Area" /\ type # "Arc"
        BY <1>1, <1>4, TypesApart
      <3> QED
        BY <2>5, <2>6, <3>1
    <2> QED
      BY <1>1, <1>2, <1>3, <2>1, <2>2, <2>5, <2>6, <2>7, ATableIsAdded
  <1> QED
    BY <1>6, <1>7

LEMMA PlantsAreSourced == Fated /\ Sourced /\ (MapGenerators \/ MapStorageUnits) => Sourced'
  <1>1. ASSUME Fated, Sourced, NEW class \in {"generators", "storage_units"}, ReadScope(class) PROVE Sourced'
    <2>1. step = class /\ step' = Follows[class] /\ class \in DOMAIN Follows \ {"resolve", "store"}
      BY <1>1, PartsFollow, OnePart DEF ReadScope
    <2>2. network' = network /\ document' = document /\ tables' = tables
      BY <1>1 DEF ReadScope
    <2> QED
      BY <1>1, <2>1, <2>2, NoTableIsAdded
  <1>2. GeneratorTypes = TypesOf("generators") /\ StorageTypes = TypesOf("storage_units")
    BY DEF TypesOf
  <1> QED
    BY <1>1, <1>2, APlantIsSourced DEF MapGenerators, MapStorageUnits

\* Some tables, and one more if there are any rows for it.
AddedIfAny(some, type, out, more) ==
  /\ type \in DOMAIN more <=> Len(out) # 0
  /\ Len(out) # 0 => more[type] = out
  /\ \A t : t # type => (t \in DOMAIN more <=> t \in DOMAIN some)
  /\ \A t \in DOMAIN some : more[t] = some[t]

LEMMA IdsGoOnIfAny ==
  ASSUME NEW some, Identified(some), NEW type, type \notin DOMAIN some, NEW out, IsTable(out),
         \A i \in DOMAIN out : out[i].id = Cardinality(PlacesOf(some)) + i,
         NEW more, AddedIfAny(some, type, out, more)
  PROVE  Identified(more) /\ Cardinality(PlacesOf(more)) = Cardinality(PlacesOf(some)) + Len(out)
  <1>1. CASE Len(out) # 0
    <2>1. DOMAIN more = DOMAIN some \cup {type}
      BY <1>1 DEF AddedIfAny
    <2>2. more[type] = out /\ \A t \in DOMAIN some : more[t] = some[t]
      BY <1>1 DEF AddedIfAny
    <2> QED
      BY <2>1, <2>2, IdsGoOn
  <1>2. CASE Len(out) = 0
    <2>1. PlacesOf(more) = PlacesOf(some)
      <3>1. ASSUME NEW p PROVE p \in PlacesOf(more) <=> p \in PlacesOf(some)
        <4>1. /\ p \in PlacesOf(more) <=> p = <<p[1], p[2]>> /\ p[1] \in DOMAIN more /\ p[2] \in DOMAIN more[p[1]]
              /\ p \in PlacesOf(some) <=> p = <<p[1], p[2]>> /\ p[1] \in DOMAIN some /\ p[2] \in DOMAIN some[p[1]]
          BY PlaceOfARow
        <4> QED
          BY <1>2, <4>1 DEF AddedIfAny
      <3> QED
        BY <3>1
    <2>2. \A p \in PlacesOf(some) : more[p[1]][p[2]] = some[p[1]][p[2]]
      BY PlaceOfARow DEF AddedIfAny
    <2>3. Identified(more)
      BY <1>2, <2>1, <2>2 DEF Identified, AddedIfAny
    <2>4. Cardinality(PlacesOf(some)) \in Nat
      BY FS_CardinalityType DEF Identified
    <2> QED
      BY <1>2, <2>1, <2>3, <2>4
  <1> QED
    BY <1>1, <1>2

\* The two tables of the loads, either of which may be missing.
LEMMA TwoTablesGoOn ==
  ASSUME NEW old, Identified(old), NEW one, one \notin DOMAIN old,
         NEW plain, IsTable(plain), \A i \in DOMAIN plain : plain[i].id = Cardinality(PlacesOf(old)) + i,
         NEW next, AddedIfAny(old, one, plain, next),
         NEW other, other \notin DOMAIN next, NEW priced, IsTable(priced),
         \A i \in DOMAIN priced : priced[i].id = Cardinality(PlacesOf(old)) + Len(plain) + i,
         NEW last, AddedIfAny(next, other, priced, last)
  PROVE  Identified(last)
  <1>1. Identified(next) /\ Cardinality(PlacesOf(next)) = Cardinality(PlacesOf(old)) + Len(plain)
    BY IdsGoOnIfAny
  <1>2. \A i \in DOMAIN priced : priced[i].id = Cardinality(PlacesOf(next)) + i
    BY <1>1
  <1> QED
    BY <1>1, <1>2, IdsGoOnIfAny

LEMMA LoadsAreSourced == Fated /\ Sourced /\ MapLoads => Sourced'
  <1> SUFFICES ASSUME Fated, Sourced, MapLoads PROVE Sourced'
    OBVIOUS
  <1> DEFINE kept == Kept(<<Rule("bus scope", OffTheAcBuses(network.loads))>>, network.loads)
             plain == Selected(kept, {r \in ToSet(kept) : ~IsInterruptible(r)})
             priced == Selected(kept, {r \in ToSet(kept) : IsInterruptible(r)})
             plainRows == Numbered(plain, PowerLoadRow)
             pricedRows == [i \in DOMAIN priced |-> PowerLoadRow(priced[i], FirstFreeId + Len(plain) + i - 1)]
             some == {t \in LoadTypes : (IF t = "PowerLoad" THEN plain ELSE priced) # <<>>}
             C == Cardinality(PlacesOf(tables))
             first == [t \in IF Len(plain) = 0 THEN DOMAIN tables ELSE DOMAIN tables \cup {"PowerLoad"} |->
                         IF t = "PowerLoad" THEN plainRows ELSE tables[t]]
  <1>1. step = "loads" /\ step' = Follows["loads"] /\ "loads" \in DOMAIN Follows \ {"resolve", "store"}
    BY PartsFollow, OnePart DEF MapLoads
  <1>2. network' = network /\ document' = document
    BY DEF MapLoads
  <1>3. tables' = [t \in DOMAIN tables \cup some |->
                     CASE t = "PowerLoad" -> plainRows
                       [] t = "InterruptiblePowerLoad" -> pricedRows
                       [] OTHER -> tables[t]]
    BY DEF MapLoads
  <1>4. "loads" \in Classes /\ ClassTypes("loads") = LoadTypes /\ IsTable(network.loads)
    BY DEF Classes, ClassTypes, Fated, Layout
  <1>5. \A t \in LoadTypes : t \notin DOMAIN tables
    <2>1. ASSUME NEW t \in LoadTypes PROVE IsAhead("loads", t)
      BY <1>1 DEF IsAhead, Before, BeforeLoads
    <2> QED
      BY <1>4, <2>1 DEF Fated, Layout
  <1>6. IsTable(kept) /\ \A i \in DOMAIN kept : kept[i] \in ToSet(network.loads)
    BY <1>4, KeptRows
  <1> HIDE DEF kept
  <1>7. ToSet(kept) \subseteq ToSet(network.loads)
    BY <1>6, Tables
  <1>8. /\ IsTable(plain) /\ ToSet(plain) \subseteq ToSet(kept)
        /\ IsTable(priced) /\ ToSet(priced) \subseteq ToSet(kept)
    <2>1. ASSUME NEW S PROVE IsTable(Selected(kept, S)) /\ ToSet(Selected(kept, S)) \subseteq ToSet(kept)
      BY <1>6, SelectedRows
    <2> QED
      BY <2>1
  <1> HIDE DEF plain, priced
  <1>9. /\ DOMAIN plain = 1 .. Len(plain) /\ Len(plain) \in Nat /\ (plain = <<>> <=> Len(plain) = 0)
        /\ DOMAIN priced = 1 .. Len(priced) /\ Len(priced) \in Nat /\ (priced = <<>> <=> Len(priced) = 0)
        /\ \A i \in DOMAIN plain : plain[i] \in ToSet(network.loads)
        /\ \A i \in DOMAIN priced : priced[i] \in ToSet(network.loads)
    <2>1. ASSUME NEW rows, IsTable(rows), ToSet(rows) \subseteq ToSet(kept)
          PROVE  /\ DOMAIN rows = 1 .. Len(rows) /\ Len(rows) \in Nat /\ (rows = <<>> <=> Len(rows) = 0)
                 /\ \A i \in DOMAIN rows : rows[i] \in ToSet(network.loads)
      <3>1. rows = <<>> <=> Len(rows) = 0
        BY <2>1 DEF IsTable
      <3> QED
        BY <1>7, <2>1, <3>1, Tables
    <2> QED
      BY <1>8, <2>1
  <1>10. C \in Nat /\ FirstFreeId = 1 + C
    BY FS_CardinalityType DEF Sourced, Identified, FirstFreeId
  <1>11. /\ IsTable(plainRows) /\ Len(plainRows) = Len(plain) /\ DOMAIN plainRows = DOMAIN plain
         /\ \A i \in DOMAIN plainRows : plainRows[i].id = C + i /\ Says("loads", plainRows[i], plain[i])
    <2>1. /\ plainRows = [i \in DOMAIN plain |-> plainRows[i]]
          /\ \A i \in DOMAIN plain : plainRows[i].id = FirstFreeId + i - 1 /\ Says("loads", plainRows[i], plain[i])
      BY DEF Numbered, PowerLoadRow, Says
    <2> HIDE DEF plainRows
    <2>2. IsTable(plainRows) /\ Len(plainRows) = Len(plain) /\ DOMAIN plainRows = DOMAIN plain
      BY <1>9, <2>1, TableOfRows
    <2>3. \A i \in DOMAIN plain : FirstFreeId + i - 1 = C + i
      <3> HIDE DEF C
      <3> QED
        BY <1>9, <1>10
    <2> QED
      BY <2>1, <2>2, <2>3
  <1>12. /\ IsTable(pricedRows) /\ Len(pricedRows) = Len(priced) /\ DOMAIN pricedRows = DOMAIN priced
         /\ \A i \in DOMAIN pricedRows : pricedRows[i].id = C + Len(plain) + i /\ Says("loads", pricedRows[i], priced[i])
    <2>1. /\ pricedRows = [i \in DOMAIN priced |-> pricedRows[i]]
          /\ \A i \in DOMAIN priced : /\ pricedRows[i].id = FirstFreeId + Len(plain) + i - 1
                                      /\ Says("loads", pricedRows[i], priced[i])
      BY DEF PowerLoadRow, Says
    <2> HIDE DEF pricedRows
    <2>2. IsTable(pricedRows) /\ Len(pricedRows) = Len(priced) /\ DOMAIN pricedRows = DOMAIN priced
      BY <1>9, <2>1, TableOfRows
    <2>3. \A i \in DOMAIN priced : FirstFreeId + Len(plain) + i - 1 = C + Len(plain) + i
      <3> HIDE DEF C
      <3> QED
        BY <1>9, <1>10
    <2> QED
      BY <2>1, <2>2, <2>3
  <1> HIDE DEF plainRows, pricedRows
  <1>13. AddedIfAny(tables, "PowerLoad", plainRows, first)
    BY <1>5, <1>11 DEF AddedIfAny, LoadTypes
  <1>14. "PowerLoad" \notin DOMAIN tables /\ "InterruptiblePowerLoad" \notin DOMAIN first
    BY <1>5 DEF LoadTypes
  <1>15. AddedIfAny(first, "InterruptiblePowerLoad", pricedRows, tables')
    <2>1. some = (IF Len(plain) = 0 THEN {} ELSE {"PowerLoad"})
                   \cup (IF Len(priced) = 0 THEN {} ELSE {"InterruptiblePowerLoad"})
      BY <1>9 DEF LoadTypes
    <2> HIDE DEF some
    <2>2. DOMAIN tables' = DOMAIN tables \cup some
      BY <1>3
    <2>3. DOMAIN first = IF Len(plain) = 0 THEN DOMAIN tables ELSE DOMAIN tables \cup {"PowerLoad"}
      OBVIOUS
    <2>4. /\ "InterruptiblePowerLoad" \in DOMAIN tables' <=> Len(pricedRows) # 0
          /\ \A t : t # "InterruptiblePowerLoad" => (t \in DOMAIN tables' <=> t \in DOMAIN first)
      BY <1>12, <1>14, <2>1, <2>2, <2>3
    <2>5. Len(pricedRows) # 0 => tables'["InterruptiblePowerLoad"] = pricedRows
      BY <1>3, <1>12, <2>1
    <2>6. \A t \in DOMAIN first : tables'[t] = first[t]
      <3>1. ASSUME NEW t \in DOMAIN first PROVE tables'[t] = first[t]
        <4>1. t \in DOMAIN tables' /\ t # "InterruptiblePowerLoad"
          BY <1>14, <2>4
        <4> QED
          BY <1>3, <2>2, <4>1
      <3> QED
        BY <3>1
    <2> QED
      BY <2>4, <2>5, <2>6 DEF AddedIfAny
  <1> HIDE DEF first
  <1>16. Identified(tables')
    <2>1. Identified(tables) /\ C = Cardinality(PlacesOf(tables))
      BY DEF Sourced
    <2> HIDE DEF C, some
    <2>2. /\ \A i \in DOMAIN plainRows : plainRows[i].id = Cardinality(PlacesOf(tables)) + i
          /\ \A i \in DOMAIN pricedRows : pricedRows[i].id = Cardinality(PlacesOf(tables)) + Len(plainRows) + i
      BY <1>11, <1>12, <2>1
    <2>3. IsTable(plainRows) /\ IsTable(pricedRows)
      BY <1>11, <1>12
    <2> QED
      BY <1>13, <1>14, <1>15, <2>1, <2>2, <2>3, TwoTablesGoOn
  <1>17. \A class \in Classes : \A type \in ClassTypes(class) \cap some : \A i \in DOMAIN tables'[type] :
           \E r \in ToSet(network[class]) : Says(class, tables'[type][i], r)
    <2>1. ASSUME NEW class \in Classes, NEW type \in ClassTypes(class) \cap some, NEW i \in DOMAIN tables'[type]
          PROVE  \E r \in ToSet(network[class]) : Says(class, tables'[type][i], r)
      <3>1. class = "loads"
        BY <1>4, TypesApart
      <3>2. CASE type = "PowerLoad"
        <4>1. tables'[type] = plainRows
          BY <1>3, <3>2
        <4> QED
          BY <1>9, <1>11, <3>1, <4>1
      <3>3. CASE type = "InterruptiblePowerLoad"
        <4>1. tables'[type] = pricedRows
          BY <1>3, <3>3
        <4> QED
          BY <1>9, <1>12, <3>1, <4>1
      <3> QED
        BY <3>2, <3>3 DEF LoadTypes
    <2> QED
      BY <2>1
  <1>18. /\ DOMAIN tables' = DOMAIN tables \cup some /\ "Area" \notin some /\ "Arc" \notin some
         /\ \A t \in DOMAIN tables : tables'[t] = tables[t]
    <2>1. DOMAIN tables' = DOMAIN tables \cup some /\ "Area" \notin some /\ "Arc" \notin some
      BY <1>3 DEF LoadTypes
    <2>2. \A t \in DOMAIN tables : tables'[t] = tables[t]
      BY <1>13, <1>15, <1>14, <1>5 DEF AddedIfAny, LoadTypes
    <2> QED
      BY <2>1, <2>2
  <1> HIDE DEF some
  <1> QED
    BY <1>1, <1>2, <1>16, <1>17, <1>18, TablesAreAdded

\* The elements of a finite set, in some order, are a table of as many rows.
LEMMA SetsInOrder ==
  ASSUME NEW S, IsFiniteSet(S)
  PROVE  /\ IsTable(SetToSeq(S))
         /\ \A i \in DOMAIN SetToSeq(S) : SetToSeq(S)[i] \in S
  <1>1. Cardinality(S) \in Nat
    BY FS_CardinalityType
  <1> DEFINE n == Cardinality(S)
             Orders == {f \in [1 .. n -> S] : IsInjective(f)}
             order == CHOOSE f \in [1 .. n -> S] : IsInjective(f)
  <1>2. \E f \in [1 .. n -> S] : IsInjective(f)
    <2>1. ExistsBijection(1 .. n, S)
      BY FS_CardinalityType
    <2> HIDE DEF n
    <2>2. PICK f : f \in Bijection(1 .. n, S)
      BY <2>1 DEF ExistsBijection
    <2>3. f \in [1 .. n -> S] /\ \A a, b \in 1 .. n : f[a] = f[b] => a = b
      BY <2>2 DEF Bijection, Injection, IsInjective
    <2>4. IsInjective(f)
      BY <2>3 DEF IsInjective
    <2> QED
      BY <2>3, <2>4
  <1> HIDE DEF n
  <1>3. order \in [1 .. n -> S]
    BY <1>2
  <1>4. SetToSeq(S) = order
    BY DEF SetToSeq, n
  <1> HIDE DEF order
  <1>5. IsTable(order)
    <2>1. order = [i \in 1 .. n |-> order[i]] /\ n \in Nat
      BY <1>1, <1>3 DEF n
    <2> QED
      BY <2>1, TableOfRows
  <1> QED
    BY <1>3, <1>4, <1>5

\* Whatever the rows of a table say one thing of is finite.
LEMMA SayingsAreFinite ==
  ASSUME NEW n \in Nat, NEW f, f = [i \in 1 .. n |-> f[i]]
  PROVE  IsFiniteSet({f[i] : i \in 1 .. n})
  <1> DEFINE S == 1 .. n
             T == {f[i] : i \in S}
  <1>1. f \in [S -> T] /\ \A t \in T : \E i \in S : f[i] = t
    OBVIOUS
  <1>2. f \in Surjection(S, T)
    BY <1>1 DEF Surjection
  <1>3. IsFiniteSet(S)
    <2>1. 1 \in Int /\ n \in Int
      OBVIOUS
    <2> QED
      BY <2>1, FS_Interval
  <1> HIDE DEF S
  <1>4. IsFiniteSet(T)
    <2> HIDE DEF T
    <2> QED
      BY <1>2, <1>3, FS_Surjection
  <1> QED
    BY <1>4 DEF S

LEMMA TablesSoFar ==
  ASSUME Sourced, NEW type
  PROVE  IsTable(TableOf(type))
  <1>1. IsTable(<<>>)
    BY DEF IsTable
  <1> QED
    BY <1>1 DEF Sourced, Identified, TableOf

LEMMA AreasAreSourced == Fated /\ Sourced /\ BuildAreas => Sourced'
  <1> SUFFICES ASSUME Fated, Sourced, BuildAreas PROVE Sourced'
    OBVIOUS
  <1> DEFINE buses == TableOf("ACBus")
             named == {r.area : r \in ToSet(buses)}
             areas == SetToSeq(named \ {None})
             out == Numbered(areas, LAMBDA a, id : [id |-> id, name |-> a])
  <1>1. step = "areas" /\ step' = Follows["areas"] /\ "areas" \in DOMAIN Follows \ {"resolve", "store"}
    BY PartsFollow, OnePart DEF BuildAreas
  <1>2. network' = network /\ document' = document /\ (tables' = tables \/ Put("Area", out))
    BY DEF BuildAreas
  <1>3. IsFiniteSet(named)
    <2> DEFINE f == [i \in 1 .. Len(buses) |-> buses[i].area]
    <2>1. Len(buses) \in Nat /\ DOMAIN buses = 1 .. Len(buses) /\ ToSet(buses) = {buses[i] : i \in DOMAIN buses}
      BY TablesSoFar, Tables
    <2>2. named = {f[i] : i \in 1 .. Len(buses)}
      BY <2>1
    <2>3. f = [i \in 1 .. Len(buses) |-> f[i]]
      OBVIOUS
    <2> HIDE DEF f, named, buses
    <2> QED
      BY <2>1, <2>2, <2>3, SayingsAreFinite
  <1>4. IsTable(areas)
    <2> HIDE DEF named
    <2>1. IsFiniteSet(named \ {None})
      BY <1>3, FS_Subset
    <2> QED
      BY <2>1, SetsInOrder
  <1> HIDE DEF areas
  <1>5. /\ DOMAIN out = DOMAIN areas /\ out = [i \in DOMAIN out |-> out[i]]
        /\ \A i \in DOMAIN out : out[i].id = FirstFreeId + i - 1
    BY DEF Numbered
  <1> HIDE DEF out
  <1>6. "Area" \notin DOMAIN tables /\ \A class \in Classes : "Area" \notin ClassTypes(class)
    BY <1>1, TypesApart DEF Sourced, Derived
  <1>7. CASE tables' = tables
    BY <1>1, <1>2, <1>7, NoTableIsAdded
  <1>8. CASE Put("Area", out)
    BY <1>1, <1>2, <1>4, <1>5, <1>6, <1>8, ATableIsAdded
  <1> QED
    BY <1>2, <1>7, <1>8

LEMMA ArcsAreSourced == Fated /\ Sourced /\ BuildArcs => Sourced'
  <1> SUFFICES ASSUME Fated, Sourced, BuildArcs PROVE Sourced'
    OBVIOUS
  <1> DEFINE arcs == SetToSeq(Endpoints)
             out == Numbered(arcs, LAMBDA e, id :
                      [id |-> id, from |-> IdOf(TableOf("ACBus"), e[1]), to |-> IdOf(TableOf("ACBus"), e[2])])
  <1>1. step = "arcs" /\ step' = Follows["arcs"] /\ "arcs" \in DOMAIN Follows \ {"resolve", "store"}
    BY PartsFollow, OnePart DEF BuildArcs
  <1>2. network' = network /\ document' = document /\ (tables' = tables \/ Put("Arc", out))
    BY DEF BuildArcs
  <1>3. ASSUME NEW type PROVE IsFiniteSet({EndpointsOf(r) : r \in ToSet(TableOf(type))})
    <2> DEFINE rows == TableOf(type)
               f == [i \in 1 .. Len(rows) |-> EndpointsOf(rows[i])]
    <2>1. Len(rows) \in Nat /\ DOMAIN rows = 1 .. Len(rows) /\ ToSet(rows) = {rows[i] : i \in DOMAIN rows}
      BY TablesSoFar, Tables
    <2>2. {EndpointsOf(r) : r \in ToSet(rows)} = {f[i] : i \in 1 .. Len(rows)}
      BY <2>1
    <2>3. f = [i \in 1 .. Len(rows) |-> f[i]]
      OBVIOUS
    <2> HIDE DEF f, rows
    <2>4. IsFiniteSet({f[i] : i \in 1 .. Len(rows)})
      BY <2>1, <2>3, SayingsAreFinite
    <2> QED
      BY <2>2, <2>4 DEF rows
  <1>4. IsTable(arcs)
    <2> DEFINE A == {EndpointsOf(r) : r \in ToSet(TableOf("Line"))}
               B == {EndpointsOf(r) : r \in ToSet(TableOf("TwoTerminalGenericHVDCLine"))}
    <2>1. Endpoints = A \cup B
      BY DEF Endpoints, BranchTypes
    <2>2. IsFiniteSet(A) /\ IsFiniteSet(B)
      BY <1>3
    <2> HIDE DEF A, B
    <2>3. IsFiniteSet(Endpoints)
      BY <2>1, <2>2, FS_Union
    <2> QED
      BY <2>3, SetsInOrder
  <1> HIDE DEF arcs
  <1>5. /\ DOMAIN out = DOMAIN arcs /\ out = [i \in DOMAIN out |-> out[i]]
        /\ \A i \in DOMAIN out : out[i].id = FirstFreeId + i - 1
    BY DEF Numbered
  <1> HIDE DEF out
  <1>6. "Arc" \notin DOMAIN tables /\ \A class \in Classes : "Arc" \notin ClassTypes(class)
    BY <1>1, TypesApart DEF Sourced, Derived
  <1>7. CASE tables' = tables
    BY <1>1, <1>2, <1>7, NoTableIsAdded
  <1>8. CASE Put("Arc", out)
    BY <1>1, <1>2, <1>4, <1>5, <1>6, <1>8, ATableIsAdded
  <1> QED
    BY <1>2, <1>7, <1>8

LEMMA PricesAreRead == Sourced /\ ReadPrices => Sourced'
  <1> SUFFICES ASSUME Sourced, ReadPrices PROVE Sourced'
    OBVIOUS
  <1>1. step = "prices" /\ step' = Follows["prices"] /\ "prices" \in DOMAIN Follows \ {"resolve", "store"}
    BY PartsFollow, OnePart DEF ReadPrices
  <1>2. network' = network /\ document' = document /\ tables' = tables
    BY DEF ReadPrices
  <1> QED
    BY <1>1, <1>2, NoTableIsAdded

\* Before the first table there is nothing to say.
LEMMA NothingIsMadeYet ==
  (step \in Unmapped \cup {"buses"} /\ DOMAIN tables = {} /\ "components" \in DOMAIN document) => Sourced
  <1> SUFFICES ASSUME step \in Unmapped \cup {"buses"}, DOMAIN tables = {}, "components" \in DOMAIN document
               PROVE  Sourced
    OBVIOUS
  <1>1. PlacesOf(tables) = {}
    BY PlaceOfARow
  <1>2. Identified(tables)
    BY <1>1, FS_EmptySet DEF Identified
  <1>3. Original /\ Derived /\ Resolved
    BY DEF Original, Derived, Resolved, Unmapped
  <1> QED
    BY <1>2, <1>3 DEF Sourced

LEMMA SourcedBeforeTheSteps ==
  Fated /\ Sourced /\ (AddLoadShedding \/ StageAsItIs \/ ValidateTheNetwork) => Sourced'
  <1> SUFFICES ASSUME Fated, Sourced, AddLoadShedding \/ StageAsItIs \/ ValidateTheNetwork PROVE Sourced'
    OBVIOUS
  <1>1. step \in {"stage", "validate"} /\ step' \in {"validate", "buses", "refused"}
    <2>1. (Goto("stage") => step = "stage" /\ step' = "validate") /\ (Goto("validate") => step' = "buses")
      BY PartsFollow, OnePart
    <2> QED
      BY <2>1 DEF AddLoadShedding, StageAsItIs, ValidateTheNetwork
  <1>2. tables' = tables /\ document' = document
    BY DEF AddLoadShedding, StageAsItIs, ValidateTheNetwork
  <1>3. DOMAIN tables' = {} /\ "components" \in DOMAIN document'
    BY <1>1, <1>2 DEF Fated, Layout, Unmapped, Sourced, Resolved
  <1>4. ((step \in Unmapped \cup {"buses"} /\ DOMAIN tables = {} /\ "components" \in DOMAIN document) => Sourced)'
    BY NothingIsMadeYet, PTL
  <1> QED
    BY <1>1, <1>3, <1>4 DEF Unmapped

\* What the sink makes of the tables is what the tables are.
LEMMA TablesMakeTheDocument ==
  ASSUME tables' = tables
  PROVE  /\ Components' = Components
         /\ RefsHold' <=> RefsHold
         /\ BranchesHaveArcs' <=> BranchesHaveArcs
  <1>1. \A type : TableOf(type)' = TableOf(type)
    BY DEF TableOf
  <1>2. RefsHold' <=> RefsHold
    BY <1>1 DEF RefsHold, AcBusNames, Injections, GeneratorTypes, StorageTypes, LoadTypes, BranchTypes
  <1>3. \A row : ArcsOf(row)' = ArcsOf(row)
    BY <1>1 DEF ArcsOf
  <1>4. BranchesHaveArcs' <=> BranchesHaveArcs
    BY <1>1, <1>3 DEF BranchesHaveArcs, BranchTypes
  <1>5. ASSUME NEW type, NEW row PROVE Component(type, row)' = Component(type, row)
    <2>1. References(type, row)' = References(type, row)
      BY <1>1, <1>3 DEF References, BranchTypes
    <2> QED
      BY <2>1 DEF Component
  <1>6. Components' = Components
    BY <1>5 DEF Components
  <1> QED
    BY <1>2, <1>4, <1>6

LEMMA TheSinkKeepsSources == Sourced /\ (Resolve \/ StoreSeries \/ UNCHANGED vars) => Sourced'
  <1>1. ASSUME Sourced, network' = network, tables' = tables,
               (step' = step /\ document' = document) \/ step' \in {"store", "written", "failed"}, Resolved'
        PROVE  Sourced'
    <2>1. Identified(tables')
      BY <1>1 DEF Sourced
    <2>2. Original'
      BY <1>1 DEF Sourced, Original, Classes, ClassTypes, TypesOf, LoadTypes, GeneratorTypes, StorageTypes
    <2>3. Derived'
      BY <1>1 DEF Sourced, Derived
    <2> QED
      BY <1>1, <2>1, <2>2, <2>3 DEF Sourced, Identified, PlacesOf
  <1>2. ASSUME Sourced, Resolve PROVE Sourced'
    <2>1. network' = network /\ tables' = tables
      BY <1>2 DEF Resolve
    <2>2. "components" \in DOMAIN document
      BY <1>2 DEF Sourced, Resolved
    <2>3. CASE RefsHold /\ BranchesHaveArcs
      <3>1. step' = "store"
        BY <1>2, <2>3, PartsFollow, OnePart DEF Resolve
      <3>2. document'.components = Components /\ "components" \in DOMAIN document'
        BY <1>2, <2>2, <2>3 DEF Resolve
      <3>3. Resolved'
        BY <2>1, <2>3, <3>1, <3>2, TablesMakeTheDocument DEF Resolved
      <3> QED
        BY <1>1, <1>2, <2>1, <3>1, <3>3
    <2>4. CASE ~ (RefsHold /\ BranchesHaveArcs)
      <3>1. step' = "failed" /\ document' = document
        BY <1>2, <2>4 DEF Resolve
      <3>2. Resolved'
        BY <2>2, <3>1 DEF Resolved
      <3> QED
        BY <1>1, <1>2, <2>1, <3>1, <3>2
    <2> QED
      BY <2>3, <2>4
  <1>3. ASSUME Sourced, StoreSeries PROVE Sourced'
    <2>1. network' = network /\ tables' = tables /\ step = "store"
      BY <1>3 DEF StoreSeries
    <2>2. "components" \in DOMAIN document /\ document.components = Components /\ RefsHold /\ BranchesHaveArcs
      BY <1>3, <2>1 DEF Sourced, Resolved
    <2>3. step' \in {"written", "failed"}
      BY <1>3, PartsFollow, OnePart DEF StoreSeries
    <2>4. "components" \in DOMAIN document' /\ document'.components = document.components
      BY <1>3, <2>2 DEF StoreSeries
    <2>5. Resolved'
      BY <2>1, <2>2, <2>4, TablesMakeTheDocument DEF Resolved
    <2> QED
      BY <1>1, <1>3, <2>1, <2>3, <2>5
  <1>4. ASSUME Sourced, UNCHANGED vars PROVE Sourced'
    <2>1. network' = network /\ tables' = tables /\ step' = step /\ document' = document
      BY <1>4 DEF vars
    <2>2. Resolved'
      BY <1>4, <2>1, TablesMakeTheDocument DEF Sourced, Resolved
    <2> QED
      BY <1>1, <1>4, <2>1, <2>2
  <1> QED
    BY <1>2, <1>3, <1>4

LEMMA SourcedInit == Init => Sourced
  <1> SUFFICES ASSUME Init PROVE Sourced
    OBVIOUS
  <1>1. step = "stage" /\ step \in Unmapped
    BY DEF Init, Unmapped
  <1>2. DOMAIN tables = {} /\ "components" \in DOMAIN document
    BY DEF Init, NoRows
  <1> QED
    BY <1>1, <1>2, NothingIsMadeYet

LEMMA SourcedStep == Fated /\ Sourced /\ [Next]_vars => Sourced'
  BY SourcedBeforeTheSteps, BusesAreSourced, PricesAreRead, LoadsAreSourced, PlantsAreSourced, LinesAreSourced,
     AreasAreSourced, ArcsAreSourced, TheSinkKeepsSources DEF Next, Terminated

(* ------------------------- what the document says ----------------------- *)

\* The component a place of the tables becomes.
At(p) == Component(p[1], tables[p[1]][p[2]])

LEMMA ComponentsHavePlaces ==
  ASSUME Identified(tables)
  PROVE  /\ Components = {At(p) : p \in PlacesOf(tables)}
         /\ \A p \in PlacesOf(tables) : At(p).id = tables[p[1]][p[2]].id /\ At(p).type = p[1]
         /\ \A p, q \in PlacesOf(tables) : At(p).id = At(q).id => p = q
  <1>1. ASSUME NEW c PROVE c \in Components <=> \E p \in PlacesOf(tables) : c = At(p)
    <2>1. c \in Components <=> \E t \in DOMAIN tables : \E row \in ToSet(tables[t]) : c = Component(t, row)
      BY DEF Components
    <2>2. \A t \in DOMAIN tables : ToSet(tables[t]) = {tables[t][i] : i \in DOMAIN tables[t]}
      BY Tables DEF Identified
    <2>3. ASSUME NEW p \in PlacesOf(tables), c = At(p) PROVE c \in Components
      <3>1. p[1] \in DOMAIN tables /\ p[2] \in DOMAIN tables[p[1]]
        BY PlaceOfARow
      <3>2. tables[p[1]][p[2]] \in ToSet(tables[p[1]])
        BY <2>2, <3>1
      <3> QED
        BY <2>1, <2>3, <3>1, <3>2 DEF At
    <2>4. ASSUME NEW t \in DOMAIN tables, NEW row \in ToSet(tables[t]), c = Component(t, row)
          PROVE  \E p \in PlacesOf(tables) : c = At(p)
      <3>1. PICK i \in DOMAIN tables[t] : row = tables[t][i]
        BY <2>2
      <3>2. <<t, i>> \in PlacesOf(tables)
        BY PlaceOfARow
      <3>3. At(<<t, i>>) = c
        BY <2>4, <3>1 DEF At
      <3> QED
        BY <3>2, <3>3
    <2> QED
      BY <2>1, <2>3, <2>4
  <1>2. Components = {At(p) : p \in PlacesOf(tables)}
    BY <1>1
  <1>3. ASSUME NEW p PROVE At(p).id = tables[p[1]][p[2]].id /\ At(p).type = p[1]
    BY DEF At, Component
  <1> QED
    BY <1>2, <1>3 DEF Identified

\* A row of a table is a component of its own, found by its id.
LEMMA RowsAreFound ==
  ASSUME Identified(tables), document.components = Components, NEW type, NEW row \in ToSet(TableOf(type))
  PROVE  Component(type, row) \in document.components /\ ById(row.id) = Component(type, row)
  <1>1. type \in DOMAIN tables /\ row \in ToSet(tables[type])
    BY DEF TableOf, ToSet
  <1>2. PICK i \in DOMAIN tables[type] : row = tables[type][i]
    BY <1>1, Tables DEF Identified
  <1>3. <<type, i>> \in PlacesOf(tables) /\ At(<<type, i>>) = Component(type, row)
    BY <1>1, <1>2, PlaceOfARow DEF At
  <1>4. Component(type, row) \in Components /\ Component(type, row).id = row.id
    BY <1>3, ComponentsHavePlaces DEF Component
  <1>5. \A c \in Components : c.id = row.id => c = Component(type, row)
    <2>1. \A p \in PlacesOf(tables) : At(p).id = row.id => At(p) = Component(type, row)
      BY <1>3, <1>4, ComponentsHavePlaces
    <2> QED
      BY <2>1, ComponentsHavePlaces
  <1>6. ById(row.id) = Component(type, row)
    BY <1>4, <1>5 DEF ById
  <1> QED
    BY <1>4, <1>6

\* A name of a table leads to the component of that type and name.
LEMMA NamesAreFound ==
  ASSUME Identified(tables), document.components = Components, NEW type, type # "Arc",
         NEW name \in Names(TableOf(type))
  PROVE  NamedAs(IdOf(TableOf(type), name), type, name)
  <1> DEFINE rows == TableOf(type)
             row == Row(rows, name)
  <1>1. \E r \in ToSet(rows) : r.name = name
    BY DEF Names, ToSet
  <1>2. row \in ToSet(rows) /\ row.name = name
    BY <1>1 DEF Row
  <1>3. IdOf(rows, name) = row.id
    BY DEF IdOf
  <1> HIDE DEF row
  <1>4. ById(row.id) = Component(type, row)
    BY <1>2, RowsAreFound
  <1> QED
    BY <1>2, <1>3, <1>4 DEF NamedAs, Component

LEMMA SourcedMeans == Fated /\ Sourced => ReferencesReachTheirNamesakes
  <1> SUFFICES ASSUME Fated, Sourced, step \in {"store", "written"} PROVE
        /\ \A c, d \in document.components : c.id = d.id => c = d
        /\ Cardinality(document.components) = Cardinality(PlacesOf(tables))
        /\ \A class \in Classes : \A r \in ToSet(network[class]) : \A c \in document.components :
             c.type \in ClassTypes(class) /\ c.name = r.name =>
               CASE class = "buses" -> r.area = None \/ NamedAs(c.refs[1], "Area", r.area)
                 [] class \in {"lines", "links"} ->
                      /\ ById(c.refs[1]).type = "Arc"
                      /\ NamedAs(ById(c.refs[1]).refs[1], "ACBus", r.bus0)
                      /\ NamedAs(ById(c.refs[1]).refs[2], "ACBus", r.bus1)
                 [] OTHER -> NamedAs(c.refs[1], "ACBus", r.bus)
    BY DEF ReferencesReachTheirNamesakes
  <1>1. Identified(tables) /\ document.components = Components /\ RefsHold /\ BranchesHaveArcs
    BY DEF Sourced, Resolved
  <1>2. \A c, d \in document.components : c.id = d.id => c = d
    BY <1>1, ComponentsHavePlaces
  <1>3. Cardinality(document.components) = Cardinality(PlacesOf(tables))
    <2> DEFINE S == PlacesOf(tables)
               T == {At(p) : p \in S}
               f == [p \in S |-> At(p)]
    <2>1. f \in [S -> T] /\ (\A t \in T : \E p \in S : f[p] = t) /\ \A p, q \in S : f[p] = f[q] => p = q
      BY <1>1, ComponentsHavePlaces
    <2>2. f \in Bijection(S, T)
      BY <2>1 DEF Bijection, Injection, Surjection, IsInjective
    <2>3. ExistsBijection(S, T) /\ IsFiniteSet(S)
      BY <1>1, <2>2 DEF ExistsBijection, Identified
    <2>4. document.components = T
      BY <1>1, ComponentsHavePlaces
    <2> HIDE DEF S, T, f
    <2>5. Cardinality(T) = Cardinality(S)
      BY <2>3, FS_Bijection
    <2> QED
      BY <2>4, <2>5 DEF S
  <1>4. ASSUME NEW class \in Classes, NEW r \in ToSet(network[class]), NEW c \in document.components,
               c.type \in ClassTypes(class), c.name = r.name
        PROVE  \E row \in ToSet(TableOf(c.type)) : c = Component(c.type, row) /\ Says(class, row, r)
    <2>1. PICK p \in PlacesOf(tables) : c = At(p)
      BY <1>1, ComponentsHavePlaces
    <2>2. p[1] = c.type /\ p[1] \in DOMAIN tables /\ p[2] \in DOMAIN tables[p[1]]
      BY <1>1, <2>1, ComponentsHavePlaces, PlaceOfARow
    <2> DEFINE row == tables[p[1]][p[2]]
    <2>3. row \in ToSet(TableOf(c.type)) /\ c = Component(c.type, row)
      <3>1. TableOf(c.type) = tables[c.type] /\ IsTable(tables[c.type]) /\ p[2] \in DOMAIN tables[c.type]
        BY <1>1, <2>2 DEF Identified, TableOf
      <3>2. row \in ToSet(tables[c.type])
        BY <2>2, <3>1, Tables
      <3> QED
        BY <2>1, <2>2, <3>1, <3>2 DEF At
    <2>4. c.name = row.name
      BY <1>4, <2>3, TypesApart DEF Component
    <2>5. PICK q \in ToSet(network[class]) : Says(class, row, q)
      BY <1>4, <2>2 DEF Sourced, Original
    <2>6. IsTable(network[class]) /\ NamedApart(network[class])
      BY DEF Fated, Layout, Unmapped
    <2>7. q.name = r.name
      BY <1>4, <2>4, <2>5 DEF Says
    <2>8. q = r
      BY <2>6, <2>7, NameOfARow
    <2> QED
      BY <2>3, <2>5, <2>8
  <1>5. ASSUME NEW class \in Classes, NEW r \in ToSet(network[class]), NEW c \in document.components,
               c.type \in ClassTypes(class), c.name = r.name
        PROVE  CASE class = "buses" -> r.area = None \/ NamedAs(c.refs[1], "Area", r.area)
                 [] class \in {"lines", "links"} ->
                      /\ ById(c.refs[1]).type = "Arc"
                      /\ NamedAs(ById(c.refs[1]).refs[1], "ACBus", r.bus0)
                      /\ NamedAs(ById(c.refs[1]).refs[2], "ACBus", r.bus1)
                 [] OTHER -> NamedAs(c.refs[1], "ACBus", r.bus)
    <2>1. PICK row \in ToSet(TableOf(c.type)) : c = Component(c.type, row) /\ Says(class, row, r)
      BY <1>4, <1>5
    <2>2. c.refs = References(c.type, row)
      BY <2>1 DEF Component
    <2>3. CASE class = "buses"
      <3>1. c.type = "ACBus" /\ row.area = r.area
        BY <1>5, <2>1, <2>3 DEF ClassTypes, Says
      <3>2. c.refs[1] = IdOf(TableOf("Area"), r.area)
        <4>1. References("ACBus", row) = <<IdOf(TableOf("Area"), row.area)>>
          BY DEF References, BranchTypes
        <4> QED
          BY <2>2, <3>1, <4>1
      <3>3. r.area # None => r.area \in Names(TableOf("Area"))
        <4>1. r.area \in {x.area : x \in ToSet(TableOf("ACBus"))}
          BY <2>1, <3>1
        <4> QED
          BY <1>1, <4>1 DEF RefsHold
      <3> QED
        <4>1. r.area # None => NamedAs(IdOf(TableOf("Area"), r.area), "Area", r.area)
          BY <1>1, <3>3, NamesAreFound
        <4> QED
          BY <2>3, <3>2, <4>1
    <2>4. CASE class \in {"lines", "links"}
      <3>1. c.type \in BranchTypes /\ row.bus0 = r.bus0 /\ row.bus1 = r.bus1
        BY <1>5, <2>1, <2>4 DEF ClassTypes, BranchTypes, Says
      <3> DEFINE arc == CHOOSE a \in ArcsOf(row) : TRUE
      <3>2. arc \in ArcsOf(row)
        BY <1>1, <2>1, <3>1 DEF BranchesHaveArcs
      <3>3. c.refs[1] = arc.id
        BY <2>2, <3>1 DEF References, BranchTypes
      <3> HIDE DEF arc
      <3>4. /\ arc \in ToSet(TableOf("Arc"))
            /\ arc.from = IdOf(TableOf("ACBus"), r.bus0) /\ arc.to = IdOf(TableOf("ACBus"), r.bus1)
        BY <3>1, <3>2 DEF ArcsOf
      <3>5. ById(arc.id) = Component("Arc", arc)
        BY <1>1, <3>4, RowsAreFound
      <3>6. ById(arc.id).type = "Arc" /\ ById(arc.id).refs[1] = arc.from /\ ById(arc.id).refs[2] = arc.to
        <4>1. "Arc" \notin BranchTypes /\ "Arc" # "ACBus" /\ "Arc" # "Area"
          BY DEF BranchTypes
        <4>2. References("Arc", arc) = <<arc.from, arc.to>>
          BY <4>1 DEF References
        <4> QED
          BY <3>5, <4>2 DEF Component
      <3>7. r.bus0 \in Names(TableOf("ACBus")) /\ r.bus1 \in Names(TableOf("ACBus"))
        BY <1>1, <2>1, <3>1 DEF RefsHold, AcBusNames
      <3>8. /\ NamedAs(IdOf(TableOf("ACBus"), r.bus0), "ACBus", r.bus0)
            /\ NamedAs(IdOf(TableOf("ACBus"), r.bus1), "ACBus", r.bus1)
        BY <1>1, <3>7, NamesAreFound
      <3> QED
        BY <2>4, <3>3, <3>4, <3>6, <3>8
    <2>5. CASE class \in {"loads", "generators", "storage_units"}
      <3>1. c.type \in Injections /\ row.bus = r.bus
        BY <1>5, <2>1, <2>5 DEF ClassTypes, TypesOf, Injections, Says
      <3>2. c.refs[1] = IdOf(TableOf("ACBus"), r.bus)
        BY <2>2, <3>1 DEF References, Injections, GeneratorTypes, StorageTypes, LoadTypes, BranchTypes
      <3>3. r.bus \in Names(TableOf("ACBus"))
        BY <1>1, <2>1, <3>1 DEF RefsHold, AcBusNames
      <3>4. NamedAs(IdOf(TableOf("ACBus"), r.bus), "ACBus", r.bus)
        BY <1>1, <3>3, NamesAreFound
      <3> QED
        BY <2>5, <3>2, <3>4
    <2> QED
      BY <2>3, <2>4, <2>5 DEF Classes
  <1> QED
    BY <1>2, <1>3, <1>5

\* Whatever network the leg starts from and whatever the carriers are mapped to, in a document
\* the sink has resolved no two components share an id, though each table numbers its rows on
\* from the heights of the tables before it, and every id a component refers to is that of the
\* component the network names: its area, its bus, or an arc between its own two buses.
THEOREM ReferencesAreReached == Spec => []ReferencesReachTheirNamesakes
  <1>1. Spec => [](Fated /\ Sourced)
    BY FatedInit, FatedStep, SourcedInit, SourcedStep, PTL DEF Spec
  <1> QED
    BY <1>1, SourcedMeans, PTL

(* --------------------------- peaks and megawatts ------------------------ *)

\* Some whole numbers, finitely many, have one no other is above.  It is the one with the
\* least of them above it: sets of whole numbers above one are nested.
LEMMA FiniteSetsPeak ==
  ASSUME NEW S \in SUBSET Int, IsFiniteSet(S), S # {}, NEW up \in BOOLEAN
  PROVE  \E x \in S : \A y \in S : IF up THEN x >= y ELSE x <= y
  <1> DEFINE Beyond(x) == {y \in S : IF up THEN y > x ELSE y < x}
             T == {Beyond(x) : x \in S}
             R == StrictSubsetOrdering(S)
  <1>1. IsWellFoundedOn(R, SUBSET S)
    BY FS_StrictSubsetOrderingWellFounded, FS_FiniteSubsetsOfFinite
  <1>2. T \subseteq SUBSET S /\ T # {}
    OBVIOUS
  <1>3. PICK U \in T : \A V \in T : ~ (<<V, U>> \in R)
    <2> HIDE DEF T, R
    <2> QED
      BY <1>1, <1>2, WFMin
  <1>4. PICK x \in S : U = Beyond(x)
    BY <1>3
  <1>5. ASSUME NEW y \in S, IF up THEN y > x ELSE y < x PROVE FALSE
    <2>1. Beyond(y) \subseteq Beyond(x) /\ y \in Beyond(x) /\ y \notin Beyond(y)
      <3>1. ASSUME NEW z \in S, IF up THEN z > y ELSE z < y PROVE (IF up THEN z > x ELSE z < x) /\ z # y
        <4>1. x \in Int /\ y \in Int /\ z \in Int
          OBVIOUS
        <4> QED
          BY <1>5, <3>1, <4>1
      <3> QED
        BY <1>5, <3>1
    <2>2. Beyond(y) \in T /\ Beyond(y) \subseteq S /\ Beyond(x) \subseteq S
      OBVIOUS
    <2> HIDE DEF Beyond, T
    <2>3. <<Beyond(y), Beyond(x)>> \in R
      BY <2>1, <2>2 DEF StrictSubsetOrdering
    <2> QED
      BY <1>3, <1>4, <2>2, <2>3
  <1> QED
    BY <1>5

LEMMA PeakOfAProfile ==
  ASSUME NEW values, IsProfile(values)
  PROVE  /\ Peak(values) \in Int /\ Lowest(values) \in Int
         /\ Len(values) \in Nat \ {0} /\ DOMAIN values = 1 .. Len(values)
         /\ \A i \in DOMAIN values : values[i] \in Int /\ values[i] <= Peak(values) /\ Lowest(values) <= values[i]
  <1> DEFINE S == ToSet(values)
             n == Len(values)
  <1>1. n \in Nat \ {0} /\ DOMAIN values = 1 .. n /\ values = [i \in 1 .. n |-> values[i]] /\ \A i \in 1 .. n : values[i] \in Int
    BY DEF IsProfile
  <1>2. S = {values[i] : i \in 1 .. n}
    BY <1>1 DEF ToSet
  <1>3. IsFiniteSet(S)
    <2> HIDE DEF S, n
    <2> QED
      BY <1>1, <1>2, SayingsAreFinite
  <1>4. S \in SUBSET Int /\ S # {}
    BY <1>1, <1>2
  <1> HIDE DEF S
  <1>5. \E x \in S : \A y \in S : x >= y
    BY <1>3, <1>4, FiniteSetsPeak
  <1>6. \E x \in S : \A y \in S : x <= y
    BY <1>3, <1>4, FiniteSetsPeak
  <1>7. Max(S) \in S /\ \A y \in S : Max(S) >= y
    BY <1>5 DEF Max
  <1>8. Min(S) \in S /\ \A y \in S : Min(S) <= y
    BY <1>6 DEF Min
  <1>9. Peak(values) = Max(S) /\ Lowest(values) = Min(S)
    BY DEF Peak, Lowest, S
  <1>10. \A i \in 1 .. n : values[i] \in S
    BY <1>2
  <1> QED
    BY <1>1, <1>4, <1>7, <1>8, <1>9, <1>10

\* What the sink multiplies out is what the mapping divided by.
LEMMA ALoadIsScaledBack ==
  ASSUME NEW v \in Int, NEW P \in Int, P = 0 => v = 0
  PROVE  SameFraction(Megawatts(v, 1, <<P, 1>>, IF P = 0 THEN <<1, 1>> ELSE <<P, 1>>), <<v, 1>>)
  BY DEF SameFraction, Megawatts

LEMMA APlantIsScaledBack ==
  ASSUME NEW v \in Int, NEW P \in Int, NEW E \in Int, P = 0 => v = 0
  PROVE  SameFraction(Megawatts(v, One, <<E * P, One>>, IF P = 0 THEN <<1, 1>> ELSE <<P, One>>), <<E * v, One>>)
  BY OneAssumption DEF SameFraction, Megawatts

LEMMA AHydroCeilingIsScaledBack ==
  ASSUME NEW p \in Int, NEW E \in Int
  PROVE  SameFraction(Megawatts(p, One, <<E, 1>>, <<1, 1>>), <<E * p, One>>)
  BY OneAssumption DEF SameFraction, Megawatts

LEMMA ABudgetIsScaledBack ==
  ASSUME NEW v \in Int, NEW E \in Int, E > 0, NEW e \in Int
  PROVE  SameFraction(Megawatts(v, 1, <<E, 1>>, <<E * One, e>>), <<v * e, One>>)
  BY OneAssumption DEF SameFraction, Megawatts

(* ------------------------------ the invariant --------------------------- *)

Profiled == {"loads", "generators", "storage_units"}

\* A series that varies, and the types of component one is stored for.
Varies(key, name) == Has(key, name) /\ Peak(series[key][name]) # Lowest(series[key][name])
Served(key) == ClassTypes(key[1]) \ {"EnergyReservoirStorage"}

\* How a row of the association table stands to the row it is of and what that was made of.
StandsAsALoad(a, row, r) ==
  /\ a.type \in LoadTypes /\ a.key = PSet /\ a.name = "max_active_power" /\ ~IsUnscalable(r)
  /\ row.capacity = <<LoadPeak(r), 1>>
  /\ a.scale = IF LoadPeak(r) = 0 THEN <<1, 1>> ELSE <<LoadPeak(r), 1>>

StandsAsAPlant(a, row, r) ==
  /\ a.type \in GeneratorTypes /\ a.key = PMaxPu /\ a.name = "max_active_power"
  /\ row.capacity = <<EffectivePNom(r) * SeriesPeak(r), One>>
  /\ a.scale = IF SeriesPeak(r) = 0 THEN <<1, 1>> ELSE <<SeriesPeak(r), One>>

StandsAsACeiling(a, row, r) ==
  /\ a.type = "HydroDispatch" /\ a.key = HydroMax /\ a.name = "max_active_power"
  /\ row.capacity = <<EffectivePNom(r), 1>> /\ a.scale = <<1, 1>>
  /\ Has(Inflow, r.name)
  /\ series[HydroMax][r.name] = [i \in DOMAIN series[Inflow][r.name] |-> r.pmax]

StandsAsABudget(a, row, r) ==
  /\ a.type = "HydroDispatch" /\ a.key = Inflow /\ a.name = "hydro_budget"
  /\ row.capacity = <<EffectivePNom(r), 1>> /\ EffectivePNom(r) > 0 /\ r.efficiency > 0
  /\ a.scale = <<EffectivePNom(r) * One, r.efficiency>>

StandsFor(a, row, r) ==
  /\ row.id = a.owner /\ row.name = r.name /\ a.component = r.name /\ Has(a.key, r.name)
  /\ \/ StandsAsALoad(a, row, r) \/ StandsAsAPlant(a, row, r)
     \/ StandsAsACeiling(a, row, r) \/ StandsAsABudget(a, row, r)

Stands(a) ==
  \E class \in Profiled : \E r \in ToSet(network[class]) : \E row \in ToSet(TableOf(a.type)) :
    a.type \in ClassTypes(class) /\ StandsFor(a, row, r)

\* No two of some associations are of one series of one component.
ToldApart(some) ==
  \A i, j \in DOMAIN some : some[i].owner = some[j].owner /\ some[i].name = some[j].name => i = j

HasOne(some, id) == \E a \in ToSet(some) : a.owner = id
IsLeftOut(key, name) == \E i \in DOMAIN skips : skips[i].class = key[2] /\ skips[i].name = name

\* A series that varies is associated with its component, or reported.
Covered ==
  \A key \in Quantities : \A type \in Served(key) \cap DOMAIN tables : \A row \in ToSet(tables[type]) :
    Varies(key, row.name) => HasOne(associations, row.id) \/ IsLeftOut(key, row.name)

\* What the leg reads are numbers still, whatever was added.
Numeric == HasNumbers(network) /\ HasProfiles(series) /\ ZeroPeaksAreFlat(series)

AsWritten ==
  /\ "arrays" \in DOMAIN document
  /\ step = "written" => document.arrays = {ArrayOf(a) : a \in ToSet(associations)}

Stored ==
  /\ Numeric /\ IsTable(associations) /\ ToldApart(associations) /\ Covered /\ AsWritten
  /\ \A a \in ToSet(associations) : Stands(a)

(* ---------------------------- tables of series -------------------------- *)

LEMMA Elements ==
  ASSUME NEW z, IsTable(z)
  PROVE  (\A i \in DOMAIN z : z[i] \in ToSet(z)) /\ \A e \in ToSet(z) : \E i \in DOMAIN z : e = z[i]
  BY Tables

\* Where the elements of two tables are in the two joined.
JoinedAs(x, y, xy) ==
  /\ IsTable(xy)
  /\ \A i \in DOMAIN x : i \in DOMAIN xy /\ xy[i] = x[i]
  /\ \A i \in DOMAIN y : Len(x) + i \in DOMAIN xy /\ xy[Len(x) + i] = y[i]
  /\ \A i \in DOMAIN xy \ DOMAIN x : i - Len(x) \in DOMAIN y /\ xy[i] = y[i - Len(x)]
  /\ \A i, j \in DOMAIN xy \ DOMAIN x : i - Len(x) = j - Len(x) => i = j

LEMMA PlacesJoined ==
  ASSUME NEW x, IsTable(x), NEW y, IsTable(y)
  PROVE  JoinedAs(x, y, x \o y)
  <1> DEFINE xy == x \o y
  <1>1. IsTable(xy)
    BY Joined
  <1>2. \A i \in DOMAIN x : i \in DOMAIN xy /\ xy[i] = x[i]
    BY Joined
  <1>3. \A i \in DOMAIN y : Len(x) + i \in DOMAIN xy /\ xy[Len(x) + i] = y[i]
    BY Joined
  <1>4. ASSUME NEW i \in DOMAIN xy \ DOMAIN x PROVE i - Len(x) \in DOMAIN y /\ i = Len(x) + (i - Len(x))
    BY Joined
  <1> HIDE DEF xy
  <1>5. ASSUME NEW i \in DOMAIN xy \ DOMAIN x PROVE i - Len(x) \in DOMAIN y /\ xy[i] = y[i - Len(x)]
    BY <1>3, <1>4
  <1>6. ASSUME NEW i \in DOMAIN xy \ DOMAIN x, NEW j \in DOMAIN xy \ DOMAIN x, i - Len(x) = j - Len(x) PROVE i = j
    BY <1>4, <1>6
  <1>7. JoinedAs(x, y, xy)
    BY <1>1, <1>2, <1>3, <1>5, <1>6 DEF JoinedAs
  <1> QED
    BY <1>7 DEF xy

LEMMA ElementsJoined ==
  ASSUME NEW x, IsTable(x), NEW y, IsTable(y), NEW xy, JoinedAs(x, y, xy)
  PROVE  IsTable(xy) /\ ToSet(xy) = ToSet(x) \cup ToSet(y)
  <1>1. /\ IsTable(xy)
        /\ \A i \in DOMAIN x : i \in DOMAIN xy /\ xy[i] = x[i]
        /\ \A i \in DOMAIN y : Len(x) + i \in DOMAIN xy /\ xy[Len(x) + i] = y[i]
        /\ \A i \in DOMAIN xy \ DOMAIN x : i - Len(x) \in DOMAIN y /\ xy[i] = y[i - Len(x)]
    BY DEF JoinedAs
  <1>2. /\ (\A i \in DOMAIN x : x[i] \in ToSet(x)) /\ \A e \in ToSet(x) : \E i \in DOMAIN x : e = x[i]
        /\ (\A i \in DOMAIN y : y[i] \in ToSet(y)) /\ \A e \in ToSet(y) : \E i \in DOMAIN y : e = y[i]
        /\ (\A i \in DOMAIN xy : xy[i] \in ToSet(xy)) /\ \A e \in ToSet(xy) : \E i \in DOMAIN xy : e = xy[i]
    BY <1>1, Elements
  <1>3. ASSUME NEW e \in ToSet(xy) PROVE e \in ToSet(x) \/ e \in ToSet(y)
    <2>1. PICK i \in DOMAIN xy : e = xy[i]
      BY <1>2
    <2>2. CASE i \in DOMAIN x
      BY <1>1, <1>2, <2>1, <2>2
    <2>3. CASE i \notin DOMAIN x
      BY <1>1, <1>2, <2>1, <2>3
    <2> QED
      BY <2>2, <2>3
  <1>4. ASSUME NEW e \in ToSet(x) PROVE e \in ToSet(xy)
    <2>1. PICK i \in DOMAIN x : e = x[i]
      BY <1>2
    <2> QED
      BY <1>1, <1>2, <2>1
  <1>5. ASSUME NEW e \in ToSet(y) PROVE e \in ToSet(xy)
    <2>1. PICK i \in DOMAIN y : e = y[i]
      BY <1>2
    <2>2. Len(x) + i \in DOMAIN xy /\ xy[Len(x) + i] = e
      BY <1>1, <2>1
    <2> QED
      BY <1>2, <2>2
  <1> QED
    BY <1>1, <1>3, <1>4, <1>5

\* Two told apart, no one of which is of the other's series of the same component.
LEMMA ToldTogether ==
  ASSUME NEW x, IsTable(x), ToldApart(x), NEW y, IsTable(y), ToldApart(y),
         \A a \in ToSet(x), b \in ToSet(y) : a.owner # b.owner \/ a.name # b.name,
         NEW xy, JoinedAs(x, y, xy)
  PROVE  ToldApart(xy)
  <1>1. /\ \A i \in DOMAIN x : i \in DOMAIN xy /\ xy[i] = x[i]
        /\ \A i \in DOMAIN xy \ DOMAIN x : i - Len(x) \in DOMAIN y /\ xy[i] = y[i - Len(x)]
        /\ \A i, j \in DOMAIN xy \ DOMAIN x : i - Len(x) = j - Len(x) => i = j
    BY DEF JoinedAs
  <1>2. /\ \A i \in DOMAIN x : x[i] \in ToSet(x)
        /\ \A i \in DOMAIN y : y[i] \in ToSet(y)
    BY Tables
  <1>3. ASSUME NEW i \in DOMAIN xy, NEW j \in DOMAIN xy, xy[i].owner = xy[j].owner, xy[i].name = xy[j].name
        PROVE  i = j
    <2>1. CASE i \in DOMAIN x /\ j \in DOMAIN x
      BY <1>1, <1>3, <2>1 DEF ToldApart
    <2>2. CASE i \in DOMAIN x /\ j \notin DOMAIN x
      <3>1. j - Len(x) \in DOMAIN y /\ xy[j] = y[j - Len(x)] /\ xy[i] = x[i]
        BY <1>1, <2>2
      <3> QED
        BY <1>2, <1>3, <2>2, <3>1
    <2>3. CASE i \notin DOMAIN x /\ j \in DOMAIN x
      <3>1. i - Len(x) \in DOMAIN y /\ xy[i] = y[i - Len(x)] /\ xy[j] = x[j]
        BY <1>1, <2>3
      <3> QED
        BY <1>2, <1>3, <2>3, <3>1
    <2>4. CASE i \notin DOMAIN x /\ j \notin DOMAIN x
      <3>1. /\ i - Len(x) \in DOMAIN y /\ j - Len(x) \in DOMAIN y
            /\ xy[i] = y[i - Len(x)] /\ xy[j] = y[j - Len(x)]
        BY <1>1, <2>4
      <3>2. i - Len(x) = j - Len(x)
        BY <1>3, <3>1 DEF ToldApart
      <3> QED
        BY <1>1, <2>4, <3>2
    <2> QED
      BY <2>1, <2>2, <2>3, <2>4
  <1> QED
    BY <1>3 DEF ToldApart

\* Rows of the same names as others.
Mirrors(out, kept) ==
  /\ IsTable(out) /\ DOMAIN out = DOMAIN kept
  /\ \A i \in DOMAIN out : out[i].name = kept[i].name
  /\ \A i, j \in DOMAIN out : out[i].id = out[j].id => i = j

\* One series of each of the rows chosen.
OneOfEach(added, chosen, out) ==
  /\ DOMAIN added = DOMAIN chosen /\ added = [k \in DOMAIN chosen |-> added[k]]
  /\ \A k \in DOMAIN added : added[k].owner = Row(out, chosen[k].name).id

LEMMA SeriesOfTheChosen ==
  ASSUME NEW kept, IsTable(kept), NamedApart(kept), NEW out, Mirrors(out, kept), NEW some, NEW chosen,
         IsTable(chosen), NamedApart(chosen), ToSet(chosen) = ToSet(kept) \cap some,
         NEW added, OneOfEach(added, chosen, out)
  PROVE  /\ IsTable(added) /\ ToldApart(added)
         /\ \A k \in DOMAIN added : \E i \in DOMAIN kept :
              kept[i] = chosen[k] /\ kept[i] \in some /\ Row(out, chosen[k].name) = out[i] /\ out[i] \in ToSet(out)
         /\ \A i \in DOMAIN kept : kept[i] \in some => HasOne(added, out[i].id)
  <1>1. /\ DOMAIN chosen = 1 .. Len(chosen) /\ Len(chosen) \in Nat
        /\ \A k \in DOMAIN chosen : chosen[k] \in ToSet(chosen)
        /\ \A r \in ToSet(chosen) : \E k \in DOMAIN chosen : chosen[k] = r
        /\ \A r \in ToSet(kept) : \E i \in DOMAIN kept : kept[i] = r
        /\ \A i \in DOMAIN kept : kept[i] \in ToSet(kept)
    BY Tables
  <1>2. IsTable(added)
    BY <1>1, TableOfRows DEF OneOfEach
  <1>3. /\ ToSet(out) = {out[i] : i \in DOMAIN out} /\ \A i \in DOMAIN kept : out[i] \in ToSet(out)
    BY Tables DEF Mirrors
  <1>4. ASSUME NEW i \in DOMAIN kept PROVE Row(out, kept[i].name) = out[i]
    <2>1. out[i] \in ToSet(out) /\ out[i].name = kept[i].name
      BY <1>3 DEF Mirrors
    <2>2. \A r \in ToSet(out) : r.name = kept[i].name => r = out[i]
      BY <1>3 DEF Mirrors, NamedApart
    <2> QED
      BY <2>1, <2>2 DEF Row
  <1>5. ASSUME NEW k \in DOMAIN added
        PROVE  \E i \in DOMAIN kept : kept[i] = chosen[k] /\ kept[i] \in some /\ Row(out, chosen[k].name) = out[i]
    <2>1. PICK i \in DOMAIN kept : kept[i] = chosen[k]
      BY <1>1 DEF OneOfEach
    <2>2. Row(out, chosen[k].name) = out[i]
      BY <1>4, <2>1
    <2> QED
      BY <1>1, <2>1, <2>2 DEF OneOfEach
  <1>6. ASSUME NEW i \in DOMAIN kept, kept[i] \in some PROVE HasOne(added, out[i].id)
    <2>1. PICK k \in DOMAIN chosen : chosen[k] = kept[i]
      BY <1>1, <1>6
    <2>2. added[k].owner = out[i].id /\ added[k] \in ToSet(added)
      BY <1>2, <1>4, <2>1, Tables DEF OneOfEach
    <2> QED
      BY <2>2 DEF HasOne
  <1>7. ASSUME NEW k \in DOMAIN added, NEW m \in DOMAIN added, added[k].owner = added[m].owner PROVE k = m
    <2>1. PICK i \in DOMAIN kept : kept[i] = chosen[k] /\ Row(out, chosen[k].name) = out[i]
      BY <1>5
    <2>2. PICK j \in DOMAIN kept : kept[j] = chosen[m] /\ Row(out, chosen[m].name) = out[j]
      BY <1>5
    <2>3. out[i].id = out[j].id
      BY <1>7, <2>1, <2>2 DEF OneOfEach
    <2>4. i = j
      BY <2>3 DEF Mirrors
    <2> QED
      BY <2>1, <2>2, <2>4 DEF NamedApart, OneOfEach
  <1>8. ToldApart(added)
    BY <1>7 DEF ToldApart
  <1> QED
    BY <1>2, <1>3, <1>5, <1>6, <1>8

(* ------------------------------ going on -------------------------------- *)

\* A part may derive a series, and leaves what was staged as it was.
StagedSeriesStay ==
  \A key \in Quantities : /\ key \in DOMAIN series' <=> key \in DOMAIN series
                          /\ key \in DOMAIN series => series'[key] = series[key]

\* And writes tables, leaving those there are.
TablesStay == \A type \in DOMAIN tables : type \in DOMAIN tables' /\ tables'[type] = tables[type]

LEMMA QuantitiesStay ==
  ASSUME StagedSeriesStay, NEW key \in Quantities, NEW name
  PROVE  /\ Has(key, name)' <=> Has(key, name)
         /\ Has(key, name) => series'[key] = series[key]
         /\ Varies(key, name)' <=> Varies(key, name)
  <1>1. Has(key, name)' <=> Has(key, name)
    BY DEF StagedSeriesStay, Has
  <1>2. Has(key, name) => series'[key] = series[key]
    BY DEF StagedSeriesStay, Has
  <1>3. Varies(key, name)' <=> Varies(key, name)
    BY <1>1, <1>2 DEF Varies
  <1> QED
    BY <1>1, <1>2, <1>3

LEMMA TableStays ==
  ASSUME TablesStay, NEW type, NEW row \in ToSet(TableOf(type))
  PROVE  type \in DOMAIN tables /\ TableOf(type)' = TableOf(type)
  <1>1. type \in DOMAIN tables
    BY DEF TableOf, ToSet
  <1> QED
    BY <1>1 DEF TableOf, TablesStay

\* How a series stands to its row depends on nothing else.
LEMMA StandingIsKept ==
  ASSUME StagedSeriesStay, NEW a, NEW row, NEW r, StandsFor(a, row, r), a.type = "HydroDispatch" => series' = series
  PROVE  StandsFor(a, row, r)'
  <1>1. PSet \in Quantities /\ PMaxPu \in Quantities /\ Inflow \in Quantities
    BY DEF Quantities
  <1>2. CASE StandsAsALoad(a, row, r)
    <2>1. Has(PSet, r.name) /\ a.key = PSet
      BY <1>2 DEF StandsFor, StandsAsALoad
    <2>2. Has(PSet, r.name)' /\ series'[PSet] = series[PSet]
      BY <1>1, <2>1, QuantitiesStay
    <2>3. LoadPeak(r)' = LoadPeak(r) /\ (IsUnscalable(r)' <=> IsUnscalable(r))
      BY <2>1, <2>2 DEF LoadPeak, IsUnscalable
    <2>4. StandsAsALoad(a, row, r)'
      BY <1>2, <2>3 DEF StandsAsALoad
    <2> QED
      BY <2>1, <2>2, <2>4 DEF StandsFor
  <1>3. CASE StandsAsAPlant(a, row, r)
    <2>1. Has(PMaxPu, r.name) /\ a.key = PMaxPu
      BY <1>3 DEF StandsFor, StandsAsAPlant
    <2>2. Has(PMaxPu, r.name)' /\ series'[PMaxPu] = series[PMaxPu]
      BY <1>1, <2>1, QuantitiesStay
    <2>3. SeriesPeak(r)' = SeriesPeak(r)
      BY <2>2 DEF SeriesPeak
    <2>4. StandsAsAPlant(a, row, r)'
      BY <1>3, <2>3 DEF StandsAsAPlant
    <2> QED
      BY <2>1, <2>2, <2>4 DEF StandsFor
  <1>4. CASE StandsAsACeiling(a, row, r)
    <2>1. series' = series
      BY <1>4 DEF StandsAsACeiling
    <2>2. Has(a.key, r.name)' /\ StandsAsACeiling(a, row, r)'
      BY <1>4, <2>1 DEF StandsAsACeiling, StandsFor, Has
    <2> QED
      BY <2>2 DEF StandsFor
  <1>5. CASE StandsAsABudget(a, row, r)
    <2>1. series' = series
      BY <1>5 DEF StandsAsABudget
    <2>2. Has(a.key, r.name)' /\ StandsAsABudget(a, row, r)'
      BY <1>5, <2>1 DEF StandsAsABudget, StandsFor, Has
    <2> QED
      BY <2>2 DEF StandsFor
  <1> QED
    BY <1>2, <1>3, <1>4, <1>5 DEF StandsFor

LEMMA StandsOn ==
  ASSUME StagedSeriesStay, TablesStay, network' = network, NEW a, Stands(a),
         "HydroDispatch" \in DOMAIN tables => series' = series
  PROVE  Stands(a)' /\ \E row \in ToSet(TableOf(a.type)) : row.id = a.owner /\ a.type \in DOMAIN tables
  <1>1. PICK class \in Profiled : \E r \in ToSet(network[class]) : \E row \in ToSet(TableOf(a.type)) :
          a.type \in ClassTypes(class) /\ StandsFor(a, row, r)
    BY DEF Stands
  <1>2. PICK r \in ToSet(network[class]) : \E row \in ToSet(TableOf(a.type)) :
          a.type \in ClassTypes(class) /\ StandsFor(a, row, r)
    BY <1>1
  <1>3. PICK row \in ToSet(TableOf(a.type)) : a.type \in ClassTypes(class) /\ StandsFor(a, row, r)
    BY <1>2
  <1>4. a.type \in DOMAIN tables /\ TableOf(a.type)' = TableOf(a.type)
    BY TableStays
  <1>5. StandsFor(a, row, r)'
    BY <1>3, <1>4, StandingIsKept
  <1>6. Stands(a)'
    BY <1>3, <1>4, <1>5 DEF Stands, Profiled, ClassTypes, TypesOf, LoadTypes, GeneratorTypes, StorageTypes
  <1> QED
    BY <1>3, <1>4, <1>6 DEF StandsFor

LEMMA NumbersStay ==
  ASSUME Numeric, StagedSeriesStay, network' = network
  PROVE  Numeric'
  <1>1. ASSUME NEW key \in Quantities \cap DOMAIN series' PROVE key \in DOMAIN series /\ series'[key] = series[key]
    BY DEF StagedSeriesStay
  <1>2. HasProfiles(series)'
    BY <1>1 DEF Numeric, HasProfiles, Quantities, PSet, PMaxPu, Inflow, IsProfile
  <1>3. ZeroPeaksAreFlat(series)'
    <2>1. PMaxPu \in Quantities
      BY DEF Quantities
    <2>2. PMaxPu \in DOMAIN series' => PMaxPu \in DOMAIN series /\ series'[PMaxPu] = series[PMaxPu]
      BY <1>1, <2>1
    <2> QED
      BY <2>2 DEF Numeric, ZeroPeaksAreFlat, PMaxPu
  <1> QED
    BY <1>2, <1>3 DEF Numeric, HasNumbers

\* What is reported or associated stays so.
LEMMA EventsStay ==
  ASSUME IsTable(skips), NEW events, IsTable(events), skips' = skips \o events, NEW key, NEW name
  PROVE  /\ IsLeftOut(key, name) => IsLeftOut(key, name)'
         /\ (\E i \in DOMAIN events : events[i].class = key[2] /\ events[i].name = name) => IsLeftOut(key, name)'
  <1>1. JoinedAs(skips, events, skips')
    BY PlacesJoined
  <1>2. /\ \A i \in DOMAIN skips : i \in DOMAIN skips' /\ skips'[i] = skips[i]
        /\ \A i \in DOMAIN events : Len(skips) + i \in DOMAIN skips' /\ skips'[Len(skips) + i] = events[i]
    BY <1>1 DEF JoinedAs
  <1>3. IsLeftOut(key, name) => IsLeftOut(key, name)'
    BY <1>2 DEF IsLeftOut
  <1>4. (\E i \in DOMAIN events : events[i].class = key[2] /\ events[i].name = name) => IsLeftOut(key, name)'
    BY <1>2 DEF IsLeftOut
  <1> QED
    BY <1>3, <1>4

\* What the new tables' series and events say of their rows.
CoveredAnew(more, events) ==
  \A key \in Quantities : \A type \in (Served(key) \cap DOMAIN tables') \ DOMAIN tables : \A row \in ToSet(tables'[type]) :
    Varies(key, row.name) =>
      HasOne(more, row.id) \/ \E i \in DOMAIN events : events[i].class = key[2] /\ events[i].name = row.name

\* A part that writes tables, or none, with the series of them.
LEMMA SeriesAreAdded ==
  ASSUME Stored, network' = network, document' = document, step' # "written", Identified(tables'),
         StagedSeriesStay, TablesStay, "HydroDispatch" \in DOMAIN tables => series' = series,
         IsTable(skips), NEW events, IsTable(events), skips' = skips \o events,
         NEW more, IsTable(more), ToldApart(more), associations' = associations \o more,
         \A a \in ToSet(more) : Stands(a)' /\ a.type \notin DOMAIN tables, CoveredAnew(more, events)
  PROVE  Stored'
  <1>1. JoinedAs(associations, more, associations')
    BY PlacesJoined DEF Stored
  <1>2. IsTable(associations') /\ ToSet(associations') = ToSet(associations) \cup ToSet(more)
    BY <1>1, ElementsJoined DEF Stored
  <1>3. \A a \in ToSet(associations) : Stands(a)' /\ \E row \in ToSet(TableOf(a.type)) : row.id = a.owner /\ a.type \in DOMAIN tables
    BY StandsOn DEF Stored
  <1>4. (\A a \in ToSet(associations) : Stands(a))'
    BY <1>2, <1>3
  <1>5. ASSUME NEW a \in ToSet(associations), NEW b \in ToSet(more) PROVE a.owner # b.owner
    <2>1. a.type \in DOMAIN tables /\ b.type \notin DOMAIN tables
      BY <1>3
    <2>2. PICK row \in ToSet(TableOf(a.type)) : row.id = a.owner
      BY <1>3
    <2>3. row \in ToSet(tables'[a.type]) /\ a.type \in DOMAIN tables'
      BY <2>1, <2>2 DEF TableOf, TablesStay
    <2>4. PICK other : other \in ToSet(TableOf(b.type)') /\ other.id = b.owner
      <3>1. Stands(b)'
        OBVIOUS
      <3> QED
        BY <3>1 DEF Stands, StandsFor
    <2>5. b.type \in DOMAIN tables' /\ other \in ToSet(tables'[b.type])
      BY <2>4 DEF TableOf, ToSet
    <2>6. PICK i \in DOMAIN tables'[a.type] : tables'[a.type][i] = row
      BY <2>3, Elements DEF Identified
    <2>7. PICK j \in DOMAIN tables'[b.type] : tables'[b.type][j] = other
      BY <2>5, Elements DEF Identified
    <2>8. <<a.type, i>> \in PlacesOf(tables') /\ <<b.type, j>> \in PlacesOf(tables')
      BY <2>3, <2>5, PlaceOfARow
    <2>9. row.id = other.id => <<a.type, i>> = <<b.type, j>>
      BY <2>6, <2>7, <2>8 DEF Identified
    <2> QED
      BY <2>1, <2>2, <2>4, <2>9
  <1>6. ToldApart(associations')
    BY <1>1, <1>5, ToldTogether DEF Stored
  <1>7. Covered'
    <2>1. ASSUME NEW key \in Quantities, NEW type \in Served(key) \cap DOMAIN tables', NEW row \in ToSet(tables'[type]),
                 Varies(key, row.name)'
          PROVE  HasOne(associations', row.id) \/ IsLeftOut(key, row.name)'
      <3>1. Varies(key, row.name)
        BY <2>1, QuantitiesStay
      <3>2. CASE type \in DOMAIN tables
        <4>1. HasOne(associations, row.id) \/ IsLeftOut(key, row.name)
          BY <3>1, <3>2 DEF Stored, Covered, TablesStay
        <4> QED
          BY <1>2, <4>1, EventsStay DEF HasOne
      <3>3. CASE type \notin DOMAIN tables
        <4>1. HasOne(more, row.id) \/ \E i \in DOMAIN events : events[i].class = key[2] /\ events[i].name = row.name
          BY <3>1, <3>3 DEF CoveredAnew
        <4> QED
          BY <1>2, <4>1, EventsStay DEF HasOne
      <3> QED
        BY <3>2, <3>3
    <2> QED
      BY <2>1 DEF Covered, Quantities, Served, ClassTypes, TypesOf, PSet, PMaxPu, Inflow, LoadTypes, GeneratorTypes, StorageTypes
  <1>8. AsWritten'
    BY DEF Stored, AsWritten
  <1>9. Numeric'
    BY NumbersStay DEF Stored
  <1> QED
    BY <1>2, <1>4, <1>6, <1>7, <1>8, <1>9 DEF Stored, ToldApart, IsTable

(* ----------------------------- the quiet parts -------------------------- *)

\* Tables no series is stored for.
Unserved == {"ACBus", "Line", "TwoTerminalGenericHVDCLine", "Area", "Arc"}

LEMMA NoSeriesIsAdded ==
  ASSUME Stored, Sourced', network' = network, document' = document, step' # "written", series' = series,
         associations' = associations, IsTable(skips), NEW events, IsTable(events), skips' = skips \o events,
         tables' = tables \/ \E type \in Unserved : type \notin DOMAIN tables /\ \E out : Put(type, out)
  PROVE  Stored'
  <1> DEFINE more == <<>>
  <1>1. IsTable(more) /\ associations' = associations \o more /\ ToSet(more) = {} /\ DOMAIN more = {}
    <2>1. IsTable(more) /\ associations' = associations \o more
      BY NothingJoined DEF Stored
    <2>2. ToSet(more) = {} /\ DOMAIN more = {}
      BY DEF ToSet
    <2> QED
      BY <2>1, <2>2
  <1>2. TablesStay /\ DOMAIN tables' \ DOMAIN tables \subseteq Unserved
    BY DEF TablesStay, Put
  <1>3. ToldApart(more)
    BY <1>1 DEF ToldApart
  <1> HIDE DEF more
  <1>4. \A key \in Quantities : Served(key) \cap Unserved = {}
    BY DEF Quantities, Served, Unserved, ClassTypes, TypesOf, PSet, PMaxPu, Inflow, LoadTypes, GeneratorTypes, StorageTypes
  <1>5. CoveredAnew(more, events)
    <2>1. \A key \in Quantities : (Served(key) \cap DOMAIN tables') \ DOMAIN tables = {}
      BY <1>2, <1>4
    <2> QED
      BY <2>1 DEF CoveredAnew
  <1>6. StagedSeriesStay /\ Identified(tables')
    <2>1. Identified(tables)'
      BY DEF Sourced
    <2>2. Identified(tables')
      BY <2>1 DEF Identified, PlacesOf
    <2> QED
      BY <2>2 DEF StagedSeriesStay
  <1>7. \A a \in ToSet(more) : Stands(a)' /\ a.type \notin DOMAIN tables
    BY <1>1
  <1> QED
    BY <1>1, <1>2, <1>3, <1>5, <1>6, <1>7, SeriesAreAdded

LEMMA NothingIsReported ==
  ASSUME Stored, Sourced', network' = network, document' = document, step' # "written", series' = series,
         associations' = associations, IsTable(skips), skips' = skips,
         tables' = tables \/ \E type \in Unserved : type \notin DOMAIN tables /\ \E out : Put(type, out)
  PROVE  Stored'
  <1>1. skips' = skips \o <<>> /\ IsTable(<<>>)
    BY NothingJoined
  <1> QED
    BY <1>1, NoSeriesIsAdded

LEMMA BusesAreStored == Fated /\ Sourced' /\ Stored /\ MapBuses => Stored'
  <1> SUFFICES ASSUME Fated, Sourced', Stored, MapBuses PROVE Stored'
    OBVIOUS
  <1> DEFINE rules == <<Rule("not AC", NotAc(network.buses))>>
             events == Skipped("buses", rules, network.buses)
             out == Numbered(Kept(rules, network.buses), AcBus)
  <1>1. step = "buses" /\ step' # "written" /\ IsTable(skips)
    BY PartsFollow, OnePart DEF MapBuses, Fated, Layout
  <1>2. /\ network' = network /\ document' = document /\ series' = series /\ associations' = associations
        /\ IF network.buses = <<>> THEN tables' = tables /\ skips' = skips
             ELSE Put("ACBus", out) /\ skips' = skips \o events
    BY DEF MapBuses
  <1> HIDE DEF out
  <1>3. CASE network.buses = <<>>
    BY <1>1, <1>2, <1>3, NothingIsReported
  <1>4. CASE network.buses # <<>>
    <2>1. "ACBus" \notin DOMAIN tables
      <3>1. IsAhead("buses", "ACBus") /\ "buses" \in Classes /\ "ACBus" \in ClassTypes("buses")
        BY <1>1 DEF IsAhead, Before, BeforeBuses, Classes, ClassTypes
      <3> QED
        BY <3>1 DEF Fated, Layout
    <2>2. IsTable(events)
      <3>1. IsRules(rules) /\ "buses" \in Classes
        BY RulesOfATable DEF Reasons, Classes
      <3>2. IsTable(network.buses) /\ NamedApart(network.buses)
        BY <1>1, <3>1 DEF Fated, Layout, Unmapped
      <3> HIDE DEF rules
      <3> QED
        BY <3>1, <3>2, KeptOrSkipped
    <2>3. \E type \in Unserved : type \notin DOMAIN tables /\ \E x : Put(type, x)
      BY <1>2, <1>4, <2>1 DEF Unserved
    <2> HIDE DEF events
    <2> QED
      BY <1>1, <1>2, <1>4, <2>2, <2>3, NoSeriesIsAdded
  <1> QED
    BY <1>3, <1>4

LEMMA BranchesAreStored ==
  ASSUME Fated, Sourced', Stored, NEW class \in {"lines", "links"}, NEW type \in Unserved, NEW kind,
         NEW rules, IsRules(rules), ClassTypes(class) = {type}, MapBranches(class, type, kind, rules)
  PROVE  Stored'
  <1> DEFINE events == Skipped(class, rules, network[class])
             out == Numbered(Kept(rules, network[class]), Branch)
  <1>1. step = class /\ step' # "written" /\ IsTable(skips) /\ class \in Classes
    BY PartsFollow, OnePart DEF MapBranches, Fated, Layout, Classes
  <1>2. /\ network' = network /\ document' = document /\ series' = series /\ associations' = associations
        /\ (tables' = tables /\ skips' = skips) \/ (Put(type, out) /\ skips' = skips \o events)
    BY DEF MapBranches
  <1>3. CASE tables' = tables /\ skips' = skips
    BY <1>1, <1>2, <1>3, NothingIsReported
  <1>4. CASE Put(type, out) /\ skips' = skips \o events
    <2> HIDE DEF out
    <2>1. type \notin DOMAIN tables
      <3>1. IsAhead(class, type)
        BY <1>1 DEF IsAhead, Before, BeforeLines, BeforeLinks
      <3> QED
        BY <1>1, <3>1 DEF Fated, Layout
    <2>2. IsTable(events)
      <3>1. IsTable(network[class]) /\ NamedApart(network[class])
        BY <1>1 DEF Fated, Layout, Unmapped
      <3> QED
        BY <3>1, KeptOrSkipped
    <2> HIDE DEF events
    <2> QED
      BY <1>1, <1>2, <1>4, <2>1, <2>2, NoSeriesIsAdded
  <1> QED
    BY <1>2, <1>3, <1>4

LEMMA LinesAreStored == Fated /\ Sourced' /\ Stored /\ (MapLines \/ MapLinks) => Stored'
  <1>1. /\ ClassTypes("lines") = {"Line"} /\ ClassTypes("links") = {"TwoTerminalGenericHVDCLine"}
        /\ "Line" \in Unserved /\ "TwoTerminalGenericHVDCLine" \in Unserved
    BY DEF ClassTypes, Unserved
  <1> QED
    BY <1>1, BranchesAreStored, RulesOfATable DEF MapLines, MapLinks

LEMMA PartsOfNoSeries ==
  Fated /\ Sourced /\ Sourced' /\ Stored /\ (ReadPrices \/ BuildAreas \/ BuildArcs) => Stored'
  <1> SUFFICES ASSUME Fated, Sourced, Sourced', Stored, ReadPrices \/ BuildAreas \/ BuildArcs PROVE Stored'
    OBVIOUS
  <1>1. IsTable(skips) /\ step' # "written"
    <2>1. /\ Goto("prices") => step' = "loads"
          /\ Goto("areas") => step' = "arcs"
          /\ Goto("arcs") => step' = "resolve"
      BY PartsFollow, OnePart
    <2> QED
      BY <2>1 DEF ReadPrices, BuildAreas, BuildArcs, Fated, Layout
  <1>2. /\ network' = network /\ document' = document /\ series' = series /\ associations' = associations
        /\ skips' = skips
    BY DEF ReadPrices, BuildAreas, BuildArcs
  <1>3. tables' = tables \/ \E type \in Unserved : type \notin DOMAIN tables /\ \E out : Put(type, out)
    <2>1. CASE ReadPrices
      BY <2>1 DEF ReadPrices
    <2>2. CASE BuildAreas
      <3>1. "Area" \notin DOMAIN tables /\ "Area" \in Unserved
        <4>1. step = "areas"
          BY <2>2 DEF BuildAreas, Goto
        <4> QED
          BY <4>1 DEF Sourced, Derived, Unserved
      <3>2. tables' = tables \/ \E out : Put("Area", out)
        BY <2>2 DEF BuildAreas
      <3> QED
        BY <3>1, <3>2
    <2>3. CASE BuildArcs
      <3>1. "Arc" \notin DOMAIN tables /\ "Arc" \in Unserved
        <4>1. step = "arcs"
          BY <2>3 DEF BuildArcs, Goto
        <4> QED
          BY <4>1 DEF Sourced, Derived, Unserved
      <3>2. tables' = tables \/ \E out : Put("Arc", out)
        BY <2>3 DEF BuildArcs
      <3> QED
        BY <3>1, <3>2
    <2> QED
      BY <2>1, <2>2, <2>3
  <1> QED
    BY <1>1, <1>2, <1>3, NothingIsReported

(* --------------------------- plants and storage ------------------------- *)

\* The rows of one type, what is written of them, and what of that is associated.
MapsTo(class, type, kept, out) ==
  /\ type \notin DOMAIN tables
  /\ IsTable(kept) /\ NamedApart(kept) /\ ToSet(kept) \subseteq ToSet(network[class])
  /\ type = "HydroDispatch" =>
       \A r \in ToSet(kept) : Has(Inflow, r.name) /\ ~(EffectivePNom(r) <= 0) /\ ~(r.efficiency <= 0)
  /\ Mirrors(out, kept) /\ \A i \in DOMAIN out : out[i].capacity = Rating(type, kept[i])
  /\ (tables' = tables /\ ToSet(kept) = {}) \/ Put(type, out)
  /\ series' = IF type = "HydroDispatch" /\ kept # <<>> THEN WithCeilings(kept) ELSE series
  /\ associations' = associations \o AssociationsOf(type, kept, out)
  /\ \E events : IsTable(events) /\ skips' = skips \o events

\* What the mapping of hydro keeps has water, capacity and efficiency.
LEMMA HydroIsKept ==
  ASSUME NEW rows, NEW r \in ToSet(rows), ~Drops(MappingRules("HydroDispatch", rows), r)
  PROVE  Has(Inflow, r.name) /\ ~(EffectivePNom(r) <= 0) /\ ~(r.efficiency <= 0)
  <1> DEFINE a == Rule("no inflow", {q \in ToSet(rows) : ~Has(Inflow, q.name)})
             b == Rule("no capacity", {q \in ToSet(rows) : EffectivePNom(q) <= 0})
             c == Rule("no efficiency", {q \in ToSet(rows) : q.efficiency <= 0})
             rules == MappingRules("HydroDispatch", rows)
  <1>1. rules = <<a, b, c>>
    BY DEF MappingRules
  <1>2. r \notin a.drops => Has(Inflow, r.name)
    BY DEF Rule
  <1>3. r \notin b.drops => ~(EffectivePNom(r) <= 0)
    BY DEF Rule
  <1>4. r \notin c.drops => ~(r.efficiency <= 0)
    BY DEF Rule
  <1> HIDE DEF a, b, c, rules
  <1>5. DOMAIN rules = 1 .. 3 /\ rules[1] = a /\ rules[2] = b /\ rules[3] = c
    BY <1>1
  <1>6. r \notin a.drops /\ r \notin b.drops /\ r \notin c.drops
    BY <1>5 DEF Drops, rules
  <1> QED
    BY <1>2, <1>3, <1>4, <1>6

LEMMA OneTypeMapsTo ==
  ASSUME Fated, Sourced, NEW class \in {"generators", "storage_units"}, NEW type \in TypesOf(class), MapOne(class, type)
  PROVE  /\ \E kept, out : MapsTo(class, type, kept, out)
         /\ network' = network /\ document' = document /\ step' # "written" /\ IsTable(skips)
  <1> DEFINE mine == Selected(scope, {r \in ToSet(scope) : TypeOf[r.carrier] = type})
             rules == MappingRules(type, mine)
             kept == Kept(rules, mine)
             events == Skipped(class, rules, mine)
             out == Numbered(kept, LAMBDA r, id :
                      [id |-> id, name |-> r.name, bus |-> r.bus, capacity |-> Rating(type, r)])
  <1>1. type \in DOMAIN Follows /\ class \in Classes
    BY OnePart DEF TypesOf, GeneratorTypes, StorageTypes, Classes
  <1>2. step = type /\ step' = Follows[type] /\ step' # "written"
    <2>1. step = type /\ step' = Follows[type]
      BY <1>1, PartsFollow DEF MapOne
    <2> QED
      BY <2>1, OnePart DEF TypesOf, GeneratorTypes, StorageTypes
  <1>3. /\ network' = network /\ document' = document /\ skips' = skips \o events
        /\ IF network[class] = <<>> THEN tables' = tables ELSE Put(type, out)
        /\ series' = IF type = "HydroDispatch" /\ kept # <<>> THEN WithCeilings(kept) ELSE series
        /\ associations' = associations \o AssociationsOf(type, kept, out)
    BY DEF MapOne
  <1>4. type \in ClassTypes(class) /\ type \in PlantTypes(class)
    BY DEF ClassTypes, PlantTypes
  <1>5. step \in Ahead[type]
    BY <1>1, <1>2, AheadEnds DEF TypesOf, GeneratorTypes, StorageTypes
  <1>6. type \notin DOMAIN tables /\ IsTable(skips)
    BY <1>1, <1>4, <1>5 DEF Fated, Layout, IsAhead
  <1>7. IsTable(scope) /\ NamedApart(scope) /\ ToSet(scope) \subseteq ToSet(network[class])
    BY <1>4, <1>5 DEF Fated, Scoped
  <1>8. IsTable(mine) /\ NamedApart(mine) /\ ToSet(mine) \subseteq ToSet(scope)
    BY <1>7, SelectedRows
  <1> HIDE DEF mine
  <1>9. IsRules(rules)
    BY RulesOfAMapping
  <1>10. type = "HydroDispatch" => rules = MappingRules("HydroDispatch", mine)
    OBVIOUS
  <1> HIDE DEF rules
  <1>11. /\ IsTable(kept) /\ NamedApart(kept) /\ IsTable(events)
         /\ ToSet(kept) = {r \in ToSet(mine) : ~Drops(rules, r)}
    BY <1>8, <1>9, KeptOrSkipped
  <1> HIDE DEF kept, events
  <1>12. ASSUME type = "HydroDispatch", NEW r \in ToSet(kept)
         PROVE  Has(Inflow, r.name) /\ ~(EffectivePNom(r) <= 0) /\ ~(r.efficiency <= 0)
    BY <1>10, <1>11, <1>12, HydroIsKept
  <1>13. /\ DOMAIN out = DOMAIN kept /\ out = [i \in DOMAIN kept |-> out[i]]
         /\ \A i \in DOMAIN out : /\ out[i].name = kept[i].name /\ out[i].capacity = Rating(type, kept[i])
                                  /\ out[i].id = FirstFreeId + i - 1
    BY DEF Numbered
  <1> HIDE DEF out
  <1>14. Mirrors(out, kept)
    <2>1. DOMAIN kept = 1 .. Len(kept) /\ Len(kept) \in Nat
      BY <1>11, Tables
    <2>2. IsTable(out)
      BY <1>13, <2>1, TableOfRows
    <2>3. FirstFreeId \in Int
      BY FS_CardinalityType DEF Sourced, Identified, FirstFreeId
    <2>4. \A i, j \in 1 .. Len(kept) : FirstFreeId + i - 1 = FirstFreeId + j - 1 => i = j
      BY <2>1, <2>3
    <2> QED
      BY <1>13, <2>1, <2>2, <2>4 DEF Mirrors
  <1>15. (tables' = tables /\ ToSet(kept) = {}) \/ Put(type, out)
    <2>1. network[class] = <<>> => ToSet(network[class]) = {}
      BY DEF ToSet
    <2> QED
      BY <1>3, <1>7, <1>8, <1>11, <2>1
  <1>16. ToSet(kept) \subseteq ToSet(network[class])
    BY <1>7, <1>8, <1>11
  <1>17. MapsTo(class, type, kept, out)
    BY <1>3, <1>6, <1>11, <1>12, <1>13, <1>14, <1>15, <1>16 DEF MapsTo
  <1> QED
    BY <1>2, <1>3, <1>6, <1>17

\* Once it is known what the new series are of.
LEMMA PlantSeriesAreAdded ==
  ASSUME Stored, Sourced', NEW class \in {"generators", "storage_units"}, NEW type \in TypesOf(class),
         network' = network, document' = document, step' # "written", IsTable(skips),
         NEW kept, NEW out, MapsTo(class, type, kept, out),
         NEW more, IsTable(more), ToldApart(more), more = AssociationsOf(type, kept, out),
         StagedSeriesStay, "HydroDispatch" \in DOMAIN tables => series' = series,
         \A a \in ToSet(more) : a.type = type /\ \E i \in DOMAIN kept : StandsFor(a, out[i], kept[i])',
         \A key \in Quantities : type \in Served(key) =>
           \A i \in DOMAIN kept : Varies(key, kept[i].name) => HasOne(more, out[i].id)
  PROVE  Stored'
  <1>1. PICK events : IsTable(events) /\ skips' = skips \o events
    BY DEF MapsTo
  <1>2. /\ type \notin DOMAIN tables /\ associations' = associations \o more
        /\ IsTable(kept) /\ ToSet(kept) \subseteq ToSet(network[class])
        /\ (tables' = tables /\ ToSet(kept) = {}) \/ Put(type, out)
        /\ IsTable(out) /\ DOMAIN out = DOMAIN kept /\ \A i \in DOMAIN out : out[i].name = kept[i].name
    BY DEF MapsTo, Mirrors
  <1>3. TablesStay /\ DOMAIN tables' \ DOMAIN tables \subseteq {type}
    BY <1>2 DEF TablesStay, Put
  <1>4. \A i \in DOMAIN kept : kept[i] \in ToSet(network[class]) /\ out[i] \in ToSet(out) /\ Put(type, out)
    BY <1>2, Elements
  <1>5. /\ type \in ClassTypes(class) /\ class \in Profiled
        /\ type \in LoadTypes \cup GeneratorTypes \cup StorageTypes
    BY DEF ClassTypes, Profiled, TypesOf
  <1>6. ASSUME NEW a \in ToSet(more) PROVE Stands(a)' /\ a.type \notin DOMAIN tables
    <2>1. PICK i \in DOMAIN kept : StandsFor(a, out[i], kept[i])'
      OBVIOUS
    <2>2. a.type = type /\ TableOf(type)' = out
      BY <1>4, PutWrites
    <2> DEFINE row == out[i]
               r == kept[i]
    <2>3. r \in ToSet(network'[class]) /\ row \in ToSet(TableOf(a.type)')
      BY <1>4, <2>2
    <2>4. StandsFor(a, row, r)' /\ class \in Profiled /\ a.type \in ClassTypes(class)
      BY <1>5, <2>1, <2>2
    <2> HIDE DEF row, r
    <2>5. \E x \in ToSet(TableOf(a.type)') : a.type \in ClassTypes(class) /\ StandsFor(a, x, r)'
      BY <2>3, <2>4
    <2>6. \E q \in ToSet(network'[class]) : \E x \in ToSet(TableOf(a.type)') : a.type \in ClassTypes(class) /\ StandsFor(a, x, q)'
      BY <2>3, <2>5
    <2>7. Stands(a)'
      BY <1>5, <2>6 DEF Stands
    <2> QED
      BY <1>2, <2>2, <2>7
  <1>7. CoveredAnew(more, events)
    <2>1. ASSUME NEW key \in Quantities, NEW t \in (Served(key) \cap DOMAIN tables') \ DOMAIN tables,
                 NEW row \in ToSet(tables'[t]), Varies(key, row.name)
          PROVE  HasOne(more, row.id)
      <3>1. t = type /\ Put(type, out)
        BY <1>2, <1>3
      <3>2. tables'[t] = out
        BY <3>1 DEF Put
      <3>3. PICK i \in DOMAIN out : row = out[i]
        BY <1>2, <3>2, Elements
      <3> QED
        BY <1>2, <2>1, <3>1, <3>3
    <2> QED
      BY <2>1 DEF CoveredAnew
  <1>8. Identified(tables')
    <2>1. Identified(tables)'
      BY DEF Sourced
    <2> QED
      BY <2>1 DEF Identified, PlacesOf
  <1> QED
    BY <1>1, <1>2, <1>3, <1>6, <1>7, <1>8, SeriesAreAdded

LEMMA ServedTypes ==
  /\ Served(PSet) = LoadTypes /\ Served(PMaxPu) = GeneratorTypes /\ Served(Inflow) = {"HydroDispatch"}
  /\ \A key \in Quantities : \A type \in Served(key) :
       /\ type \in LoadTypes => key = PSet
       /\ type \in GeneratorTypes => key = PMaxPu
       /\ type = "HydroDispatch" => key = Inflow
       /\ type # "EnergyReservoirStorage"
  BY DEF Served, ClassTypes, TypesOf, PSet, PMaxPu, Inflow, Quantities, LoadTypes, GeneratorTypes, StorageTypes

LEMMA SeriesAsTheyWere ==
  ASSUME series' = series
  PROVE  StagedSeriesStay
  BY DEF StagedSeriesStay

LEMMA GeneratorSeriesAreStored ==
  ASSUME Fated, Sourced, Sourced', Stored, NEW type \in GeneratorTypes, MapOne("generators", type)
  PROVE  Stored'
  <1>1. type \in TypesOf("generators")
    BY DEF TypesOf
  <1>2. /\ \E kept, out : MapsTo("generators", type, kept, out)
        /\ network' = network /\ document' = document /\ step' # "written" /\ IsTable(skips)
    BY <1>1, OneTypeMapsTo
  <1>3. PICK kept, out : MapsTo("generators", type, kept, out)
    BY <1>2
  <1>4. series' = series /\ type # "HydroDispatch"
    BY <1>3 DEF MapsTo, GeneratorTypes
  <1>5. /\ IsTable(kept) /\ NamedApart(kept) /\ Mirrors(out, kept)
        /\ \A i \in DOMAIN out : out[i].capacity = Rating(type, kept[i])
    BY <1>3 DEF MapsTo
  <1> DEFINE some == {r \in ToSet(kept) : IsForecast(type, r)}
             chosen == Selected(kept, some)
             scale(r) == IF SeriesPeak(r) = 0 THEN <<1, 1>> ELSE <<SeriesPeak(r), One>>
  <1>6. PICK more : more = AssociationsOf(type, kept, out)
    OBVIOUS
  <1>7. more = [k \in DOMAIN chosen |->
                  Association(type, Row(out, chosen[k].name), "max_active_power", PMaxPu, scale(chosen[k]))]
    <2>1. more = PlantAssociations(type, kept, out)
      BY <1>4, <1>6 DEF AssociationsOf
    <2> QED
      BY <2>1 DEF PlantAssociations
  <1>8. IsTable(chosen) /\ NamedApart(chosen) /\ ToSet(chosen) = ToSet(kept) \cap some
    <2> HIDE DEF some
    <2> QED
      BY <1>5, SelectedRows
  <1> HIDE DEF chosen
  <1>9. /\ DOMAIN more = DOMAIN chosen /\ more = [k \in DOMAIN chosen |-> more[k]]
        /\ \A k \in DOMAIN more : /\ more[k].owner = Row(out, chosen[k].name).id
                                  /\ more[k].component = Row(out, chosen[k].name).name
                                  /\ more[k].type = type /\ more[k].name = "max_active_power" /\ more[k].key = PMaxPu
                                  /\ more[k].scale = scale(chosen[k])
    BY <1>7 DEF Association
  <1>10. /\ IsTable(more) /\ ToldApart(more)
         /\ \A k \in DOMAIN more : \E i \in DOMAIN kept :
              kept[i] = chosen[k] /\ kept[i] \in some /\ Row(out, chosen[k].name) = out[i] /\ out[i] \in ToSet(out)
         /\ \A i \in DOMAIN kept : kept[i] \in some => HasOne(more, out[i].id)
    <2> HIDE DEF some, scale
    <2>1. OneOfEach(more, chosen, out)
      BY <1>9 DEF OneOfEach
    <2> QED
      BY <1>5, <1>8, <2>1, SeriesOfTheChosen
  <1>11. ASSUME NEW a \in ToSet(more) PROVE a.type = type /\ \E i \in DOMAIN kept : StandsFor(a, out[i], kept[i])'
    <2>1. PICK k \in DOMAIN more : a = more[k]
      BY <1>10, Elements
    <2>2. PICK i \in DOMAIN kept : kept[i] = chosen[k] /\ kept[i] \in some /\ Row(out, chosen[k].name) = out[i]
      BY <1>10
    <2> DEFINE r == kept[i]
               row == out[i]
    <2>3. row.name = r.name /\ row.capacity = Rating(type, r)
      BY <1>5 DEF Mirrors
    <2>4. /\ a.owner = row.id /\ a.component = row.name /\ a.type = type /\ a.name = "max_active_power" /\ a.key = PMaxPu
          /\ a.scale = scale(r)
      BY <1>9, <2>1, <2>2
    <2>5. Has(PMaxPu, r.name)
      BY <2>2 DEF IsForecast
    <2> HIDE DEF r, row
    <2>6. Rating(type, r) = <<EffectivePNom(r) * SeriesPeak(r), One>>
      BY <2>5 DEF Rating, Ceiling, SeriesPeak
    <2>7. StandsFor(a, row, r)
      BY <2>3, <2>4, <2>5, <2>6 DEF StandsFor, StandsAsAPlant
    <2>8. StandsFor(a, row, r)'
      BY <1>4, <2>7, SeriesAsTheyWere, StandingIsKept
    <2> QED
      BY <2>4, <2>8 DEF r, row
  <1>12. ASSUME NEW key \in Quantities, type \in Served(key), NEW i \in DOMAIN kept, Varies(key, kept[i].name)
         PROVE  HasOne(more, out[i].id)
    <2>1. key = PMaxPu
      BY <1>12, ServedTypes
    <2>2. IsForecast(type, kept[i])
      BY <1>12, <2>1 DEF Varies, IsForecast, SeriesPeak
    <2>3. kept[i] \in some
      BY <1>5, <2>2, Elements
    <2> QED
      BY <1>10, <2>3
  <1> HIDE DEF some, scale
  <1>13. StagedSeriesStay
    BY <1>4, SeriesAsTheyWere
  <1> QED
    BY <1>1, <1>2, <1>3, <1>4, <1>6, <1>10, <1>11, <1>12, <1>13, PlantSeriesAreAdded

LEMMA StorageSeriesAreStored ==
  ASSUME Fated, Sourced, Sourced', Stored, MapOne("storage_units", "EnergyReservoirStorage")
  PROVE  Stored'
  <1> DEFINE type == "EnergyReservoirStorage"
             more == <<>>
  <1>1. type \in TypesOf("storage_units")
    BY DEF TypesOf, StorageTypes
  <1>2. /\ \E kept, out : MapsTo("storage_units", type, kept, out)
        /\ network' = network /\ document' = document /\ step' # "written" /\ IsTable(skips)
    BY <1>1, OneTypeMapsTo
  <1>3. PICK kept, out : MapsTo("storage_units", type, kept, out)
    BY <1>2
  <1>4. series' = series
    BY <1>3 DEF MapsTo
  <1>5. more = AssociationsOf(type, kept, out)
    BY DEF AssociationsOf, GeneratorTypes
  <1>6. IsTable(more) /\ ToldApart(more) /\ ToSet(more) = {}
    BY NothingJoined DEF IsTable, ToldApart, ToSet
  <1>7. \A key \in Quantities : type \notin Served(key)
    BY ServedTypes
  <1> HIDE DEF more, type
  <1> QED
    BY <1>1, <1>2, <1>3, <1>4, <1>5, <1>6, <1>7, SeriesAsTheyWere, PlantSeriesAreAdded

\* A capacity of numbers is one.
LEMMA CapacitiesAreNumbers ==
  ASSUME HasNumbers(network), NEW class \in {"generators", "storage_units"}, NEW r \in ToSet(network[class])
  PROVE  EffectivePNom(r) \in Int /\ r.pmax \in Int /\ (class = "storage_units" => r.efficiency \in Int)
  <1>1. r \in ToSet(network.generators) \cup ToSet(network.storage_units)
    OBVIOUS
  <1>2. IsNumber(r.opt) /\ r.nom \in Int /\ r.min \in Int /\ r.pmax \in Int
    BY <1>1 DEF HasNumbers
  <1>3. CapacityFloor(r) \in Int
    <2> DEFINE S == {r.min, r.nom}
    <2>1. \E x \in S : \A y \in S : x <= y
      <3>1. CASE r.min <= r.nom
        BY <1>2, <3>1
      <3>2. CASE r.nom <= r.min
        BY <1>2, <3>2
      <3> QED
        BY <1>2, <3>1, <3>2
    <2>2. Min(S) \in S
      <3> HIDE DEF S
      <3> QED
        BY <2>1 DEF Min
    <2> QED
      BY <1>2, <2>2 DEF CapacityFloor
  <1>4. HasSolvedCapacity(r) => r.opt \in Int
    BY <1>2 DEF HasSolvedCapacity, IsNumber
  <1>5. EffectivePNom(r) \in Int
    <2>1. CASE HasSolvedCapacity(r)
      BY <1>4, <2>1 DEF EffectivePNom
    <2>2. CASE ~HasSolvedCapacity(r) /\ HasCapacityFloor(r)
      BY <1>3, <2>2 DEF EffectivePNom
    <2>3. CASE ~HasSolvedCapacity(r) /\ ~HasCapacityFloor(r)
      BY <1>2, <2>3 DEF EffectivePNom
    <2> QED
      BY <2>1, <2>2, <2>3
  <1> QED
    BY <1>2, <1>5 DEF HasNumbers

\* What is derived for the units kept, beside what was staged.
LEMMA CeilingsAreDerived ==
  ASSUME NEW kept, IsTable(kept), NamedApart(kept),
         series' = IF kept # <<>> THEN WithCeilings(kept) ELSE series
  PROVE  /\ StagedSeriesStay
         /\ \A i \in DOMAIN kept : /\ Has(HydroMax, kept[i].name)'
                                   /\ series'[HydroMax][kept[i].name] =
                                        [t \in DOMAIN series[Inflow][kept[i].name] |-> kept[i].pmax]
  <1>1. \A key \in Quantities : key # HydroMax
    BY DEF Quantities, HydroMax, PSet, PMaxPu, Inflow
  <1>2. CASE kept = <<>>
    <2>1. DOMAIN kept = {} /\ series' = series
      BY <1>2
    <2> QED
      BY <2>1, SeriesAsTheyWere
  <1>3. CASE kept # <<>>
    <2> DEFINE derived == DerivedSeries(kept)
    <2>1. series' = [key \in DOMAIN series \cup {HydroMax} |-> IF key = HydroMax THEN derived ELSE series[key]]
      BY <1>3 DEF WithCeilings
    <2> HIDE DEF derived
    <2>2. /\ HydroMax \in DOMAIN series' /\ series'[HydroMax] = derived
          /\ \A key : key # HydroMax => (key \in DOMAIN series' <=> key \in DOMAIN series)
          /\ \A key \in DOMAIN series : key # HydroMax => series'[key] = series[key]
      BY <2>1
    <2>3. StagedSeriesStay
      BY <1>1, <2>2 DEF StagedSeriesStay
    <2>4. ASSUME NEW i \in DOMAIN kept
          PROVE  /\ Has(HydroMax, kept[i].name)'
                 /\ series'[HydroMax][kept[i].name] = [t \in DOMAIN series[Inflow][kept[i].name] |-> kept[i].pmax]
      <3>1. kept[i].name \in Names(kept)
        BY DEF Names
      <3>2. Row(kept, kept[i].name) = kept[i]
        <4>1. kept[i] \in ToSet(kept) /\ \A q \in ToSet(kept) : q.name = kept[i].name => q = kept[i]
          BY Elements, NameOfARow
        <4> QED
          BY <4>1 DEF Row
      <3>3. DOMAIN derived = Names(kept) /\ derived[kept[i].name] = [t \in DOMAIN series[Inflow][kept[i].name] |-> kept[i].pmax]
        BY <3>1, <3>2 DEF derived, DerivedSeries
      <3> QED
        BY <2>2, <3>1, <3>3 DEF Has
    <2> QED
      BY <2>3, <2>4
  <1> QED
    BY <1>2, <1>3

LEMMA HydroSeriesAreStored ==
  ASSUME Fated, Sourced, Sourced', Stored, MapOne("storage_units", "HydroDispatch")
  PROVE  Stored'
  <1> DEFINE type == "HydroDispatch"
  <1>1. type \in TypesOf("storage_units")
    BY DEF TypesOf, StorageTypes
  <1>2. /\ \E kept, out : MapsTo("storage_units", type, kept, out)
        /\ network' = network /\ document' = document /\ step' # "written" /\ IsTable(skips)
    BY <1>1, OneTypeMapsTo
  <1>3. PICK kept, out : MapsTo("storage_units", type, kept, out)
    BY <1>2
  <1>4. /\ IsTable(kept) /\ NamedApart(kept) /\ ToSet(kept) \subseteq ToSet(network.storage_units) /\ Mirrors(out, kept)
        /\ \A i \in DOMAIN out : out[i].capacity = Rating(type, kept[i])
        /\ \A r \in ToSet(kept) : Has(Inflow, r.name) /\ ~(EffectivePNom(r) <= 0) /\ ~(r.efficiency <= 0)
        /\ type \notin DOMAIN tables
        /\ series' = IF kept # <<>> THEN WithCeilings(kept) ELSE series
    BY <1>3 DEF MapsTo
  <1>5. /\ StagedSeriesStay
        /\ \A i \in DOMAIN kept : /\ Has(HydroMax, kept[i].name)'
                                  /\ series'[HydroMax][kept[i].name] =
                                       [t \in DOMAIN series[Inflow][kept[i].name] |-> kept[i].pmax]
    BY <1>4, CeilingsAreDerived
  <1>6. PICK ceilings : ceilings = [k \in DOMAIN kept |->
          Association(type, Row(out, kept[k].name), "max_active_power", HydroMax, <<1, 1>>)]
    OBVIOUS
  <1>7. PICK budgets : budgets = [k \in DOMAIN kept |->
          Association(type, Row(out, kept[k].name), "hydro_budget", Inflow,
                      <<EffectivePNom(kept[k]) * One, kept[k].efficiency>>)]
    OBVIOUS
  <1>8. PICK more : more = ceilings \o budgets
    OBVIOUS
  <1>9. more = AssociationsOf(type, kept, out)
    <2>1. type \notin GeneratorTypes
      BY DEF GeneratorTypes
    <2>2. AssociationsOf(type, kept, out) = HydroAssociations(kept, out)
      BY <2>1 DEF AssociationsOf
    <2> QED
      BY <1>6, <1>7, <1>8, <2>2 DEF HydroAssociations
  <1>10. /\ DOMAIN ceilings = DOMAIN kept /\ ceilings = [k \in DOMAIN kept |-> ceilings[k]]
         /\ \A k \in DOMAIN kept : /\ ceilings[k].owner = Row(out, kept[k].name).id
                                   /\ ceilings[k].component = Row(out, kept[k].name).name
                                   /\ ceilings[k].type = type /\ ceilings[k].name = "max_active_power"
                                   /\ ceilings[k].key = HydroMax /\ ceilings[k].scale = <<1, 1>>
    BY <1>6 DEF Association
  <1>11. /\ DOMAIN budgets = DOMAIN kept /\ budgets = [k \in DOMAIN kept |-> budgets[k]]
         /\ \A k \in DOMAIN kept : /\ budgets[k].owner = Row(out, kept[k].name).id
                                   /\ budgets[k].component = Row(out, kept[k].name).name
                                   /\ budgets[k].type = type /\ budgets[k].name = "hydro_budget"
                                   /\ budgets[k].key = Inflow
                                   /\ budgets[k].scale = <<EffectivePNom(kept[k]) * One, kept[k].efficiency>>
    BY <1>7 DEF Association
  <1>12. ToSet(kept) = ToSet(kept) \cap ToSet(kept) /\ \A i \in DOMAIN kept : kept[i] \in ToSet(kept)
    BY <1>4, Elements
  <1>13. OneOfEach(ceilings, kept, out) /\ OneOfEach(budgets, kept, out)
    BY <1>10, <1>11 DEF OneOfEach
  <1>14. /\ IsTable(ceilings) /\ ToldApart(ceilings)
         /\ \A k \in DOMAIN ceilings : \E i \in DOMAIN kept :
              kept[i] = kept[k] /\ kept[i] \in ToSet(kept) /\ Row(out, kept[k].name) = out[i] /\ out[i] \in ToSet(out)
         /\ \A i \in DOMAIN kept : kept[i] \in ToSet(kept) => HasOne(ceilings, out[i].id)
    BY <1>4, <1>12, <1>13, SeriesOfTheChosen
  <1>15. /\ IsTable(budgets) /\ ToldApart(budgets)
         /\ \A k \in DOMAIN budgets : \E i \in DOMAIN kept : kept[i] = kept[k] /\ Row(out, kept[k].name) = out[i]
         /\ \A i \in DOMAIN kept : kept[i] \in ToSet(kept) => HasOne(budgets, out[i].id)
    BY <1>4, <1>12, <1>13, SeriesOfTheChosen
  <1> HIDE DEF type
  <1>16. JoinedAs(ceilings, budgets, more)
    BY <1>8, <1>14, <1>15, PlacesJoined
  <1>17. IsTable(more) /\ ToSet(more) = ToSet(ceilings) \cup ToSet(budgets)
    BY <1>14, <1>15, <1>16, ElementsJoined
  <1>18. ToldApart(more)
    <2>1. \A a \in ToSet(ceilings), b \in ToSet(budgets) : a.owner # b.owner \/ a.name # b.name
      <3>1. \A a \in ToSet(ceilings) : a.name = "max_active_power"
        BY <1>10, <1>14, Elements
      <3>2. \A b \in ToSet(budgets) : b.name = "hydro_budget"
        BY <1>11, <1>15, Elements
      <3> QED
        BY <3>1, <3>2
    <2> QED
      BY <1>14, <1>15, <1>16, <2>1, ToldTogether
  <1>19. ASSUME NEW i \in DOMAIN kept
         PROVE  /\ Rating(type, kept[i]) = <<EffectivePNom(kept[i]), 1>>
                /\ EffectivePNom(kept[i]) > 0 /\ kept[i].efficiency > 0
                /\ Has(Inflow, kept[i].name)' /\ series'[Inflow] = series[Inflow]
                /\ Has(HydroMax, kept[i].name)'
    <2>1. kept[i] \in ToSet(network.storage_units) /\ Has(Inflow, kept[i].name)
      BY <1>4, <1>12
    <2>2. Rating(type, kept[i]) = <<EffectivePNom(kept[i]), 1>>
      BY DEF Rating, type, GeneratorTypes
    <2>3. EffectivePNom(kept[i]) \in Int /\ kept[i].efficiency \in Int
      BY <2>1, CapacitiesAreNumbers DEF Stored, Numeric
    <2>4. EffectivePNom(kept[i]) > 0 /\ kept[i].efficiency > 0
      BY <1>4, <1>12, <2>3
    <2>5. Inflow \in Quantities
      BY DEF Quantities
    <2> QED
      BY <1>5, <2>1, <2>2, <2>4, <2>5, QuantitiesStay
  <1>20. ASSUME NEW a \in ToSet(more) PROVE a.type = type /\ \E i \in DOMAIN kept : StandsFor(a, out[i], kept[i])'
    <2>1. CASE a \in ToSet(ceilings)
      <3>1. PICK k \in DOMAIN ceilings : a = ceilings[k]
        BY <1>14, <2>1, Elements
      <3>2. PICK i \in DOMAIN kept : kept[i] = kept[k] /\ Row(out, kept[k].name) = out[i]
        BY <1>14
      <3> DEFINE r == kept[i]
                 row == out[i]
      <3>3. row.name = r.name /\ row.capacity = <<EffectivePNom(r), 1>>
        BY <1>4, <1>19 DEF Mirrors
      <3>4. /\ a.owner = row.id /\ a.component = row.name /\ a.type = "HydroDispatch" /\ a.name = "max_active_power"
            /\ a.key = HydroMax /\ a.scale = <<1, 1>>
        BY <1>10, <3>1, <3>2 DEF type
      <3>5. /\ Has(Inflow, r.name)' /\ Has(HydroMax, r.name)'
            /\ series'[HydroMax][r.name] = [t \in DOMAIN series'[Inflow][r.name] |-> r.pmax]
        BY <1>5, <1>19
      <3> HIDE DEF r, row
      <3>6. StandsFor(a, row, r)'
        BY <3>3, <3>4, <3>5 DEF StandsFor, StandsAsACeiling
      <3> QED
        BY <3>4, <3>6 DEF r, row, type
    <2>2. CASE a \in ToSet(budgets)
      <3>1. PICK k \in DOMAIN budgets : a = budgets[k]
        BY <1>15, <2>2, Elements
      <3>2. PICK i \in DOMAIN kept : kept[i] = kept[k] /\ Row(out, kept[k].name) = out[i]
        BY <1>15
      <3> DEFINE r == kept[i]
                 row == out[i]
      <3>3. row.name = r.name /\ row.capacity = <<EffectivePNom(r), 1>> /\ EffectivePNom(r) > 0 /\ r.efficiency > 0
        BY <1>4, <1>19 DEF Mirrors
      <3>4. /\ a.owner = row.id /\ a.component = row.name /\ a.type = "HydroDispatch" /\ a.name = "hydro_budget"
            /\ a.key = Inflow /\ a.scale = <<EffectivePNom(r) * One, r.efficiency>>
        BY <1>11, <3>1, <3>2 DEF type
      <3>5. Has(Inflow, r.name)'
        BY <1>19
      <3> HIDE DEF r, row
      <3>6. StandsFor(a, row, r)'
        BY <3>3, <3>4, <3>5 DEF StandsFor, StandsAsABudget
      <3> QED
        BY <3>4, <3>6 DEF r, row, type
    <2> QED
      BY <1>17, <2>1, <2>2
  <1>21. ASSUME NEW key \in Quantities, type \in Served(key), NEW i \in DOMAIN kept, Varies(key, kept[i].name)
         PROVE  HasOne(more, out[i].id)
    BY <1>12, <1>15, <1>17 DEF HasOne
  <1>22. "HydroDispatch" \in DOMAIN tables => series' = series
    BY <1>4 DEF type
  <1> QED
    BY <1>1, <1>2, <1>3, <1>5, <1>9, <1>17, <1>18, <1>20, <1>21, <1>22, PlantSeriesAreAdded

LEMMA AScopeKeepsSeries ==
  ASSUME Fated, Sourced', Stored, NEW class \in {"generators", "storage_units"}, ReadScope(class)
  PROVE  Stored'
  <1> DEFINE rows == network[class]
             rules == ScopeRules(class, rows)
             events == Skipped(class, rules, rows)
  <1>1. step = class /\ step' # "written" /\ IsTable(skips) /\ class \in Classes
    BY PartsFollow, OnePart DEF ReadScope, Fated, Layout, Classes
  <1>2. /\ network' = network /\ document' = document /\ series' = series /\ associations' = associations
        /\ tables' = tables /\ skips' = skips \o events
    BY DEF ReadScope
  <1>3. IsTable(rows) /\ NamedApart(rows)
    BY <1>1 DEF Fated, Layout, Unmapped
  <1>4. IsRules(rules)
    BY RulesOfAScope
  <1> HIDE DEF rows, rules
  <1>5. IsTable(events)
    BY <1>3, <1>4, KeptOrSkipped
  <1> HIDE DEF events
  <1> QED
    BY <1>1, <1>2, <1>5, NoSeriesIsAdded

LEMMA PlantsAreStored == Fated /\ Sourced /\ Sourced' /\ Stored /\ (MapGenerators \/ MapStorageUnits) => Stored'
  <1>1. ASSUME Fated, Sourced, Sourced', Stored, MapGenerators PROVE Stored'
    BY <1>1, AScopeKeepsSeries, GeneratorSeriesAreStored DEF MapGenerators
  <1>2. ASSUME Fated, Sourced, Sourced', Stored, MapStorageUnits PROVE Stored'
    <2>1. ReadScope("storage_units") \/ MapOne("storage_units", "HydroDispatch")
            \/ MapOne("storage_units", "EnergyReservoirStorage")
      BY <1>2 DEF MapStorageUnits, StorageTypes
    <2> QED
      BY <1>2, <2>1, AScopeKeepsSeries, HydroSeriesAreStored, StorageSeriesAreStored
  <1> QED
    BY <1>1, <1>2

(* ------------------------- before the steps, and after ------------------ *)

\* Nothing is associated while there is no table to be of.
LEMMA NoSeriesYet ==
  ASSUME Stored, DOMAIN tables = {}
  PROVE  ToSet(associations) = {}
  <1>1. ASSUME NEW a \in ToSet(associations) PROVE FALSE
    <2>1. \E row : row \in ToSet(TableOf(a.type))
      BY DEF Stored, Stands
    <2> QED
      BY <2>1 DEF TableOf, ToSet
  <1> QED
    BY <1>1

\* The generators added to shed load are described by numbers too.
LEMMA SheddingIsNumbers ==
  ASSUME Fated, Numeric, AddLoadShedding, step = "stage"
  PROVE  HasNumbers(network')
  <1> DEFINE added == [i \in DOMAIN network.buses |-> SheddingAt(network.buses[i])]
             generators == network.generators \o added
  <1>1. "generators" \in Classes /\ "buses" \in Classes /\ Classes \subseteq DOMAIN network
        /\ IsTable(network.generators) /\ IsTable(network.buses)
    BY DEF Classes, Fated, Layout
  <1>2. network' = [network EXCEPT !.generators = generators]
    BY DEF AddLoadShedding
  <1>3. IsTable(added)
    <2>1. DOMAIN network.buses = 1 .. Len(network.buses) /\ Len(network.buses) \in Nat
      BY <1>1, Tables
    <2>2. added = [i \in 1 .. Len(network.buses) |-> added[i]]
      BY <2>1
    <2> QED
      BY <2>1, <2>2, TableOfRows
  <1>4. ASSUME NEW i \in DOMAIN added
        PROVE  IsNumber(added[i].opt) /\ {added[i].nom, added[i].min, added[i].pmax} \subseteq Int
    <2>1. added[i].opt = None /\ added[i].nom = 1 /\ added[i].min = 0 /\ added[i].pmax = One
      BY DEF SheddingAt
    <2> QED
      BY <2>1, OneAssumption DEF IsNumber
  <1> HIDE DEF added
  <1>5. ToSet(generators) = ToSet(network.generators) \cup ToSet(added)
    <2>1. JoinedAs(network.generators, added, generators)
      BY <1>1, <1>3, PlacesJoined
    <2> QED
      BY <1>1, <1>3, <2>1, ElementsJoined
  <1> HIDE DEF generators
  <1>6. /\ network'.generators = generators /\ network'.loads = network.loads
        /\ network'.storage_units = network.storage_units
    BY <1>1, <1>2 DEF Classes
  <1>7. \A r \in ToSet(added) : IsNumber(r.opt) /\ {r.nom, r.min, r.pmax} \subseteq Int
    BY <1>3, <1>4, Elements
  <1> QED
    BY <1>5, <1>6, <1>7 DEF Numeric, HasNumbers

LEMMA StoredBeforeTheSteps ==
  Fated /\ Stored /\ (AddLoadShedding \/ StageAsItIs \/ ValidateTheNetwork) => Stored'
  <1> SUFFICES ASSUME Fated, Stored, AddLoadShedding \/ StageAsItIs \/ ValidateTheNetwork PROVE Stored'
    OBVIOUS
  <1>1. step \in {"stage", "validate"} /\ step' # "written" /\ (AddLoadShedding => step = "stage")
    <2>1. (Goto("stage") => step = "stage" /\ step' = "validate") /\ (Goto("validate") => step' = "buses")
      BY PartsFollow, OnePart
    <2> QED
      BY <2>1 DEF AddLoadShedding, StageAsItIs, ValidateTheNetwork
  <1>2. /\ tables' = tables /\ document' = document /\ series' = series /\ associations' = associations
        /\ AddLoadShedding \/ network' = network
    BY DEF AddLoadShedding, StageAsItIs, ValidateTheNetwork
  <1>3. DOMAIN tables = {}
    BY <1>1 DEF Fated, Layout, Unmapped
  <1>4. ToSet(associations) = {}
    BY <1>3, NoSeriesYet
  <1>5. HasNumbers(network')
    <2>1. HasNumbers(network)
      BY DEF Stored, Numeric
    <2> QED
      BY <1>1, <1>2, <2>1, SheddingIsNumbers DEF Stored
  <1>6. Numeric'
    BY <1>2, <1>5 DEF Stored, Numeric, HasNumbers, HasProfiles, ZeroPeaksAreFlat, Quantities, PSet, PMaxPu, Inflow, IsProfile
  <1>7. Covered' /\ AsWritten' /\ ToldApart(associations') /\ IsTable(associations')
    BY <1>1, <1>2, <1>3 DEF Stored, Covered, AsWritten, Quantities
  <1>8. (\A a \in ToSet(associations) : Stands(a))'
    BY <1>2, <1>4
  <1> QED
    BY <1>6, <1>7, <1>8 DEF Stored, ToldApart, IsTable

LEMMA NothingIsAdded ==
  ASSUME Stored, network' = network, tables' = tables, skips' = skips, series' = series,
         associations' = associations, AsWritten'
  PROVE  Stored'
  <1>1. StagedSeriesStay /\ TablesStay
    BY DEF StagedSeriesStay, TablesStay
  <1>2. Numeric'
    BY <1>1, NumbersStay DEF Stored
  <1>3. (\A a \in ToSet(associations) : Stands(a))'
    <2>1. \A a \in ToSet(associations) : Stands(a)'
      BY <1>1, StandsOn DEF Stored
    <2> QED
      BY <2>1
  <1>4. Covered'
    <2>1. \A key, name : (Varies(key, name)' <=> Varies(key, name)) /\ (IsLeftOut(key, name)' <=> IsLeftOut(key, name))
      BY DEF Varies, Has, IsLeftOut
    <2> QED
      BY <2>1 DEF Stored, Covered, Quantities, Served, ClassTypes, TypesOf, PSet, PMaxPu, Inflow, LoadTypes,
                  GeneratorTypes, StorageTypes
  <1> QED
    BY <1>2, <1>3, <1>4 DEF Stored, ToldApart, IsTable

LEMMA TheSinkStores == Stored /\ (Resolve \/ StoreSeries \/ UNCHANGED vars) => Stored'
  <1> SUFFICES ASSUME Stored, Resolve \/ StoreSeries \/ UNCHANGED vars PROVE Stored'
    OBVIOUS
  <1>1. /\ network' = network /\ tables' = tables /\ skips' = skips /\ series' = series
        /\ associations' = associations
    BY DEF Resolve, StoreSeries, vars
  <1>2. ASSUME NEW a PROVE ArrayOf(a)' = ArrayOf(a)
    BY <1>1 DEF ArrayOf, Has, HydroMax, PMaxPu, UnitOf
  <1>3. CASE Resolve
    <2>1. step' # "written"
      BY <1>3, PartsFollow, OnePart DEF Resolve
    <2>2. "arrays" \in DOMAIN document'
      BY <1>3 DEF Resolve, Stored, AsWritten
    <2>3. AsWritten'
      BY <2>1, <2>2 DEF AsWritten
    <2> QED
      BY <1>1, <2>3, NothingIsAdded
  <1>4. CASE StoreSeries
    <2>1. "arrays" \in DOMAIN document
      BY DEF Stored, AsWritten
    <2>2. CASE document' = document /\ step' = "failed"
      <3>1. AsWritten'
        BY <2>1, <2>2 DEF AsWritten
      <3> QED
        BY <1>1, <3>1, NothingIsAdded
    <2>3. CASE document' = [document EXCEPT !.arrays = {ArrayOf(associations[i]) : i \in DOMAIN associations}]
      <3>1. "arrays" \in DOMAIN document' /\ document'.arrays = {ArrayOf(associations[i]) : i \in DOMAIN associations}
        BY <2>1, <2>3
      <3>2. document'.arrays = {ArrayOf(a) : a \in ToSet(associations)}
        <4>1. ToSet(associations) = {associations[i] : i \in DOMAIN associations}
          BY Tables DEF Stored
        <4> QED
          BY <3>1, <4>1
      <3>3. document'.arrays = {ArrayOf(a)' : a \in ToSet(associations)}
        BY <1>2, <3>2
      <3>4. AsWritten'
        BY <1>1, <3>1, <3>3 DEF AsWritten
      <3> QED
        BY <1>1, <3>4, NothingIsAdded
    <2> QED
      BY <1>4, <2>2, <2>3 DEF StoreSeries
  <1>5. CASE UNCHANGED vars
    <2>1. step' = step /\ document' = document
      BY <1>5 DEF vars
    <2>2. {ArrayOf(a)' : a \in ToSet(associations)} = {ArrayOf(a) : a \in ToSet(associations)}
      BY <1>2
    <2>3. AsWritten'
      BY <1>1, <2>1, <2>2 DEF Stored, AsWritten
    <2> QED
      BY <1>1, <2>3, NothingIsAdded
  <1> QED
    BY <1>3, <1>4, <1>5

LEMMA StoredInit == Init => Stored
  <1> SUFFICES ASSUME Init PROVE Stored
    OBVIOUS
  <1>1. /\ network \in Networks /\ step = "stage" /\ tables = NoRows /\ series = network.series
        /\ associations = <<>> /\ "arrays" \in DOMAIN document
    BY DEF Init
  <1>2. DOMAIN tables = {} /\ ToSet(associations) = {} /\ DOMAIN associations = {} /\ IsTable(associations)
    BY <1>1 DEF NoRows, ToSet, IsTable
  <1>3. Numeric
    BY <1>1, NetworksAssumption, SeriesAssumption DEF Numeric
  <1>4. Covered /\ AsWritten /\ ToldApart(associations)
    BY <1>1, <1>2 DEF Covered, AsWritten, ToldApart
  <1> QED
    BY <1>2, <1>3, <1>4 DEF Stored

(* --------------------------------- loads -------------------------------- *)

\* The series of some loads: one of each load with a profile that its peak can scale back.
StoredAs(type, kept, out, more) ==
  /\ IsTable(more) /\ ToldApart(more)
  /\ \A a \in ToSet(more) : a.type = type /\ \E i \in DOMAIN kept : StandsFor(a, out[i], kept[i]) /\ a.owner = out[i].id
  /\ \A i \in DOMAIN kept : Varies(PSet, kept[i].name) => HasOne(more, out[i].id) \/ IsUnscalable(kept[i])

LEMMA LoadsOfOneType ==
  ASSUME NEW type \in LoadTypes, NEW kept, IsTable(kept), NamedApart(kept), NEW out, Mirrors(out, kept),
         \A i \in DOMAIN out : out[i].capacity = <<LoadPeak(kept[i]), 1>>,
         NEW more, more = LoadAssociations(type, kept, out)
  PROVE  StoredAs(type, kept, out, more)
  <1> DEFINE some == {r \in ToSet(kept) : Has(PSet, r.name) /\ ~IsUnscalable(r)}
             chosen == Selected(kept, some)
             scale(r) == IF LoadPeak(r) = 0 THEN <<1, 1>> ELSE <<LoadPeak(r), 1>>
  <1>1. more = [k \in DOMAIN chosen |->
                  Association(type, Row(out, chosen[k].name), "max_active_power", PSet, scale(chosen[k]))]
    BY DEF LoadAssociations
  <1>2. IsTable(chosen) /\ NamedApart(chosen) /\ ToSet(chosen) = ToSet(kept) \cap some
    <2> HIDE DEF some
    <2> QED
      BY SelectedRows
  <1> HIDE DEF chosen
  <1>3. /\ DOMAIN more = DOMAIN chosen /\ more = [k \in DOMAIN chosen |-> more[k]]
        /\ \A k \in DOMAIN more : /\ more[k].owner = Row(out, chosen[k].name).id
                                  /\ more[k].component = Row(out, chosen[k].name).name
                                  /\ more[k].type = type /\ more[k].name = "max_active_power" /\ more[k].key = PSet
                                  /\ more[k].scale = scale(chosen[k])
    BY <1>1 DEF Association
  <1>4. /\ IsTable(more) /\ ToldApart(more)
        /\ \A k \in DOMAIN more : \E i \in DOMAIN kept :
             kept[i] = chosen[k] /\ kept[i] \in some /\ Row(out, chosen[k].name) = out[i] /\ out[i] \in ToSet(out)
        /\ \A i \in DOMAIN kept : kept[i] \in some => HasOne(more, out[i].id)
    <2> HIDE DEF some, scale
    <2>1. OneOfEach(more, chosen, out)
      BY <1>3 DEF OneOfEach
    <2> QED
      BY <1>2, <2>1, SeriesOfTheChosen
  <1>5. ASSUME NEW a \in ToSet(more)
        PROVE  a.type = type /\ \E i \in DOMAIN kept : StandsFor(a, out[i], kept[i]) /\ a.owner = out[i].id
    <2>1. PICK k \in DOMAIN more : a = more[k]
      BY <1>4, Elements
    <2>2. PICK i \in DOMAIN kept : kept[i] = chosen[k] /\ kept[i] \in some /\ Row(out, chosen[k].name) = out[i]
      BY <1>4
    <2> DEFINE r == kept[i]
               row == out[i]
    <2>3. row.name = r.name /\ row.capacity = <<LoadPeak(r), 1>>
      BY DEF Mirrors
    <2>4. /\ a.owner = row.id /\ a.component = row.name /\ a.type = type /\ a.name = "max_active_power" /\ a.key = PSet
          /\ a.scale = scale(r)
      BY <1>3, <2>1, <2>2
    <2>5. Has(PSet, r.name) /\ ~IsUnscalable(r)
      BY <2>2
    <2> HIDE DEF r, row
    <2>6. StandsFor(a, row, r)
      BY <2>3, <2>4, <2>5 DEF StandsFor, StandsAsALoad
    <2> QED
      BY <2>4, <2>6 DEF r, row
  <1>6. ASSUME NEW i \in DOMAIN kept, Varies(PSet, kept[i].name), ~IsUnscalable(kept[i])
        PROVE  HasOne(more, out[i].id)
    <2>1. kept[i] \in some
      BY <1>6, Elements DEF Varies
    <2> QED
      BY <1>4, <2>1
  <1> HIDE DEF some, scale
  <1> QED
    BY <1>4, <1>5, <1>6 DEF StoredAs

LEMMA LoadsAreStored == Fated /\ Sourced /\ Sourced' /\ Stored /\ MapLoads => Stored'
  <1> SUFFICES ASSUME Fated, Sourced, Sourced', Stored, MapLoads PROVE Stored'
    OBVIOUS
  <1> DEFINE rules == <<Rule("bus scope", OffTheAcBuses(network.loads))>>
  <1>1. step = "loads" /\ step' # "written" /\ IsTable(skips) /\ "loads" \in Classes /\ ClassTypes("loads") = LoadTypes
    BY PartsFollow, OnePart DEF MapLoads, Fated, Layout, Classes, ClassTypes
  <1>2. PICK kept : kept = Kept(rules, network.loads)
    OBVIOUS
  <1>3. PICK gone : gone = Skipped("loads", rules, network.loads)
    OBVIOUS
  <1>4. PICK plain : plain = Selected(kept, {r \in ToSet(kept) : ~IsInterruptible(r)})
    OBVIOUS
  <1>5. PICK priced : priced = Selected(kept, {r \in ToSet(kept) : IsInterruptible(r)})
    OBVIOUS
  <1>6. PICK unscalable : unscalable = Selected(kept, {r \in ToSet(kept) : IsUnscalable(r)})
    OBVIOUS
  <1>7. PICK plainRows : plainRows = Numbered(plain, PowerLoadRow)
    OBVIOUS
  <1>8. PICK pricedRows : pricedRows = [i \in DOMAIN priced |-> PowerLoadRow(priced[i], FirstFreeId + Len(plain) + i - 1)]
    OBVIOUS
  <1>9. PICK left : left = [i \in DOMAIN unscalable |->
                             [class |-> "p_set", name |-> unscalable[i].name, why |-> "unscalable"]]
    OBVIOUS
  <1>10. PICK a : a = LoadAssociations("PowerLoad", plain, plainRows)
    OBVIOUS
  <1>11. PICK b : b = LoadAssociations("InterruptiblePowerLoad", priced, pricedRows)
    OBVIOUS
  <1>12. PICK some : some = {t \in LoadTypes : (IF t = "PowerLoad" THEN plain ELSE priced) # <<>>}
    OBVIOUS
  <1>13. /\ network' = network /\ document' = document /\ series' = series
         /\ skips' = skips \o gone \o left
         /\ associations' = associations \o a \o b
         /\ tables' = [t \in DOMAIN tables \cup some |->
                         CASE t = "PowerLoad" -> plainRows
                           [] t = "InterruptiblePowerLoad" -> pricedRows
                           [] OTHER -> tables[t]]
    BY <1>2, <1>3, <1>4, <1>5, <1>6, <1>7, <1>8, <1>9, <1>10, <1>11, <1>12 DEF MapLoads
  <1>14. IsTable(network.loads) /\ NamedApart(network.loads)
    BY <1>1 DEF Fated, Layout, Unmapped
  <1>15. IsRules(rules)
    BY RulesOfATable DEF Reasons
  <1> HIDE DEF rules
  <1>16. /\ IsTable(kept) /\ NamedApart(kept) /\ IsTable(gone)
         /\ ToSet(kept) \subseteq ToSet(network.loads)
    <2>1. ToSet(kept) = {r \in ToSet(network.loads) : ~Drops(rules, r)}
      BY <1>2, <1>14, <1>15, KeptOrSkipped
    <2> QED
      BY <1>2, <1>3, <1>14, <1>15, <2>1, KeptOrSkipped
  <1>17. ASSUME NEW S, NEW rows, rows = Selected(kept, S)
         PROVE  /\ IsTable(rows) /\ NamedApart(rows) /\ ToSet(rows) = ToSet(kept) \cap S
                /\ ToSet(rows) \subseteq ToSet(network.loads)
                /\ DOMAIN rows = 1 .. Len(rows) /\ Len(rows) \in Nat
    <2>1. IsTable(rows) /\ NamedApart(rows) /\ ToSet(rows) = ToSet(kept) \cap S
      BY <1>16, <1>17, SelectedRows
    <2> QED
      BY <1>16, <2>1, Tables
  <1>18. /\ IsTable(plain) /\ NamedApart(plain) /\ ToSet(plain) \subseteq ToSet(network.loads)
         /\ DOMAIN plain = 1 .. Len(plain) /\ Len(plain) \in Nat
    BY <1>4, <1>17
  <1>19. /\ IsTable(priced) /\ NamedApart(priced) /\ ToSet(priced) \subseteq ToSet(network.loads)
         /\ DOMAIN priced = 1 .. Len(priced) /\ Len(priced) \in Nat
    BY <1>5, <1>17
  <1>20. /\ IsTable(unscalable) /\ DOMAIN unscalable = 1 .. Len(unscalable) /\ Len(unscalable) \in Nat
         /\ ToSet(unscalable) = ToSet(kept) \cap {r \in ToSet(kept) : IsUnscalable(r)}
    BY <1>6, <1>17
  <1>21. FirstFreeId \in Int
    BY FS_CardinalityType DEF Sourced, Identified, FirstFreeId
  <1>22. /\ Mirrors(plainRows, plain)
         /\ \A i \in DOMAIN plainRows : /\ plainRows[i].capacity = <<LoadPeak(plain[i]), 1>>
                                        /\ plainRows[i].id = FirstFreeId + i - 1
    <2>1. /\ DOMAIN plainRows = DOMAIN plain /\ plainRows = [i \in DOMAIN plain |-> plainRows[i]]
          /\ \A i \in DOMAIN plainRows : /\ plainRows[i].name = plain[i].name
                                         /\ plainRows[i].capacity = <<LoadPeak(plain[i]), 1>>
                                         /\ plainRows[i].id = FirstFreeId + i - 1
      BY <1>7 DEF Numbered, PowerLoadRow
    <2>2. IsTable(plainRows)
      BY <1>18, <2>1, TableOfRows
    <2>3. \A i, j \in 1 .. Len(plain) : FirstFreeId + i - 1 = FirstFreeId + j - 1 => i = j
      BY <1>18, <1>21
    <2> QED
      BY <1>18, <2>1, <2>2, <2>3 DEF Mirrors
  <1>23. /\ Mirrors(pricedRows, priced)
         /\ \A i \in DOMAIN pricedRows : /\ pricedRows[i].capacity = <<LoadPeak(priced[i]), 1>>
                                         /\ pricedRows[i].id = FirstFreeId + Len(plain) + i - 1
    <2>1. /\ DOMAIN pricedRows = DOMAIN priced /\ pricedRows = [i \in DOMAIN priced |-> pricedRows[i]]
          /\ \A i \in DOMAIN pricedRows : /\ pricedRows[i].name = priced[i].name
                                          /\ pricedRows[i].capacity = <<LoadPeak(priced[i]), 1>>
                                          /\ pricedRows[i].id = FirstFreeId + Len(plain) + i - 1
      BY <1>8 DEF PowerLoadRow
    <2>2. IsTable(pricedRows)
      BY <1>19, <2>1, TableOfRows
    <2>3. \A i, j \in 1 .. Len(priced) : FirstFreeId + Len(plain) + i - 1 = FirstFreeId + Len(plain) + j - 1 => i = j
      BY <1>18, <1>19, <1>21
    <2> QED
      BY <1>19, <2>1, <2>2, <2>3 DEF Mirrors
  <1>24. StoredAs("PowerLoad", plain, plainRows, a) /\ StoredAs("InterruptiblePowerLoad", priced, pricedRows, b)
    BY <1>10, <1>11, <1>18, <1>19, <1>22, <1>23, LoadsOfOneType DEF LoadTypes
  <1>25. PICK more : more = a \o b
    OBVIOUS
  <1>26. JoinedAs(a, b, more) /\ IsTable(more) /\ ToSet(more) = ToSet(a) \cup ToSet(b)
    <2>1. JoinedAs(a, b, more)
      BY <1>24, <1>25, PlacesJoined DEF StoredAs
    <2> QED
      BY <1>24, <2>1, ElementsJoined DEF StoredAs
  <1>27. ToldApart(more)
    <2>1. ASSUME NEW x \in ToSet(a), NEW y \in ToSet(b) PROVE x.owner # y.owner
      <3>1. PICK i \in DOMAIN plain : x.owner = plainRows[i].id
        BY <1>24 DEF StoredAs
      <3>2. PICK j \in DOMAIN priced : y.owner = pricedRows[j].id
        BY <1>24 DEF StoredAs
      <3>3. x.owner = FirstFreeId + i - 1 /\ y.owner = FirstFreeId + Len(plain) + j - 1
        BY <1>22, <1>23, <3>1, <3>2 DEF Mirrors
      <3>4. i \in Int /\ j \in Int /\ i <= Len(plain) /\ j >= 1
        BY <1>18, <1>19
      <3> QED
        BY <1>18, <1>21, <3>3, <3>4
    <2> QED
      BY <1>24, <1>26, <2>1, ToldTogether DEF StoredAs
  <1>28. associations' = associations \o more
    <2> DEFINE S == ToSet(associations) \cup ToSet(a) \cup ToSet(b)
    <2>1. associations \in Seq(S) /\ a \in Seq(S) /\ b \in Seq(S)
      BY <1>24 DEF StoredAs, Stored, IsTable
    <2> HIDE DEF S
    <2> QED
      BY <1>13, <1>25, <2>1, ConcatAssociative
  <1>29. IsTable(left) /\ DOMAIN left = DOMAIN unscalable
         /\ \A i \in DOMAIN left : left[i].class = "p_set" /\ left[i].name = unscalable[i].name
    <2>1. left = [i \in 1 .. Len(unscalable) |-> left[i]]
      BY <1>9, <1>20
    <2>2. IsTable(left)
      BY <1>20, <2>1, TableOfRows
    <2> QED
      BY <1>9, <2>2
  <1>30. PICK events : events = gone \o left
    OBVIOUS
  <1>31. skips' = skips \o events /\ JoinedAs(gone, left, events) /\ IsTable(events)
    <2> DEFINE S == ToSet(skips) \cup ToSet(gone) \cup ToSet(left)
    <2>1. skips \in Seq(S) /\ gone \in Seq(S) /\ left \in Seq(S)
      BY <1>1, <1>16, <1>29 DEF IsTable
    <2> HIDE DEF S
    <2>2. JoinedAs(gone, left, events)
      BY <1>16, <1>29, <1>30, PlacesJoined
    <2> QED
      BY <1>13, <1>16, <1>29, <1>30, <2>1, <2>2, ConcatAssociative, ElementsJoined
  <1>32. \A t \in LoadTypes : t \notin DOMAIN tables
    <2>1. ASSUME NEW t \in LoadTypes PROVE IsAhead("loads", t)
      BY <1>1 DEF IsAhead, Before, BeforeLoads
    <2> QED
      BY <1>1, <2>1 DEF Fated, Layout
  <1>33. /\ DOMAIN tables' = DOMAIN tables \cup some /\ some \subseteq LoadTypes
         /\ "PowerLoad" \in some <=> plain # <<>>
         /\ "InterruptiblePowerLoad" \in some <=> priced # <<>>
         /\ "PowerLoad" \in some => tables'["PowerLoad"] = plainRows
         /\ "InterruptiblePowerLoad" \in some => tables'["InterruptiblePowerLoad"] = pricedRows
    BY <1>12, <1>13 DEF LoadTypes
  <1>34. TablesStay
    <2>1. ASSUME NEW t \in DOMAIN tables PROVE t \in DOMAIN tables' /\ tables'[t] = tables[t]
      <3>1. t # "PowerLoad" /\ t # "InterruptiblePowerLoad"
        BY <1>32 DEF LoadTypes
      <3> QED
        BY <1>13, <3>1
    <2> QED
      BY <2>1 DEF TablesStay
  <1>35. StagedSeriesStay
    BY <1>13, SeriesAsTheyWere
  <1> HIDE DEF rules
  <1>36. ASSUME NEW type \in LoadTypes, NEW rows, IsTable(rows), ToSet(rows) \subseteq ToSet(network.loads),
                NEW out, Mirrors(out, rows), type \in some <=> rows # <<>>, type \in some => tables'[type] = out,
                NEW added, StoredAs(type, rows, out, added), NEW x \in ToSet(added)
         PROVE  Stands(x)' /\ x.type \notin DOMAIN tables
    <2>1. x.type = type
      BY <1>36 DEF StoredAs
    <2>2. PICK i \in DOMAIN rows : StandsFor(x, out[i], rows[i])
      BY <1>36 DEF StoredAs
    <2> DEFINE row == out[i]
               r == rows[i]
    <2>3. type \in some /\ tables'[type] = out /\ type \in DOMAIN tables'
      <3>1. rows # <<>>
        BY <2>2
      <3> QED
        BY <1>33, <1>36, <3>1
    <2>4. row \in ToSet(TableOf(type)') /\ r \in ToSet(network'["loads"])
      <3>1. TableOf(type)' = out
        BY <2>3 DEF TableOf
      <3>2. out[i] \in ToSet(out)
        BY <1>36, Elements DEF Mirrors
      <3> QED
        BY <1>13, <1>36, <3>1, <3>2, Elements
    <2>5. x.type # "HydroDispatch"
      BY <2>1 DEF LoadTypes
    <2>6. StandsFor(x, row, r)
      BY <2>2
    <2> HIDE DEF row, r
    <2>7. StandsFor(x, row, r)'
      BY <1>35, <2>5, <2>6, StandingIsKept
    <2>8. "loads" \in Profiled /\ x.type \in ClassTypes("loads")
      BY <1>1, <2>1 DEF Profiled
    <2>9. \E y \in ToSet(TableOf(x.type)') : x.type \in ClassTypes("loads") /\ StandsFor(x, y, r)'
      BY <2>1, <2>4, <2>7, <2>8
    <2>10. \E q \in ToSet(network'["loads"]) : \E y \in ToSet(TableOf(x.type)') :
             x.type \in ClassTypes("loads") /\ StandsFor(x, y, q)'
      BY <2>4, <2>9
    <2>11. Stands(x)'
      BY <2>8, <2>10 DEF Stands
    <2> QED
      BY <1>32, <2>1, <2>11
  <1>37. \A x \in ToSet(more) : Stands(x)' /\ x.type \notin DOMAIN tables
    <2>1. ASSUME NEW x \in ToSet(a) PROVE Stands(x)' /\ x.type \notin DOMAIN tables
      BY <1>18, <1>22, <1>24, <1>33, <1>36 DEF LoadTypes
    <2>2. ASSUME NEW x \in ToSet(b) PROVE Stands(x)' /\ x.type \notin DOMAIN tables
      BY <1>19, <1>23, <1>24, <1>33, <1>36 DEF LoadTypes
    <2> QED
      BY <1>26, <2>1, <2>2
  <1>38. ASSUME NEW type, NEW rows, IsTable(rows), NEW S, rows = Selected(kept, S), NEW out, Mirrors(out, rows),
                NEW added, StoredAs(type, rows, out, added), ToSet(added) \subseteq ToSet(more),
                NEW row \in ToSet(out), Varies(PSet, row.name)
         PROVE  HasOne(more, row.id) \/ \E i \in DOMAIN events : events[i].class = "p_set" /\ events[i].name = row.name
    <2>1. PICK i \in DOMAIN out : row = out[i]
      BY <1>38, Elements DEF Mirrors
    <2>2. i \in DOMAIN rows /\ row.name = rows[i].name
      BY <1>38, <2>1 DEF Mirrors
    <2>3. HasOne(added, row.id) \/ IsUnscalable(rows[i])
      BY <1>38, <2>1, <2>2 DEF StoredAs
    <2>4. CASE HasOne(added, row.id)
      BY <1>38, <2>4 DEF HasOne
    <2>5. CASE IsUnscalable(rows[i])
      <3>1. rows[i] \in ToSet(kept)
        BY <1>17, <1>38, <2>2, Elements
      <3>2. PICK k \in DOMAIN unscalable : unscalable[k] = rows[i]
        BY <1>20, <2>5, <3>1, Elements
      <3>3. k \in DOMAIN left /\ left[k].class = "p_set" /\ left[k].name = row.name
        BY <1>29, <2>2, <3>2
      <3>4. Len(gone) + k \in DOMAIN events /\ events[Len(gone) + k] = left[k]
        BY <1>31, <3>3 DEF JoinedAs
      <3> QED
        BY <3>3, <3>4
    <2> QED
      BY <2>3, <2>4, <2>5
  <1>39. CoveredAnew(more, events)
    <2>1. ASSUME NEW key \in Quantities, NEW type \in (Served(key) \cap DOMAIN tables') \ DOMAIN tables,
                 NEW row \in ToSet(tables'[type]), Varies(key, row.name)
          PROVE  HasOne(more, row.id) \/ \E i \in DOMAIN events : events[i].class = key[2] /\ events[i].name = row.name
      <3>1. type \in some /\ type \in LoadTypes
        BY <1>33
      <3>2. key = PSet /\ key[2] = "p_set"
        BY <3>1, ServedTypes DEF PSet
      <3>3. CASE type = "PowerLoad"
        <4>1. tables'[type] = plainRows /\ ToSet(a) \subseteq ToSet(more)
          BY <1>26, <1>33, <3>1, <3>3
        <4> QED
          BY <1>4, <1>18, <1>22, <1>24, <1>38, <2>1, <3>2, <4>1
      <3>4. CASE type = "InterruptiblePowerLoad"
        <4>1. tables'[type] = pricedRows /\ ToSet(b) \subseteq ToSet(more)
          BY <1>26, <1>33, <3>1, <3>4
        <4> QED
          BY <1>5, <1>19, <1>23, <1>24, <1>38, <2>1, <3>2, <4>1
      <3> QED
        BY <3>1, <3>3, <3>4 DEF LoadTypes
    <2> QED
      BY <2>1 DEF CoveredAnew
  <1>40. Identified(tables')
    <2>1. Identified(tables)'
      BY DEF Sourced
    <2> QED
      BY <2>1 DEF Identified, PlacesOf
  <1>41. "HydroDispatch" \in DOMAIN tables => series' = series
    BY <1>13
  <1> QED
    BY <1>1, <1>13, <1>26, <1>27, <1>28, <1>31, <1>34, <1>35, <1>37, <1>39, <1>40, <1>41, SeriesAreAdded

LEMMA StoredStep == Fated /\ Sourced /\ Sourced' /\ Stored /\ [Next]_vars => Stored'
  BY StoredBeforeTheSteps, BusesAreStored, LoadsAreStored, PlantsAreStored, LinesAreStored, PartsOfNoSeries, TheSinkStores
     DEF Next, Terminated

(* --------------------------- what the sink stores ----------------------- *)

\* No two rows of the association table make one array.
LEMMA ArraysAreApart ==
  ASSUME IsTable(associations), ToldApart(associations)
  PROVE  Cardinality({ArrayOf(a) : a \in ToSet(associations)}) = Len(associations)
  <1> DEFINE n == Len(associations)
             S == 1 .. n
             T == {ArrayOf(a) : a \in ToSet(associations)}
             f == [i \in S |-> ArrayOf(associations[i])]
  <1>1. n \in Nat /\ DOMAIN associations = S /\ ToSet(associations) = {associations[i] : i \in S}
    BY Tables
  <1>2. \A a : ArrayOf(a).owner = a.owner /\ ArrayOf(a).name = a.name
    BY DEF ArrayOf
  <1>3. \A i, j \in S : ArrayOf(associations[i]) = ArrayOf(associations[j]) => i = j
    BY <1>1, <1>2 DEF ToldApart
  <1>4. f \in [S -> T] /\ (\A t \in T : \E i \in S : f[i] = t) /\ \A i, j \in S : f[i] = f[j] => i = j
    BY <1>1, <1>3
  <1>5. f \in Bijection(S, T)
    BY <1>4 DEF Bijection, Injection, Surjection, IsInjective
  <1>6. IsFiniteSet(S) /\ Cardinality(S) = n
    <2>1. \A m \in Nat : IsFiniteSet(1 .. m) /\ Cardinality(1 .. m) = m
      BY FS_Interval
    <2> QED
      BY <1>1, <2>1
  <1>7. ExistsBijection(S, T)
    BY <1>5 DEF ExistsBijection
  <1> HIDE DEF S, T, f, n
  <1>8. Cardinality(T) = n
    BY <1>6, <1>7, FS_Bijection
  <1> QED
    BY <1>8 DEF T, n

\* The class of a component, and the row of the network that it is made of.
LEMMA RowsOfTheNetwork ==
  ASSUME NEW class \in Classes, NEW type \in ClassTypes(class), IsTable(network[class]), NamedApart(network[class]),
         NEW r \in ToSet(network[class])
  PROVE  Row(network[ClassOf(type)], r.name) = r
  <1>1. ClassOf(type) = class
    BY TypesApart DEF ClassOf
  <1>2. \A q \in ToSet(network[class]) : q.name = r.name => q = r
    BY NameOfARow
  <1> QED
    BY <1>1, <1>2 DEF Row

\* The profile of an association, and what each value of it makes.
LEMMA ValuesAreScaledBack ==
  ASSUME Numeric, NEW class \in Profiled, NEW r \in ToSet(network[class]), NEW a, a.type \in ClassTypes(class),
         NEW row, StandsFor(a, row, r)
  PROVE  /\ IsProfile(series[a.key][r.name])
         /\ \A i \in DOMAIN series[a.key][r.name] :
              SameFraction(Megawatts(series[a.key][r.name][i], UnitOf(a.key), row.capacity, a.scale), SourceMegawatts(a, r, i))
  <1> DEFINE values == series[a.key][r.name]
  <1>1. PSet \in Quantities /\ PMaxPu \in Quantities /\ Inflow \in Quantities
    BY DEF Quantities
  <1>2. UnitOf(PSet) = 1 /\ UnitOf(Inflow) = 1 /\ UnitOf(PMaxPu) = One /\ UnitOf(HydroMax) = One
    BY DEF UnitOf, PSet, PMaxPu, Inflow, HydroMax
  <1>3. ASSUME NEW key \in Quantities, Has(key, r.name) PROVE IsProfile(series[key][r.name])
    BY <1>3 DEF Numeric, HasProfiles, Has
  <1>4. CASE StandsAsALoad(a, row, r)
    <2>1. /\ a.type \in LoadTypes /\ a.key = PSet /\ ~IsUnscalable(r) /\ Has(PSet, r.name)
          /\ row.capacity = <<LoadPeak(r), 1>>
          /\ a.scale = IF LoadPeak(r) = 0 THEN <<1, 1>> ELSE <<LoadPeak(r), 1>>
      BY <1>4 DEF StandsAsALoad, StandsFor
    <2>2. IsProfile(values)
      BY <1>1, <1>3, <2>1
    <2>3. LoadPeak(r) = Peak(values)
      BY <2>1 DEF LoadPeak
    <2>4. Peak(values) \in Int /\ Lowest(values) \in Int /\ (Peak(values) = 0 => ~ (Lowest(values) < 0))
      BY <2>1, <2>2, PeakOfAProfile DEF IsUnscalable
    <2>5. ASSUME NEW i \in DOMAIN values
          PROVE  SameFraction(Megawatts(values[i], UnitOf(a.key), row.capacity, a.scale), SourceMegawatts(a, r, i))
      <3>1. values[i] \in Int /\ values[i] <= Peak(values) /\ Lowest(values) <= values[i]
        BY <2>2, PeakOfAProfile
      <3> DEFINE v == values[i]
                 P == LoadPeak(r)
      <3>2. v \in Int /\ P \in Int /\ (P = 0 => v = 0)
        <4> HIDE DEF values
        <4> QED
          BY <2>3, <2>4, <3>1
      <3>3. SourceMegawatts(a, r, i) = <<v, 1>>
        BY <2>1 DEF SourceMegawatts, GeneratorTypes, LoadTypes, StorageTypes
      <3> HIDE DEF v, P
      <3>4. SameFraction(Megawatts(v, 1, <<P, 1>>, IF P = 0 THEN <<1, 1>> ELSE <<P, 1>>), <<v, 1>>)
        BY <3>2, ALoadIsScaledBack
      <3> QED
        BY <1>2, <2>1, <3>3, <3>4 DEF v, P
    <2> QED
      BY <2>2, <2>5
  <1>5. CASE StandsAsAPlant(a, row, r)
    <2>1. /\ a.type \in GeneratorTypes /\ a.key = PMaxPu /\ Has(PMaxPu, r.name)
          /\ row.capacity = <<EffectivePNom(r) * SeriesPeak(r), One>>
          /\ a.scale = IF SeriesPeak(r) = 0 THEN <<1, 1>> ELSE <<SeriesPeak(r), One>>
      BY <1>5 DEF StandsAsAPlant, StandsFor
    <2>2. IsProfile(values)
      BY <1>1, <1>3, <2>1
    <2>3. SeriesPeak(r) = Peak(values)
      BY <2>1 DEF SeriesPeak
    <2>4. Peak(values) \in Int /\ Lowest(values) \in Int /\ (Peak(values) = 0 => Lowest(values) = 0)
      BY <2>1, <2>2, PeakOfAProfile DEF Numeric, ZeroPeaksAreFlat, Has
    <2>5. EffectivePNom(r) \in Int
      <3>1. class = "generators"
        BY <2>1 DEF Profiled, ClassTypes, TypesOf, GeneratorTypes, StorageTypes, LoadTypes
      <3> QED
        BY <3>1, CapacitiesAreNumbers DEF Numeric
    <2>6. ASSUME NEW i \in DOMAIN values
          PROVE  SameFraction(Megawatts(values[i], UnitOf(a.key), row.capacity, a.scale), SourceMegawatts(a, r, i))
      <3>1. values[i] \in Int /\ values[i] <= Peak(values) /\ Lowest(values) <= values[i]
        BY <2>2, PeakOfAProfile
      <3> DEFINE v == values[i]
                 P == SeriesPeak(r)
                 E == EffectivePNom(r)
      <3>2. v \in Int /\ P \in Int /\ E \in Int /\ (P = 0 => v = 0)
        <4> HIDE DEF values
        <4> QED
          BY <2>3, <2>4, <2>5, <3>1
      <3>3. SourceMegawatts(a, r, i) = <<E * v, One>>
        BY <2>1 DEF SourceMegawatts, GeneratorTypes, LoadTypes, StorageTypes
      <3> HIDE DEF v, P, E
      <3>4. SameFraction(Megawatts(v, One, <<E * P, One>>, IF P = 0 THEN <<1, 1>> ELSE <<P, One>>), <<E * v, One>>)
        BY <3>2, APlantIsScaledBack
      <3> QED
        BY <1>2, <2>1, <3>3, <3>4 DEF v, P, E
    <2> QED
      BY <2>2, <2>6
  <1>6. ASSUME a.type = "HydroDispatch"
        PROVE  /\ class = "storage_units" /\ EffectivePNom(r) \in Int /\ r.pmax \in Int /\ r.efficiency \in Int
               /\ a.type \notin LoadTypes /\ a.type \notin GeneratorTypes
    <2>1. class = "storage_units"
      BY <1>6 DEF Profiled, ClassTypes, TypesOf, GeneratorTypes, StorageTypes, LoadTypes
    <2> QED
      BY <1>6, <2>1, CapacitiesAreNumbers DEF Numeric, LoadTypes, GeneratorTypes
  <1>7. CASE StandsAsACeiling(a, row, r)
    <2>1. /\ a.type = "HydroDispatch" /\ a.key = HydroMax /\ a.name = "max_active_power"
          /\ row.capacity = <<EffectivePNom(r), 1>> /\ a.scale = <<1, 1>> /\ Has(Inflow, r.name)
          /\ values = [i \in DOMAIN series[Inflow][r.name] |-> r.pmax]
      BY <1>7 DEF StandsAsACeiling
    <2>2. IsProfile(series[Inflow][r.name]) /\ r.pmax \in Int
      BY <1>1, <1>3, <1>6, <2>1
    <2>3. IsProfile(values)
      <3>1. PICK n \in Nat \ {0} : DOMAIN series[Inflow][r.name] = 1 .. n
        BY <2>2, PeakOfAProfile
      <3>2. values = [i \in 1 .. n |-> r.pmax]
        BY <2>1, <3>1
      <3> HIDE DEF values
      <3> QED
        BY <2>2, <3>1, <3>2 DEF IsProfile
    <2>4. ASSUME NEW i \in DOMAIN values
          PROVE  SameFraction(Megawatts(values[i], UnitOf(a.key), row.capacity, a.scale), SourceMegawatts(a, r, i))
      <3>1. values[i] = r.pmax
        BY <2>1
      <3>2. SourceMegawatts(a, r, i) = <<EffectivePNom(r) * r.pmax, One>>
        BY <1>6, <2>1 DEF SourceMegawatts, StorageTypes
      <3> DEFINE p == r.pmax
                 E == EffectivePNom(r)
      <3>3. p \in Int /\ E \in Int
        BY <1>6, <2>1
      <3> HIDE DEF values, p, E
      <3>4. SameFraction(Megawatts(p, One, <<E, 1>>, <<1, 1>>), <<E * p, One>>)
        BY <3>3, AHydroCeilingIsScaledBack
      <3> QED
        BY <1>2, <2>1, <3>1, <3>2, <3>4 DEF p, E
    <2> QED
      BY <2>3, <2>4
  <1>8. CASE StandsAsABudget(a, row, r)
    <2>1. /\ a.type = "HydroDispatch" /\ a.key = Inflow /\ a.name = "hydro_budget" /\ Has(Inflow, r.name)
          /\ row.capacity = <<EffectivePNom(r), 1>> /\ EffectivePNom(r) > 0
          /\ a.scale = <<EffectivePNom(r) * One, r.efficiency>>
      BY <1>8 DEF StandsAsABudget, StandsFor
    <2>2. IsProfile(values)
      BY <1>1, <1>3, <2>1
    <2>3. ASSUME NEW i \in DOMAIN values
          PROVE  SameFraction(Megawatts(values[i], UnitOf(a.key), row.capacity, a.scale), SourceMegawatts(a, r, i))
      <3> DEFINE v == values[i]
                 e == r.efficiency
                 E == EffectivePNom(r)
      <3>1. v \in Int
        BY <2>2, PeakOfAProfile
      <3>2. SourceMegawatts(a, r, i) = <<v * e, One>>
        BY <1>6, <2>1 DEF SourceMegawatts
      <3>3. e \in Int /\ E \in Int /\ E > 0
        BY <1>6, <2>1
      <3> HIDE DEF v, e, E
      <3>4. SameFraction(Megawatts(v, 1, <<E, 1>>, <<E * One, e>>), <<v * e, One>>)
        BY <3>1, <3>3, ABudgetIsScaledBack
      <3> QED
        BY <1>2, <2>1, <3>2, <3>4 DEF v, e, E
    <2> QED
      BY <2>2, <2>3
  <1> QED
    BY <1>4, <1>5, <1>7, <1>8 DEF StandsFor

\* The array of an association holds what the network states for its owner.
LEMMA AnArrayIsTheSource ==
  ASSUME Fated, Sourced, Stored, step = "written", NEW a \in ToSet(associations)
  PROVE  LET A == ArrayOf(a)
             r == Row(network[ClassOf(A.type)], ById(A.owner).name)
         IN  /\ A.length > 0
             /\ \A i \in 1 .. A.length : SameFraction(A.megawatts[i], SourceMegawatts(A, r, i))
  <1>1. PICK class \in Profiled : \E r \in ToSet(network[class]) : \E row \in ToSet(TableOf(a.type)) :
          a.type \in ClassTypes(class) /\ StandsFor(a, row, r)
    BY DEF Stored, Stands
  <1>2. PICK r \in ToSet(network[class]) : \E row \in ToSet(TableOf(a.type)) :
          a.type \in ClassTypes(class) /\ StandsFor(a, row, r)
    BY <1>1
  <1>3. PICK row \in ToSet(TableOf(a.type)) : a.type \in ClassTypes(class) /\ StandsFor(a, row, r)
    BY <1>2
  <1>4. class \in Classes
    BY DEF Profiled, Classes
  <1>5. row.id = a.owner /\ row.name = r.name /\ a.component = r.name /\ Has(a.key, r.name)
    BY <1>3 DEF StandsFor
  <1>6. Identified(tables) /\ document.components = Components
    BY DEF Sourced, Resolved
  <1>7. ById(a.owner).name = r.name
    <2>1. ById(row.id) = Component(a.type, row)
      BY <1>6, RowsAreFound
    <2>2. a.type # "Arc"
      BY <1>3, <1>4, TypesApart
    <2> QED
      BY <1>5, <2>1, <2>2 DEF Component
  <1>8. Row(network[ClassOf(a.type)], ById(a.owner).name) = r
    <2>1. IsTable(network[class]) /\ NamedApart(network[class])
      BY <1>4 DEF Fated, Layout, Unmapped
    <2> QED
      BY <1>3, <1>4, <1>7, <2>1, RowsOfTheNetwork
  <1>9. (CHOOSE q \in ToSet(tables[a.type]) : q.id = a.owner) = row
    <2>1. a.type \in DOMAIN tables /\ row \in ToSet(tables[a.type])
      BY DEF TableOf, ToSet
    <2>2. ASSUME NEW q \in ToSet(tables[a.type]), q.id = a.owner PROVE q = row
      <3>1. PICK i \in DOMAIN tables[a.type] : q = tables[a.type][i]
        BY <1>6, <2>1, Elements DEF Identified
      <3>2. PICK j \in DOMAIN tables[a.type] : row = tables[a.type][j]
        BY <1>6, <2>1, Elements DEF Identified
      <3>3. <<a.type, i>> \in PlacesOf(tables) /\ <<a.type, j>> \in PlacesOf(tables)
        BY <2>1, PlaceOfARow
      <3>4. <<a.type, i>> = <<a.type, j>>
        BY <1>5, <1>6, <2>2, <3>1, <3>2, <3>3 DEF Identified
      <3> QED
        BY <3>1, <3>2, <3>4
    <2> QED
      BY <1>5, <2>1, <2>2
  <1> DEFINE values == series[a.key][r.name]
             A == ArrayOf(a)
  <1>10. /\ IsProfile(values)
         /\ \A i \in DOMAIN values :
              SameFraction(Megawatts(values[i], UnitOf(a.key), row.capacity, a.scale), SourceMegawatts(a, r, i))
    BY <1>3, ValuesAreScaledBack DEF Stored
  <1>11. Len(values) \in Nat \ {0} /\ DOMAIN values = 1 .. Len(values)
    BY <1>10, PeakOfAProfile
  <1>12. /\ A.type = a.type /\ A.owner = a.owner /\ A.name = a.name /\ A.length = Len(values)
         /\ \A i \in DOMAIN values : A.megawatts[i] = Megawatts(values[i], UnitOf(a.key), row.capacity, a.scale)
    BY <1>5, <1>9 DEF ArrayOf
  <1>13. \A i : SourceMegawatts(A, r, i) = SourceMegawatts(a, r, i)
    BY <1>12 DEF SourceMegawatts
  <1> HIDE DEF values, A
  <1>14. A.length > 0 /\ \A i \in 1 .. A.length : SameFraction(A.megawatts[i], SourceMegawatts(A, r, i))
    BY <1>10, <1>11, <1>12, <1>13
  <1>15. Row(network[ClassOf(A.type)], ById(A.owner).name) = r
    BY <1>8, <1>12
  <1> QED
    BY <1>14, <1>15 DEF A

LEMMA StoredMeans == Fated /\ Sourced /\ Stored => StoredSeriesAreTheSourceMegawatts
  <1> SUFFICES ASSUME Fated, Sourced, Stored, step = "written" PROVE StoredSeriesAreTheSourceMegawatts
    BY DEF StoredSeriesAreTheSourceMegawatts
  <1>1. document.arrays = {ArrayOf(a) : a \in ToSet(associations)}
    BY DEF Stored, AsWritten
  <1>2. Cardinality(document.arrays) = Len(associations)
    BY <1>1, ArraysAreApart DEF Stored
  <1>3. ASSUME NEW A \in document.arrays
        PROVE  LET r == Row(network[ClassOf(A.type)], ById(A.owner).name)
               IN  /\ A.length > 0
                   /\ \A i \in 1 .. A.length : SameFraction(A.megawatts[i], SourceMegawatts(A, r, i))
    <2>1. PICK a \in ToSet(associations) : A = ArrayOf(a)
      BY <1>1
    <2> QED
      BY <2>1, AnArrayIsTheSource
  <1>4. ASSUME NEW c \in document.components, NEW key \in Quantities,
               c.type \in ClassTypes(key[1]) \ {"EnergyReservoirStorage"}, Has(key, c.name),
               Peak(series[key][c.name]) # Lowest(series[key][c.name])
        PROVE  \/ \E A \in document.arrays : A.owner = c.id
               \/ \E i \in DOMAIN skips : skips[i].class = key[2] /\ skips[i].name = c.name
    <2>1. Identified(tables) /\ document.components = Components
      BY DEF Sourced, Resolved
    <2>2. PICK p \in PlacesOf(tables) : c = At(p)
      BY <2>1, ComponentsHavePlaces
    <2> DEFINE type == p[1]
               row == tables[p[1]][p[2]]
    <2>3. type \in DOMAIN tables /\ row \in ToSet(tables[type])
      <3>1. p[1] \in DOMAIN tables /\ p[2] \in DOMAIN tables[p[1]]
        BY PlaceOfARow
      <3>2. IsTable(tables[p[1]])
        BY <2>1, <3>1 DEF Identified
      <3> QED
        BY <3>1, <3>2, Elements
    <2>4. c.type = type /\ c.id = row.id /\ type \in Served(key) /\ c.name = row.name
      <3>1. c.type = type /\ c.id = row.id
        BY <2>1, <2>2, ComponentsHavePlaces
      <3>2. type \in Served(key) /\ type # "Arc"
        BY <1>4, <3>1 DEF Served, Quantities, PSet, PMaxPu, Inflow, ClassTypes, TypesOf, LoadTypes, GeneratorTypes, StorageTypes
      <3>3. c.name = row.name
        BY <2>2, <3>2 DEF At, Component
      <3> QED
        BY <3>1, <3>2, <3>3
    <2> HIDE DEF type, row
    <2>5. Varies(key, row.name)
      BY <1>4, <2>4 DEF Varies
    <2>6. HasOne(associations, row.id) \/ IsLeftOut(key, row.name)
      BY <2>3, <2>4, <2>5 DEF Stored, Covered
    <2>7. \A a : ArrayOf(a).owner = a.owner
      BY DEF ArrayOf
    <2> QED
      BY <1>1, <2>4, <2>6, <2>7 DEF HasOne, IsLeftOut
  <1> QED
    BY <1>2, <1>3, <1>4 DEF StoredSeriesAreTheSourceMegawatts

\* Whatever network the leg starts from, however its plants are sized and its profiles run,
\* every array the sink stores is, snapshot by snapshot, the megawatts the network states for
\* the component it is of, though the mapping divides by the peak of the profile and the sink
\* multiplies by what the mapping rated its owner at; no two rows of the association table
\* store one array, and no profile that varies is lost but by a report.
THEOREM SeriesAreTheSource == Spec => []StoredSeriesAreTheSourceMegawatts
  <1>1. Spec => [](Fated /\ Sourced /\ Stored)
    BY FatedInit, FatedStep, SourcedInit, SourcedStep, StoredInit, StoredStep, PTL DEF Spec
  <1> QED
    BY <1>1, StoredMeans, PTL

(***************************************************************************)
(* The sidecar the leg's records travel in (ExtensionSidecar), for any     *)
(* kinds, subjects and chains.                                             *)
(***************************************************************************)

(* ------------------------- the inductive invariant ---------------------- *)

\* A record is of this hop or an earlier one; of an earlier one, when staged from a file.
RecordsHaveAges ==
  /\ \A r \in carried \union reported : r.hop <= position
  /\ stage = "load" => \A r \in carried \union reported : r.hop < position
  /\ stage = "steps" =>
       /\ \A r \in reported : r.hop < position
       /\ \A r \in staged : r.hop < position \/ (r.hop = position /\ r.subject \in Hop.own)

\* The last sidecar written is what the hop that wrote it set aside.
FilesAgree ==
  /\ stage = "load" /\ position = 1 => carried = {}
  /\ stage = "companions" => Hop.emits
  /\ stage \in {"companions", "done"} /\ Hop.emits => sidecars[Hop.place] = carried
  /\ stage = "load" /\ position > 1 /\ chain[position - 1].emits
       => sidecars[chain[position - 1].place] = carried

\* While the steps run: nothing staged was reported before, and the subjects consumed are
\* those of the records read or relayed.
ConsumptionIsExact ==
  stage = "steps" =>
    /\ staged \intersect reported = {}
    /\ read \subseteq staged
    /\ \A r \in staged : r.subject \in consumed <=> r \in read \union carried

\* EveryRecordIsAccountedFor at every point of the way.
AccountedSoFar ==
  IsUnbroken /\ stage # "failed" =>
    made \subseteq used \union reported \union unoffered \union carried
                   \union (IF stage = "steps" THEN staged ELSE {})

\* What a hop sets aside comes of the steps it has run.
CarriedByAStep ==
  stage = "steps" =>
    \A r \in carried : \E j \in DOMAIN Hop.steps :
      j < next_step /\ r.subject.kind \in Hop.steps[j].makes \union Hop.steps[j].relays

StagesAll == \A h \in DOMAIN chain : chain[h].takes_sidecar => chain[h].takes_companions

\* The series are where their records are: of what is staged, of what is set aside, while the
\* companions are written, and in the last sidecar written in full.
StagedHasSeries ==
  stage = "steps" => \A r \in staged : r.varies => r \in staged_series[r.subject.kind]

CarriedHasSeries ==
  stage \in {"steps", "sinks", "companions"} =>
    \A r \in carried : r.varies => r \in carried_series[r.subject.kind]

BeingWrittenHasSeries ==
  stage = "companions" =>
    \A r \in carried : r.varies =>
      r.subject.kind \in unwritten \/ r \in companions[Hop.place][r.subject.kind]

WrittenHasSeries ==
  \A place \in Places : IsWritten(place) =>
    \A r \in carried : r.varies => r \in companions[place][r.subject.kind]

SeriesKeepUp ==
  StagesAll => StagedHasSeries /\ CarriedHasSeries /\ BeingWrittenHasSeries /\ WrittenHasSeries

IInv ==
  /\ TypeOK /\ RecordsHaveAges /\ FilesAgree /\ ConsumptionIsExact /\ NothingReportedIsKept
  /\ AccountedSoFar /\ CarriedByAStep /\ SeriesKeepUp

(* ------------------------------ well-formedness ------------------------- *)

\* A hop of a well-formed state is a hop.
LEMMA HopTyping ==
  ASSUME TypeOK
  PROVE  /\ chain \in Seq(Hops) /\ position \in 1..Len(chain) /\ Len(chain) \in Nat
         /\ DOMAIN chain = 1..Len(chain)
         /\ \A h \in DOMAIN chain :
              /\ chain[h] \in Hops /\ chain[h].place \in Places /\ chain[h].own \subseteq Subjects
              /\ chain[h].steps \in Seq(Steps)
         /\ Hop = chain[position]
  <1>1. chain \in Chains /\ position \in DOMAIN chain
    BY DEF TypeOK
  <1>2. chain \in Seq(Hops)
    BY <1>1, ChainsAssumption
  <1>3. Len(chain) \in Nat /\ DOMAIN chain = 1..Len(chain) /\ chain \in [1..Len(chain) -> Hops]
    BY <1>2
  <1>4. ASSUME NEW h \in Hops
        PROVE  h.place \in Places /\ h.own \subseteq Subjects /\ h.steps \in Seq(Steps)
    BY DEF Hops
  <1>5. \A h \in DOMAIN chain : chain[h] \in Hops
    BY <1>3
  <1> QED
    BY <1>1, <1>2, <1>3, <1>4, <1>5 DEF Hop

\* The step about to run is one of the hop's, and no other makes or relays what it does.
LEMMA StepTyping ==
  ASSUME TypeOK, stage = "steps", next_step <= Len(Hop.steps)
  PROVE  /\ next_step \in DOMAIN Hop.steps /\ DOMAIN Hop.steps = 1..Len(Hop.steps)
         /\ Step \in Steps
         /\ Step.makes \intersect Step.relays = {}
         /\ Step.varies \subseteq Step.makes /\ Step.varies \subseteq CompanionKinds
         /\ \A s \in Hop.own : s.kind \notin Step.makes
         /\ \A j \in DOMAIN Hop.steps : j # next_step =>
              (Step.makes \union Step.relays)
                \intersect (Hop.steps[j].makes \union Hop.steps[j].relays) = {}
  <1>1. /\ next_step \in DOMAIN Hop.steps /\ DOMAIN Hop.steps = 1..Len(Hop.steps)
        /\ Step = Hop.steps[next_step] /\ Step \in Steps
    BY HopTyping DEF TypeOK, Step
  <1>2. chain \in Chains /\ position \in DOMAIN chain
    BY DEF TypeOK
  <1>3. \A i, j \in DOMAIN chain[position].steps :
          LET one == chain[position].steps[i]  other == chain[position].steps[j]
          IN  /\ one.makes \intersect one.relays = {}
              /\ i # j => (one.makes \union one.relays)
                            \intersect (other.makes \union other.relays) = {}
              /\ one.varies \subseteq one.makes
              /\ \A s \in chain[position].own : s.kind \notin one.makes
    BY <1>2, ChainsAssumption
  <1>4. Step.varies \subseteq CompanionKinds
    BY <1>1 DEF Steps
  <1> QED
    BY <1>1, <1>3, <1>4 DEF Hop, Step

\* A sidecar is made of records, and holds none where there is no sidecar.
LEMMA SidecarTyping ==
  ASSUME TypeOK
  PROVE  /\ Sidecar \subseteq Records
         /\ HasSidecar => Source \in Places /\ Sidecar = sidecars[Source]
         /\ ~ HasSidecar => Sidecar = {}
  <1>1. HasSidecar => Source \in Places /\ sidecars[Source] \subseteq Records
    BY HopTyping DEF TypeOK, HasSidecar, Source
  <1> QED
    BY <1>1 DEF Sidecar

\* What a source states for itself is a record of this hop.
LEMMA OwnTyping ==
  ASSUME TypeOK
  PROVE  /\ OwnRecords \subseteq Records
         /\ \A r \in OwnRecords : r.hop = position /\ r.subject \in Hop.own /\ ~ r.varies
  <1>1. position \in Nat /\ Hop.own \subseteq Subjects
    BY HopTyping
  <1>2. ASSUME NEW r \in OwnRecords
        PROVE  /\ r \in [subject : Subjects, hop : Nat, varies : BOOLEAN]
               /\ r.hop = position /\ r.subject \in Hop.own /\ ~ r.varies
    <2>1. PICK s \in Hop.own : r = [subject |-> s, hop |-> position, varies |-> FALSE]
      BY DEF OwnRecords
    <2> QED
      BY <1>1, <2>1
  <1> QED
    BY <1>2 DEF Records

\* What a step makes is a record of this hop, of a kind the step makes.
LEMMA MadeTyping ==
  ASSUME TypeOK, stage = "steps", next_step <= Len(Hop.steps),
         NEW subjects \in SUBSET {s \in Subjects : s.kind \in Step.makes},
         NEW varying \in SUBSET {s \in subjects : s.kind \in Step.varies}
  PROVE  /\ MadeOf(subjects, varying) \subseteq Records
         /\ \A r \in MadeOf(subjects, varying) :
              r.hop = position /\ r.subject \in Subjects /\ r.subject.kind \in Step.makes
         /\ MadeOf(varying, varying) =
              {r \in MadeOf(subjects, varying) : r.varies}
  <1>1. position \in Nat /\ Step.varies \subseteq CompanionKinds
    BY HopTyping, StepTyping
  <1>2. ASSUME NEW r \in MadeOf(subjects, varying)
        PROVE  /\ r \in Records /\ r.hop = position /\ r.subject \in Subjects
               /\ r.subject.kind \in Step.makes
    <2>1. PICK s \in subjects : r = [subject |-> s, hop |-> position, varies |-> s \in varying]
      BY DEF MadeOf
    <2>2. /\ r.subject = s /\ r.hop = position /\ r.varies = (s \in varying)
          /\ s \in Subjects /\ s.kind \in Step.makes
      BY <2>1
    <2>3. s \in varying => s.kind \in CompanionKinds
      BY <1>1
    <2>4. r \in [subject : Subjects, hop : Nat, varies : BOOLEAN]
      BY <2>1, <2>2, <1>1
    <2> QED
      BY <2>2, <2>3, <2>4 DEF Records
  <1>3. MadeOf(varying, varying) = {r \in MadeOf(subjects, varying) : r.varies}
    <2>3. ASSUME NEW r \in MadeOf(varying, varying)
          PROVE  r \in MadeOf(subjects, varying) /\ r.varies
      <3>1. PICK s \in varying : r = [subject |-> s, hop |-> position, varies |-> s \in varying]
        BY DEF MadeOf
      <3>2. s \in subjects /\ r.varies = (s \in varying)
        BY <3>1
      <3> QED
        BY <3>1, <3>2 DEF MadeOf
    <2>4. ASSUME NEW r \in MadeOf(subjects, varying), r.varies
          PROVE  r \in MadeOf(varying, varying)
      <3>1. PICK s \in subjects : r = [subject |-> s, hop |-> position, varies |-> s \in varying]
        BY DEF MadeOf
      <3>2. s \in varying
        BY <2>4, <3>1
      <3> QED
        BY <3>1, <3>2 DEF MadeOf
    <2> QED
      BY <2>3, <2>4
  <1> QED
    BY <1>2, <1>3

\* SidecarInit establishes the invariant's parts.
LEMMA InitIsTyped == SidecarInit => TypeOK
  <1> SUFFICES ASSUME SidecarInit PROVE TypeOK
    OBVIOUS
  <1>1. chain \in Chains /\ position \in DOMAIN chain
    <2>1. chain \in Chains /\ chain \in Seq(Hops) /\ chain # << >>
      BY ChainsAssumption DEF SidecarInit
    <2> QED
      BY <2>1 DEF SidecarInit
  <1>2. NoSeries \in SeriesFrames
    BY DEF NoSeries, SeriesFrames
  <1> QED
    BY <1>1, <1>2 DEF SidecarInit, TypeOK

\* The chain never changes, so its hops stay where they are.
LEMMA StageSidecarIsTyped ==
  ASSUME TypeOK, StageSidecar
  PROVE  TypeOK'
  <1>1. Hop' = Hop /\ Hop.steps \in Seq(Steps)
    BY HopTyping DEF StageSidecar, Hop
  <1>2. staged' \subseteq Records /\ made' \subseteq Records
    BY SidecarTyping, OwnTyping DEF StageSidecar, TypeOK
  <1>3. staged_series' \in SeriesFrames
    <2>1. \A k \in CompanionKinds : k \in Named(Sidecar) => HasSidecar
      BY SidecarTyping DEF Named
    <2>2. \A k \in CompanionKinds : HasSidecar => companions[Source][k] \subseteq Records
      BY SidecarTyping DEF TypeOK, SeriesFrames
    <2> QED
      BY <2>1, <2>2 DEF StageSidecar, SeriesFrames
  <1>4. NoSeries \in SeriesFrames
    BY DEF NoSeries, SeriesFrames
  <1>5. next_step' \in 1..(Len(Hop'.steps) + 1)
    BY <1>1 DEF StageSidecar
  <1>6. UNCHANGED <<chain, position, fileVars, used, reported, unoffered>>
    BY DEF StageSidecar
  <1> QED
    BY <1>2, <1>3, <1>4, <1>5, <1>6 DEF StageSidecar, TypeOK, fileVars

\* What a step does, with the records it relays and makes.
LEMMA RunStepDoes ==
  ASSUME TypeOK, RunStep
  PROVE  \E mapped \in SUBSET Subjects, new \in SUBSET Records :
           /\ read' = read \union Answers(mapped)
           /\ consumed' = consumed \union mapped
                            \union {r.subject : r \in Answers(mapped) \union Relayed}
           /\ \A r \in new : /\ r.hop = position /\ r.subject \in Subjects
                             /\ r.subject.kind \in Step.makes
           /\ made' = made \union new
           /\ carried' = carried \union Relayed \union new
           /\ carried_series' = Series({r \in new : r.varies})
  <1>1. PICK mapped \in SUBSET {s \in Subjects : s.kind \in Step.asks} :
          /\ read' = read \union Answers(mapped)
          /\ consumed' = consumed \union mapped
                            \union {r.subject : r \in Answers(mapped) \union Relayed}
    BY DEF RunStep, Consumption
  <1>2. PICK subjects \in SUBSET {s \in Subjects : s.kind \in Step.makes} :
        \E varying \in SUBSET {s \in subjects : s.kind \in Step.varies} :
          /\ made' = made \union MadeOf(subjects, varying)
          /\ carried' = AppendExtensions(Relayed \union MadeOf(subjects, varying))
          /\ carried_series' = Series(MadeOf(varying, varying))
    BY DEF RunStep
  <1>3. PICK varying \in SUBSET {s \in subjects : s.kind \in Step.varies} :
          /\ made' = made \union MadeOf(subjects, varying)
          /\ carried' = AppendExtensions(Relayed \union MadeOf(subjects, varying))
          /\ carried_series' = Series(MadeOf(varying, varying))
    BY <1>2
  <1> DEFINE new == MadeOf(subjects, varying)
  <1>4. stage = "steps" /\ next_step <= Len(Hop.steps)
    BY DEF RunStep
  <1>5. /\ new \subseteq Records
        /\ \A r \in new : /\ r.hop = position /\ r.subject \in Subjects
                          /\ r.subject.kind \in Step.makes
        /\ MadeOf(varying, varying) = {r \in new : r.varies}
    BY <1>4, MadeTyping
  <1>6. carried' = carried \union Relayed \union new
    BY <1>3 DEF AppendExtensions
  <1>7. mapped \in SUBSET Subjects
    OBVIOUS
  <1> HIDE DEF new
  <1> QED
    BY <1>1, <1>3, <1>5, <1>6, <1>7 DEF new

\* A step keeps the state well formed.
LEMMA RunStepIsTyped ==
  ASSUME TypeOK, RunStep
  PROVE  TypeOK'
  <1>1. PICK mapped \in SUBSET Subjects, new \in SUBSET Records :
          /\ read' = read \union Answers(mapped)
          /\ consumed' = consumed \union mapped
                            \union {r.subject : r \in Answers(mapped) \union Relayed}
          /\ made' = made \union new
          /\ carried' = carried \union Relayed \union new
          /\ carried_series' = Series({r \in new : r.varies})
    BY RunStepDoes
  <1>2. Answers(mapped) \subseteq staged /\ Relayed \subseteq staged
    BY DEF Answers, Relayed, OfKinds
  <1>3. \A r \in Records : r.subject \in Subjects
    BY DEF Records
  <1>4. /\ read' \subseteq Records /\ consumed' \subseteq Subjects /\ made' \subseteq Records
        /\ carried' \subseteq Records
    BY <1>1, <1>2, <1>3 DEF TypeOK
  <1>5. carried_series' \in SeriesFrames
    <2>1. \A k \in CompanionKinds : /\ OfKinds({r \in new : r.varies}, {k}) \subseteq Records
                                    /\ staged_series[k] \subseteq Records
                                    /\ carried_series[k] \subseteq Records
      BY DEF OfKinds, TypeOK, SeriesFrames
    <2> QED
      BY <1>1, <2>1 DEF Series, SeriesFrames
  <1>6. stage = "steps" /\ next_step <= Len(Hop.steps) /\ next_step' = next_step + 1 /\ Hop' = Hop
    BY DEF RunStep, Hop
  <1>7. next_step' \in 1..(Len(Hop'.steps) + 1)
    BY <1>6, StepTyping, HopTyping
  <1>8. opened' \in BOOLEAN
    BY HopTyping, <1>6, StepTyping DEF RunStep, TypeOK, Steps
  <1>9. UNCHANGED <<chain, position, stage, staged, staged_series, fileVars, used, reported,
                    unoffered>>
    BY DEF RunStep
  <1> QED
    BY <1>4, <1>5, <1>7, <1>8, <1>9 DEF TypeOK, fileVars

\* Neither the report nor the sinks disturb the state's form.
LEMMA OtherStepsAreTyped ==
  ASSUME TypeOK, SidecarNext, ~ StageSidecar, ~ RunStep
  PROVE  TypeOK'
  <1>1. CASE RefuseBrokenPair \/ FailHop
    BY <1>1 DEF RefuseBrokenPair, FailHop, TypeOK, hopVars, fileVars, pastVars, Hop
  <1>2. CASE ReportUnread
    <2>1. reported' \subseteq Records /\ unoffered' \subseteq Records /\ used' \subseteq Records
      BY <1>2 DEF ReportUnread, TypeOK
    <2>2. /\ UNCHANGED <<chain, position, hopVars, carried, carried_series, fileVars, made>>
          /\ stage' = "sinks"
      BY <1>2 DEF ReportUnread
    <2> QED
      BY <2>1, <2>2 DEF TypeOK, hopVars, fileVars
  <1>3. CASE WriteDocument
    <2>1. sidecars' \in [Places -> SUBSET Records] /\ unwritten' \subseteq CompanionKinds
      BY <1>3 DEF WriteDocument, TypeOK
    <2> QED
      BY <1>3, <2>1 DEF WriteDocument, TypeOK, hopVars, pastVars
  <1>4. CASE WriteCompanion
    <2>1. companions' \in [Places -> SeriesFrames] /\ unwritten' \subseteq CompanionKinds
      BY <1>4, HopTyping DEF WriteCompanion, TypeOK, SeriesFrames
    <2> QED
      BY <1>4, <2>1 DEF WriteCompanion, TypeOK, hopVars, pastVars, Hop
  <1>5. CASE FinishHop
    <2>1. position' \in DOMAIN chain /\ stage' \in {"load", "done"} /\ chain' = chain
      BY <1>5, HopTyping DEF FinishHop
    <2> QED
      BY <1>5, <2>1 DEF FinishHop, TypeOK, hopVars, fileVars, pastVars
  <1>6. CASE UNCHANGED sidecarVars
    BY <1>6 DEF sidecarVars, TypeOK, hopVars, fileVars, pastVars, Hop
  <1> QED
    BY <1>1, <1>2, <1>3, <1>4, <1>5, <1>6 DEF SidecarNext

\* Every step keeps the state well formed.
LEMMA NextIsTyped == TypeOK /\ [SidecarNext]_sidecarVars => TypeOK'
  <1>1. ASSUME TypeOK, UNCHANGED sidecarVars PROVE TypeOK'
    BY <1>1 DEF sidecarVars, TypeOK, hopVars, fileVars, pastVars, Hop
  <1> QED
    BY <1>1, StageSidecarIsTyped, RunStepIsTyped, OtherStepsAreTyped

\* The state of the chain and of its files is well formed, for any kinds and chains.
THEOREM TypeCorrect == SidecarSpec => []TypeOK
  <1> QED
    BY InitIsTyped, NextIsTyped, PTL DEF SidecarSpec

(* ------------------------- where the records are ------------------------ *)

\* What is staged: what the hop before set aside, and what this hop's source makes of its own.
LEMMA StagedComesFromTheHopBefore ==
  ASSUME TypeOK, RecordsHaveAges, FilesAgree, StageSidecar
  PROVE  /\ Sidecar \subseteq carried
         /\ IsUnbroken => carried \subseteq Sidecar
         /\ \E own \in SUBSET OwnRecords :
              staged' = Sidecar \union own /\ made' = made \union own
  <1>1. stage = "load" /\ position \in 1..Len(chain)
    BY HopTyping DEF StageSidecar
  <1>2. HasSidecar => Sidecar = carried
    BY <1>1, SidecarTyping DEF HasSidecar, FilesAgree, Source
  <1>3. ~ HasSidecar /\ IsUnbroken => position = 1
    BY <1>1, HopTyping DEF HasSidecar, IsUnbroken
  <1>4. position = 1 => carried = {}
    BY <1>1 DEF FilesAgree
  <1> QED
    BY <1>2, <1>3, <1>4, SidecarTyping DEF StageSidecar

LEMMA AgesAreKept ==
  ASSUME TypeOK, RecordsHaveAges, FilesAgree, [SidecarNext]_sidecarVars
  PROVE  RecordsHaveAges'
  <1> USE DEF RecordsHaveAges
  <1>0. position \in Nat /\ \A r \in Records : r.hop \in Nat
    BY HopTyping DEF Records
  <1>1. CASE StageSidecar
    <2>1. PICK own \in SUBSET OwnRecords : staged' = Sidecar \union own
      BY <1>1, StagedComesFromTheHopBefore
    <2>2. stage = "load" /\ stage' = "steps" /\ carried' = {}
          /\ UNCHANGED <<chain, position, reported>>
      BY <1>1 DEF StageSidecar
    <2>3. \A r \in Sidecar : r.hop < position
      BY <1>1, <2>2, StagedComesFromTheHopBefore
    <2>4. \A r \in staged' : r.hop < position \/ (r.hop = position /\ r.subject \in Hop.own)
      <3>1. \A r \in own : r.hop = position /\ r.subject \in Hop.own
        BY OwnTyping
      <3>2. ASSUME NEW r \in staged'
            PROVE  r \in Sidecar \/ r \in own
        BY <2>1
      <3> QED
        BY <2>3, <3>1, <3>2, Zenon
    <2>5. Hop' = Hop
      BY <2>2 DEF Hop
    <2>6. \A r \in reported : r.hop < position
      BY <2>2
    <2> QED
      BY <2>2, <2>4, <2>5, <2>6, <1>0 DEF TypeOK
  <1>2. CASE RunStep
    <2>1. PICK new \in SUBSET Records :
            /\ \A r \in new : r.hop = position
            /\ carried' = carried \union Relayed \union new
      BY <1>2, RunStepDoes
    <2>2. /\ stage = "steps" /\ stage' = "steps"
          /\ UNCHANGED <<chain, position, staged, reported>>
      BY <1>2 DEF RunStep
    <2>3. \A r \in staged : r.hop <= position
      BY <2>2, <1>0 DEF TypeOK
    <2>4. Relayed \subseteq staged
      BY DEF Relayed, OfKinds
    <2>5. Hop' = Hop
      BY <2>2 DEF Hop
    <2> QED
      BY <2>1, <2>2, <2>3, <2>4, <2>5, <1>0
  <1>3. CASE ReportUnread
    <2>1. stage = "steps" /\ stage' = "sinks" /\ UNCHANGED <<position, carried>>
          /\ reported' \subseteq reported \union staged
      BY <1>3 DEF ReportUnread
    <2>2. \A r \in reported \union staged : r.hop <= position
      BY <2>1, <1>0 DEF TypeOK
    <2> QED
      BY <2>1, <2>2
  <1>4. CASE FinishHop
    <2>1. UNCHANGED <<carried, reported>>
      BY <1>4 DEF FinishHop, pastVars
    <2>2. \A r \in carried \union reported : r.hop \in Nat /\ r.hop <= position
      BY <1>0 DEF TypeOK
    <2>3. \/ position' = position + 1 /\ stage' = "load"
          \/ position' = position /\ stage' = "done"
      BY <1>4 DEF FinishHop
    <2>4. CASE position' = position + 1 /\ stage' = "load"
      <3>1. \A r \in carried' \union reported' : r.hop < position' /\ r.hop <= position'
        BY <1>0, <2>1, <2>2, <2>4
      <3> QED
        BY <2>4, <3>1
    <2> QED
      BY <2>1, <2>2, <2>3, <2>4
  <1>5. CASE RefuseBrokenPair \/ FailHop \/ WriteDocument \/ WriteCompanion
    BY <1>5 DEF RefuseBrokenPair, FailHop, WriteDocument, WriteCompanion, pastVars
  <1>6. CASE UNCHANGED sidecarVars
    BY <1>6 DEF sidecarVars, hopVars, pastVars, Hop
  <1> QED
    BY <1>1, <1>2, <1>3, <1>4, <1>5, <1>6 DEF SidecarNext

LEMMA FilesAgreeIsKept ==
  ASSUME TypeOK, FilesAgree, [SidecarNext]_sidecarVars
  PROVE  FilesAgree'
  <1> USE DEF FilesAgree
  <1>1. CASE StageSidecar \/ RunStep \/ ReportUnread
    BY <1>1 DEF StageSidecar, RunStep, ReportUnread
  <1>2. CASE RefuseBrokenPair \/ FailHop
    BY <1>2 DEF RefuseBrokenPair, FailHop
  <1>3. CASE WriteDocument
    BY <1>3, HopTyping DEF WriteDocument, TypeOK, Hop
  <1>4. CASE WriteCompanion
    BY <1>4 DEF WriteCompanion, Hop
  <1>5. CASE FinishHop
    <2>1. SinksAreDone /\ UNCHANGED <<chain, carried, sidecars>> /\ position \in Nat \ {0}
      BY <1>5, HopTyping DEF FinishHop, fileVars
    <2>2. Hop.emits => sidecars[Hop.place] = carried
      BY <2>1 DEF SinksAreDone
    <2>3. CASE position < Len(chain)
      BY <1>5, <2>1, <2>2, <2>3 DEF FinishHop, Hop
    <2>4. CASE ~ (position < Len(chain))
      BY <1>5, <2>1, <2>2, <2>4 DEF FinishHop, Hop
    <2> QED
      BY <2>3, <2>4
  <1>6. CASE UNCHANGED sidecarVars
    BY <1>6 DEF sidecarVars, fileVars, Hop
  <1> QED
    BY <1>1, <1>2, <1>3, <1>4, <1>5, <1>6 DEF SidecarNext

\* A record relayed is staged; one made by this hop is not.
LEMMA MadeIsNotStaged ==
  ASSUME TypeOK, RecordsHaveAges, stage = "steps", next_step <= Len(Hop.steps),
         NEW r \in Records, r.hop = position, r.subject.kind \in Step.makes
  PROVE  r \notin staged /\ r \notin reported
  BY StepTyping, HopTyping DEF RecordsHaveAges

LEMMA ConsumptionIsKept ==
  ASSUME TypeOK, RecordsHaveAges, FilesAgree, ConsumptionIsExact, NothingReportedIsKept,
         [SidecarNext]_sidecarVars
  PROVE  ConsumptionIsExact'
  <1> USE DEF ConsumptionIsExact
  <1>1. CASE StageSidecar
    <2>1. PICK own \in SUBSET OwnRecords : staged' = Sidecar \union own
      BY <1>1, StagedComesFromTheHopBefore
    <2>2. stage = "load" /\ read' = {} /\ consumed' = {} /\ carried' = {} /\ reported' = reported
      BY <1>1 DEF StageSidecar
    <2>3. Sidecar \intersect reported = {}
      BY <1>1, StagedComesFromTheHopBefore DEF NothingReportedIsKept
    <2>4. own \intersect reported = {}
      BY <2>2, OwnTyping, HopTyping DEF RecordsHaveAges
    <2> QED
      BY <2>1, <2>2, <2>3, <2>4
  <1>2. CASE RunStep
    <2>1. PICK mapped \in SUBSET Subjects, new \in SUBSET Records :
            /\ read' = read \union Answers(mapped)
            /\ consumed' = consumed \union mapped
                              \union {r.subject : r \in Answers(mapped) \union Relayed}
            /\ \A r \in new : r.hop = position /\ r.subject.kind \in Step.makes
            /\ carried' = carried \union Relayed \union new
      BY <1>2, RunStepDoes
    <2>2. /\ stage = "steps" /\ next_step <= Len(Hop.steps)
          /\ UNCHANGED <<stage, staged, reported>>
      BY <1>2 DEF RunStep
    <2>3. \A r \in new : r \notin staged
      BY <2>1, <2>2, MadeIsNotStaged
    <2>4. Answers(mapped) \subseteq staged /\ Relayed \subseteq staged
      BY DEF Answers, Relayed, OfKinds
    <2>5. ASSUME NEW r \in staged
          PROVE  r.subject \in consumed' <=> r \in read' \union carried'
      <3>1. r.subject \in mapped => r \in Answers(mapped)
        BY DEF Answers
      <3>2. ASSUME NEW q \in Answers(mapped) \union Relayed, q.subject = r.subject
            PROVE  r \in Answers(mapped) \union Relayed
        BY <3>2 DEF Answers, Relayed, OfKinds
      <3>3. r.subject \in consumed' <=>
              r.subject \in consumed \/ r \in Answers(mapped) \union Relayed
        BY <2>1, <3>1, <3>2
      <3>4. r \in read' \union carried' <=>
              r \in read \union carried \/ r \in Answers(mapped) \union Relayed
        BY <2>1, <2>3
      <3> QED
        BY <2>2, <3>3, <3>4
    <2> QED
      BY <2>1, <2>2, <2>4, <2>5
  <1>3. CASE ReportUnread \/ FinishHop \/ RefuseBrokenPair \/ FailHop \/ WriteDocument
    BY <1>3 DEF ReportUnread, FinishHop, RefuseBrokenPair, FailHop, WriteDocument
  <1>4. CASE WriteCompanion
    BY <1>4 DEF WriteCompanion
  <1>5. CASE UNCHANGED sidecarVars
    BY <1>5 DEF sidecarVars, hopVars, pastVars
  <1> QED
    BY <1>1, <1>2, <1>3, <1>4, <1>5 DEF SidecarNext

LEMMA DropsAreKept ==
  ASSUME TypeOK, RecordsHaveAges, ConsumptionIsExact, NothingReportedIsKept, [SidecarNext]_sidecarVars
  PROVE  NothingReportedIsKept'
  <1> USE DEF NothingReportedIsKept
  <1>1. CASE StageSidecar
    BY <1>1 DEF StageSidecar
  <1>2. CASE RunStep
    <2>1. PICK mapped \in SUBSET Subjects, new \in SUBSET Records :
            /\ read' = read \union Answers(mapped)
            /\ \A r \in new : r.hop = position /\ r.subject.kind \in Step.makes
            /\ carried' = carried \union Relayed \union new
      BY <1>2, RunStepDoes
    <2>2. stage = "steps" /\ next_step <= Len(Hop.steps) /\ reported' = reported
      BY <1>2 DEF RunStep
    <2>3. \A r \in new : r \notin reported
      BY <2>1, <2>2, MadeIsNotStaged
    <2>4. Answers(mapped) \subseteq staged /\ Relayed \subseteq staged
      BY DEF Answers, Relayed, OfKinds
    <2> QED
      BY <2>1, <2>2, <2>3, <2>4 DEF ConsumptionIsExact
  <1>3. CASE ReportUnread
    <2>1. stage = "steps" /\ UNCHANGED <<read, carried>>
          /\ reported' \subseteq reported \union {r \in staged : r.subject \notin consumed}
      BY <1>3 DEF ReportUnread, hopVars
    <2> QED
      BY <2>1 DEF ConsumptionIsExact
  <1>4. CASE FinishHop \/ RefuseBrokenPair \/ FailHop \/ WriteDocument \/ WriteCompanion
    BY <1>4 DEF FinishHop, RefuseBrokenPair, FailHop, WriteDocument, WriteCompanion, hopVars, pastVars
  <1>5. CASE UNCHANGED sidecarVars
    BY <1>5 DEF sidecarVars, hopVars, pastVars
  <1> QED
    BY <1>1, <1>2, <1>3, <1>4, <1>5 DEF SidecarNext

LEMMA AccountIsKept ==
  ASSUME TypeOK, RecordsHaveAges, FilesAgree, ConsumptionIsExact, AccountedSoFar, [SidecarNext]_sidecarVars
  PROVE  AccountedSoFar'
  <1> USE DEF AccountedSoFar
  <1>0. chain' = chain
    BY DEF SidecarNext, StageSidecar, RefuseBrokenPair, RunStep, ReportUnread, WriteDocument,
           WriteCompanion, FinishHop, FailHop, sidecarVars
  <1>1. IsUnbroken' <=> IsUnbroken
    BY <1>0 DEF IsUnbroken
  <1>2. CASE StageSidecar
    <2>1. stage = "load" /\ stage' = "steps" /\ UNCHANGED <<used, reported, unoffered>>
      BY <1>2 DEF StageSidecar
    <2> QED
      BY <1>1, <1>2, <2>1, StagedComesFromTheHopBefore
  <1>3. CASE RunStep
    <2>1. PICK new \in SUBSET Records :
            made' = made \union new /\ carried' = carried \union Relayed \union new
      BY <1>3, RunStepDoes
    <2>2. stage = "steps" /\ UNCHANGED <<stage, staged, used, reported, unoffered>>
      BY <1>3 DEF RunStep
    <2> QED
      BY <1>1, <2>1, <2>2
  <1>4. CASE ReportUnread
    <2>1. stage = "steps" /\ stage' = "sinks" /\ used' = used \union read
          /\ UNCHANGED <<carried, made>>
      BY <1>4 DEF ReportUnread
    <2>2. staged \subseteq used' \union reported' \union unoffered' \union carried
      BY <1>4, <2>1 DEF ReportUnread, ConsumptionIsExact
    <2>3. reported \subseteq reported' /\ unoffered \subseteq unoffered'
      BY <1>4 DEF ReportUnread
    <2> QED
      BY <1>1, <2>1, <2>2, <2>3
  <1>5. CASE RefuseBrokenPair \/ FailHop
    BY <1>5 DEF RefuseBrokenPair, FailHop
  <1>6. CASE WriteDocument \/ WriteCompanion
    BY <1>1, <1>6 DEF WriteDocument, WriteCompanion, pastVars
  <1>7. CASE FinishHop
    BY <1>1, <1>7 DEF FinishHop, SinksAreDone, pastVars
  <1>8. CASE UNCHANGED sidecarVars
    BY <1>1, <1>8 DEF sidecarVars, hopVars, pastVars
  <1> QED
    BY <1>2, <1>3, <1>4, <1>5, <1>6, <1>7, <1>8 DEF SidecarNext

LEMMA CarriedByAStepIsKept ==
  ASSUME TypeOK, CarriedByAStep, [SidecarNext]_sidecarVars
  PROVE  CarriedByAStep'
  <1> USE DEF CarriedByAStep
  <1>1. CASE StageSidecar
    BY <1>1 DEF StageSidecar
  <1>2. CASE RunStep
    <2>1. PICK new \in SUBSET Records :
            /\ \A r \in new : r.subject.kind \in Step.makes
            /\ carried' = carried \union Relayed \union new
      BY <1>2, RunStepDoes
    <2>2. /\ stage = "steps" /\ next_step <= Len(Hop.steps) /\ next_step' = next_step + 1
          /\ Hop' = Hop /\ Step = Hop.steps[next_step]
      BY <1>2 DEF RunStep, Hop, Step
    <2>3. next_step \in DOMAIN Hop.steps /\ DOMAIN Hop.steps \subseteq Int
      BY <2>2, StepTyping
    <2>4. ASSUME NEW r \in Relayed \union new
          PROVE  r.subject.kind \in Step.makes \union Step.relays
      BY <2>1 DEF Relayed, OfKinds
    <2>5. ASSUME NEW r \in carried'
          PROVE  \E j \in DOMAIN Hop.steps :
                   /\ j < next_step'
                   /\ r.subject.kind \in Hop.steps[j].makes \union Hop.steps[j].relays
      <3>1. CASE r \in carried
        <4>1. PICK j \in DOMAIN Hop.steps :
                /\ j < next_step
                /\ r.subject.kind \in Hop.steps[j].makes \union Hop.steps[j].relays
          BY <2>2, <3>1
        <4>2. j < next_step'
          BY <2>2, <2>3, <4>1
        <4> QED
          BY <4>1, <4>2
      <3>2. CASE r \in Relayed \union new
        <4>1. next_step < next_step'
          BY <2>2, <2>3
        <4>2. r.subject.kind \in Hop.steps[next_step].makes \union Hop.steps[next_step].relays
          BY <2>2, <2>4, <3>2
        <4> QED
          BY <2>3, <4>1, <4>2
      <3> QED
        BY <2>1, <2>5, <3>1, <3>2
    <2> QED
      BY <2>2, <2>5
  <1>3. CASE ReportUnread \/ FinishHop \/ RefuseBrokenPair \/ FailHop \/ WriteDocument
    BY <1>3 DEF ReportUnread, FinishHop, RefuseBrokenPair, FailHop, WriteDocument
  <1>4. CASE WriteCompanion
    BY <1>4 DEF WriteCompanion
  <1>5. CASE UNCHANGED sidecarVars
    BY <1>5 DEF sidecarVars, hopVars, Hop
  <1> QED
    BY <1>1, <1>2, <1>3, <1>4, <1>5 DEF SidecarNext

(* --------------------------- where their series are --------------------- *)

\* What a source stages beside the records, where every source stages the companions.
LEMMA StagedWithSeries ==
  ASSUME TypeOK, RecordsHaveAges, FilesAgree, SeriesKeepUp, StagesAll, StageSidecar,
         NEW r \in staged', r.varies
  PROVE  r \in staged_series'[r.subject.kind]
  <1>1. r \in Sidecar
    <2>1. PICK own \in SUBSET OwnRecords : staged' = Sidecar \union own
      BY StagedComesFromTheHopBefore
    <2>2. \A q \in own : ~ q.varies
      BY OwnTyping
    <2> QED
      BY <2>1, <2>2
  <1>2. HasSidecar /\ Source \in Places /\ r \in carried /\ r \in Records
    BY <1>1, SidecarTyping, StagedComesFromTheHopBefore
  <1>3. r.subject.kind \in CompanionKinds
    BY <1>2 DEF Records
  <1>4. Hop.takes_companions
    BY <1>2, HopTyping DEF HasSidecar, StagesAll
  <1>5. IsWritten(Source)
    BY <1>2 DEF IsWritten, HasSidecar, Source, StageSidecar
  <1>6. r \in companions[Source][r.subject.kind]
    BY <1>2, <1>5 DEF SeriesKeepUp, WrittenHasSeries
  <1>7. r.subject.kind \in Named(Sidecar)
    BY <1>1, <1>3 DEF Named
  <1> QED
    BY <1>3, <1>4, <1>6, <1>7 DEF StageSidecar

\* What a step carries on, and what it leaves as it is.
LEMMA CarriedWithSeries ==
  ASSUME TypeOK, CarriedByAStep, SeriesKeepUp, StagesAll, RunStep, NEW r \in carried', r.varies
  PROVE  r \in carried_series'[r.subject.kind]
  <1>1. PICK new \in SUBSET Records :
          /\ \A q \in new : q.subject.kind \in Step.makes
          /\ carried' = carried \union Relayed \union new
          /\ carried_series' = Series({q \in new : q.varies})
    BY RunStepDoes
  <1> DEFINE k == r.subject.kind
             making == OfKinds({q \in new : q.varies}, {k})
  <1>2. /\ stage = "steps" /\ next_step <= Len(Hop.steps) /\ r \in Records
        /\ Step = Hop.steps[next_step]
    BY <1>1 DEF RunStep, TypeOK, Relayed, OfKinds, Step
  <1>3. k \in CompanionKinds
    BY <1>2 DEF Records
  <1>4. carried_series'[k] = IF k \in Step.relays /\ staged_series[k] # {} THEN staged_series[k]
                             ELSE IF making # {} THEN making ELSE carried_series[k]
    BY <1>1, <1>3 DEF Series
  <1>5. CASE r \in new
    <2>1. k \in Step.makes /\ k \notin Step.relays
      BY <1>1, <1>2, <1>5, StepTyping
    <2>2. r \in making
      BY <1>5 DEF OfKinds
    <2> QED
      BY <1>4, <2>1, <2>2
  <1>6. CASE r \in Relayed
    <2>1. k \in Step.relays /\ r \in staged
      BY <1>6 DEF Relayed, OfKinds
    <2>2. r \in staged_series[k]
      BY <1>2, <2>1 DEF SeriesKeepUp, StagedHasSeries
    <2> QED
      BY <1>4, <2>1, <2>2
  <1>7. CASE r \in carried
    <2>1. PICK j \in DOMAIN Hop.steps :
            j < next_step /\ k \in Hop.steps[j].makes \union Hop.steps[j].relays
      BY <1>2, <1>7 DEF CarriedByAStep
    <2>2. j # next_step
      BY <1>2, <2>1, StepTyping
    <2>3. k \notin Step.makes /\ k \notin Step.relays
      BY <1>2, <2>1, <2>2, StepTyping
    <2>4. making = {}
      BY <1>1, <2>3 DEF OfKinds
    <2>5. r \in carried_series[k]
      BY <1>2, <1>7 DEF SeriesKeepUp, CarriedHasSeries
    <2> QED
      BY <1>4, <2>3, <2>4, <2>5
  <1> QED
    BY <1>1, <1>5, <1>6, <1>7

LEMMA SeriesKeepUpIsKept ==
  ASSUME TypeOK, RecordsHaveAges, FilesAgree, CarriedByAStep, SeriesKeepUp, [SidecarNext]_sidecarVars
  PROVE  SeriesKeepUp'
  <1>0. chain' = chain
    BY DEF SidecarNext, StageSidecar, RefuseBrokenPair, RunStep, ReportUnread, WriteDocument,
           WriteCompanion, FinishHop, FailHop, sidecarVars
  <1> SUFFICES ASSUME StagesAll'
               PROVE  /\ StagedHasSeries' /\ CarriedHasSeries'
                      /\ BeingWrittenHasSeries' /\ WrittenHasSeries'
    BY DEF SeriesKeepUp
  <1> USE DEF StagedHasSeries, CarriedHasSeries, BeingWrittenHasSeries, WrittenHasSeries
  <1>a. StagesAll
    BY <1>0 DEF StagesAll
  <1>1. CASE StageSidecar
    <2>1. stage' = "steps" /\ carried' = {}
      BY <1>1 DEF StageSidecar
    <2> QED
      BY <1>a, <1>1, <2>1, StagedWithSeries DEF IsWritten
  <1>2. CASE RunStep
    <2>1. stage = "steps" /\ UNCHANGED <<stage, staged, staged_series>>
      BY <1>2 DEF RunStep
    <2>2. \A r \in carried' : r.varies => r \in carried_series'[r.subject.kind]
      BY <1>a, <1>2, CarriedWithSeries
    <2>3. \A r \in staged : r.varies => r \in staged_series[r.subject.kind]
      BY <1>a, <2>1 DEF SeriesKeepUp
    <2> QED
      BY <2>1, <2>2, <2>3 DEF IsWritten
  <1>b. stage \in {"steps", "sinks", "companions"} =>
          \A r \in carried : r.varies => r \in carried_series[r.subject.kind]
    BY <1>a DEF SeriesKeepUp
  <1>c. \A r \in carried : r \in Records /\ (r.varies => r.subject.kind \in CompanionKinds)
    BY DEF TypeOK, Records
  <1>3. CASE ReportUnread
    <2>1. stage = "steps" /\ stage' = "sinks" /\ UNCHANGED <<carried, carried_series>>
      BY <1>3 DEF ReportUnread
    <2> QED
      BY <1>b, <2>1 DEF IsWritten
  <1>4. CASE WriteDocument
    <2>1. /\ stage = "sinks" /\ stage' = "companions" /\ UNCHANGED <<carried, carried_series>>
          /\ unwritten' = {k \in CompanionKinds : carried_series[k] # {}}
      BY <1>4 DEF WriteDocument
    <2>2. \A r \in carried : r.varies => r.subject.kind \in unwritten'
      BY <1>b, <1>c, <2>1
    <2> QED
      BY <1>b, <2>1, <2>2 DEF IsWritten
  <1>5. CASE WriteCompanion
    <2>1. /\ stage = "companions" /\ UNCHANGED <<position, stage, carried, carried_series>>
          /\ Hop' = Hop
      BY <1>5 DEF WriteCompanion, Hop
    <2>2. PICK k \in unwritten :
            /\ companions' = [companions EXCEPT ![Hop.place][k] = carried_series[k]]
            /\ unwritten' = unwritten \ {k}
      BY <1>5 DEF WriteCompanion
    <2>3. /\ companions'[Hop.place][k] = carried_series[k]
          /\ \A other \in CompanionKinds \ {k} :
               companions'[Hop.place][other] = companions[Hop.place][other]
      BY <2>2, HopTyping DEF TypeOK, SeriesFrames
    <2>4. ASSUME NEW r \in carried, r.varies
          PROVE  \/ r.subject.kind \in unwritten'
                 \/ r \in companions'[Hop.place][r.subject.kind]
      <3>1. \/ r.subject.kind \in unwritten
            \/ r \in companions[Hop.place][r.subject.kind]
        BY <1>a, <2>1, <2>4 DEF SeriesKeepUp
      <3>2. r \in carried_series[r.subject.kind] /\ r.subject.kind \in CompanionKinds
        BY <1>b, <1>c, <2>1, <2>4
      <3> QED
        BY <2>2, <2>3, <3>1, <3>2
    <2> QED
      BY <1>b, <2>1, <2>4 DEF IsWritten
  <1>6. CASE FinishHop
    <2>1. /\ SinksAreDone /\ UNCHANGED <<carried, companions>>
          /\ position \in Nat /\ Hop = chain[position]
      BY <1>6, HopTyping DEF FinishHop, fileVars
    <2>2. \/ position' = position + 1 /\ stage' = "load"
          \/ position' = position /\ stage' = "done"
      BY <1>6 DEF FinishHop
    <2>3. ASSUME NEW place \in Places, IsWritten(place)'
          PROVE  Hop.emits /\ place = Hop.place
      BY <1>0, <2>1, <2>2, <2>3 DEF IsWritten, Hop
    <2>4. Hop.emits => stage = "companions" /\ unwritten = {}
      BY <2>1 DEF SinksAreDone
    <2>5. ASSUME Hop.emits, NEW r \in carried, r.varies
          PROVE  r \in companions[Hop.place][r.subject.kind]
      BY <1>a, <2>4, <2>5 DEF SeriesKeepUp
    <2> QED
      BY <2>1, <2>2, <2>3, <2>5
  <1>7. CASE RefuseBrokenPair \/ FailHop
    <2>1. stage' = "failed"
      BY <1>7 DEF RefuseBrokenPair, FailHop
    <2> QED
      BY <2>1 DEF IsWritten
  <1>8. CASE UNCHANGED sidecarVars
    BY <1>a, <1>8 DEF sidecarVars, hopVars, fileVars, Hop, IsWritten, SeriesKeepUp
  <1> QED
    BY <1>1, <1>2, <1>3, <1>4, <1>5, <1>6, <1>7, <1>8 DEF SidecarNext

(* -------------------------------- theorems ------------------------------ *)

\* The invariant is inductive.
LEMMA InvariantHolds == SidecarSpec => []IInv
  <1>1. SidecarInit => IInv
    <2> SUFFICES ASSUME SidecarInit PROVE IInv
      OBVIOUS
    <2>1. TypeOK
      BY InitIsTyped
    <2> QED
      BY <2>1 DEF SidecarInit, IInv, RecordsHaveAges, FilesAgree, ConsumptionIsExact,
                  NothingReportedIsKept, AccountedSoFar, CarriedByAStep, SeriesKeepUp, IsWritten,
                  StagedHasSeries, CarriedHasSeries, BeingWrittenHasSeries, WrittenHasSeries
  <1>2. IInv /\ [SidecarNext]_sidecarVars => IInv'
    BY NextIsTyped, AgesAreKept, FilesAgreeIsKept, ConsumptionIsKept, DropsAreKept, AccountIsKept,
       CarriedByAStepIsKept, SeriesKeepUpIsKept DEF IInv
  <1> QED
    BY <1>1, <1>2, PTL DEF SidecarSpec

\* A record reported as dropped was read by no mapping and travels no further, whatever the
\* chain: ExtensionsReader and report_unread_extensions agree on what was asked for.
THEOREM DropsAreFinal == SidecarSpec => []NothingReportedIsKept
  <1>1. IInv => NothingReportedIsKept
    BY DEF IInv
  <1> QED
    BY InvariantHolds, <1>1, PTL

\* No record vanishes over an unbroken chain, whatever its hops read, relay and make.
THEOREM RecordsAreAccountedFor == SidecarSpec => []EveryRecordIsAccountedFor
  <1>1. IInv => EveryRecordIsAccountedFor
    BY DEF IInv, AccountedSoFar, FilesAgree, EveryRecordIsAccountedFor, Left
  <1> QED
    BY InvariantHolds, <1>1, PTL

\* Where every source stages the companions with the records, a sidecar written in full has
\* beside it the values of every record that states none.
THEOREM SeriesTravel == SidecarSpec => []SeriesTravelWhereTheyAreStaged
  <1>1. ASSUME IInv PROVE SeriesTravelWhereTheyAreStaged
    <2> SUFFICES ASSUME StagesAll, NEW place \in Places, IsWritten(place),
                        NEW r \in sidecars[place], r.varies
                 PROVE  r \in companions[place][r.subject.kind]
      BY DEF SeriesTravelWhereTheyAreStaged, SeriesTravelWithTheirRecords, StagesAll
    <2>1. sidecars[place] = carried
      BY <1>1 DEF IInv, FilesAgree, IsWritten
    <2> QED
      BY <1>1, <2>1 DEF IInv, SeriesKeepUp, WrittenHasSeries
  <1> QED
    BY InvariantHolds, <1>1, PTL
=============================================================================
