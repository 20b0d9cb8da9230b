-------------------------- MODULE CompareResultsProofs --------------------------
(***************************************************************************)
(* Theorems about CompareResults, for all tables, whatever is missing from *)
(* their rows.                                                             *)
(***************************************************************************)
EXTENDS CompareResults, TLAPS

(* ------------------------------- the grains ----------------------------- *)

\* A difference of the finer grain is that of two rows which join.
LEMMA ComponentDiff ==
  ASSUME NEW a, NEW b, NEW d \in DiffMatchingComponents(a, b)
  PROVE  \E x \in a, y \in b :
           /\ Joins(x, y)
           /\ d = [variable |-> x.variable,
                   category |-> IF x.category # Null THEN x.category ELSE y.category,
                   rows     |-> <<{x}, {y}>>,
                   by       |-> Distance(x.value, y.value)]
<1>1. PICK p \in {q \in a \X b : Joins(q[1], q[2])} :
        d = [variable |-> p[1].variable,
             category |-> IF p[1].category # Null THEN p[1].category ELSE p[2].category,
             rows     |-> <<{p[1]}, {p[2]}>>,
             by       |-> Distance(p[1].value, p[2].value)]
  BY DEF DiffMatchingComponents
<1>2. p[1] \in a /\ p[2] \in b /\ Joins(p[1], p[2])
  OBVIOUS
<1> QED BY <1>1, <1>2

\* A difference of the coarser grain is that of the members of one group.
LEMMA CategoryDiff ==
  ASSUME NEW a, NEW b, NEW d \in DiffAfterSummingToCategory(a, b)
  PROVE  \E g \in Shared(a, b) :
           d = [variable |-> g[1], category |-> g[2],
                rows     |-> <<Members(a, g), Members(b, g)>>,
                by       |-> Distance(Total(Members(a, g)), Total(Members(b, g)))]
BY DEF DiffAfterSummingToCategory

\* What two differences share is in each side only what the other names twice.
SharesRepeatsOnly(a, b, d, e) ==
  /\ \A r \in d.rows[1] \intersect e.rows[1] : NamesTwice(b, r)
  /\ \A r \in d.rows[2] \intersect e.rows[2] : NamesTwice(a, r)

\* Two differences by component that share a row of one side are of two rows of the other.
LEMMA ComponentDiffsAreApart ==
  ASSUME NEW a, NEW b,
         NEW d \in DiffMatchingComponents(a, b), NEW e \in DiffMatchingComponents(a, b), d # e
  PROVE  SharesRepeatsOnly(a, b, d, e)
<1>1. PICK x \in a, y \in b :
        /\ Joins(x, y)
        /\ d = [variable |-> x.variable,
                category |-> IF x.category # Null THEN x.category ELSE y.category,
                rows     |-> <<{x}, {y}>>,
                by       |-> Distance(x.value, y.value)]
  BY ComponentDiff
<1>2. PICK v \in a, w \in b :
        /\ Joins(v, w)
        /\ e = [variable |-> v.variable,
                category |-> IF v.category # Null THEN v.category ELSE w.category,
                rows     |-> <<{v}, {w}>>,
                by       |-> Distance(v.value, w.value)]
  BY ComponentDiff
<1>3. d.rows[1] = {x} /\ d.rows[2] = {y} /\ e.rows[1] = {v} /\ e.rows[2] = {w}
  BY <1>1, <1>2
<1>4. x # v \/ y # w
  BY <1>1, <1>2
<1>5. x = v => Joins(y, x) /\ Joins(w, x)
  BY <1>1, <1>2 DEF Joins
<1>6. y = w => Joins(x, y) /\ Joins(v, y)
  BY <1>1, <1>2
<1>7. \A r \in d.rows[1] \intersect e.rows[1] : NamesTwice(b, r)
  BY <1>3, <1>4, <1>5 DEF NamesTwice
<1>8. \A r \in d.rows[2] \intersect e.rows[2] : NamesTwice(a, r)
  BY <1>3, <1>4, <1>6 DEF NamesTwice
<1> QED BY <1>7, <1>8 DEF SharesRepeatsOnly

\* The members of two groups are different rows.
LEMMA CategoryDiffsAreApart ==
  ASSUME NEW a, NEW b,
         NEW d \in DiffAfterSummingToCategory(a, b), NEW e \in DiffAfterSummingToCategory(a, b), d # e
  PROVE  \A i \in 1..2 : d.rows[i] \intersect e.rows[i] = {}
<1>1. PICK g \in Shared(a, b) :
        d = [variable |-> g[1], category |-> g[2],
             rows     |-> <<Members(a, g), Members(b, g)>>,
             by       |-> Distance(Total(Members(a, g)), Total(Members(b, g)))]
  BY CategoryDiff
<1>2. PICK h \in Shared(a, b) :
        e = [variable |-> h[1], category |-> h[2],
             rows     |-> <<Members(a, h), Members(b, h)>>,
             by       |-> Distance(Total(Members(a, h)), Total(Members(b, h)))]
  BY CategoryDiff
<1>3. g # h
  BY <1>1, <1>2
<1>4. Members(a, g) \intersect Members(a, h) = {} /\ Members(b, g) \intersect Members(b, h) = {}
  BY <1>3 DEF Members
<1>5. /\ d.rows[1] = Members(a, g) /\ d.rows[2] = Members(b, g)
      /\ e.rows[1] = Members(a, h) /\ e.rows[2] = Members(b, h)
  BY <1>1, <1>2
<1> QED BY <1>4, <1>5

\* A variable has one grain.
LEMMA GrainsAreApart ==
  ASSUME NEW a, NEW b, NEW variables,
         NEW d \in DiffMatchingComponents(Drop(a, variables), Drop(b, variables)),
         NEW e \in DiffAfterSummingToCategory(Keep(a, variables), Keep(b, variables))
  PROVE  \A i \in 1..2 : d.rows[i] \intersect e.rows[i] = {}
<1>1. PICK x \in Drop(a, variables), y \in Drop(b, variables) : d.rows = <<{x}, {y}>>
  BY ComponentDiff
<1>2. PICK g : e.rows = <<Members(Keep(a, variables), g), Members(Keep(b, variables), g)>>
  BY CategoryDiff
<1>3. x \notin Keep(a, variables) /\ y \notin Keep(b, variables)
  BY DEF Drop, Keep
<1>4. x \notin e.rows[1] /\ y \notin e.rows[2]
  BY <1>2, <1>3 DEF Members
<1>5. d.rows[1] = {x} /\ d.rows[2] = {y}
  BY <1>1
<1> QED BY <1>4, <1>5

\* Whatever the tables, two differences share a value only where the other side repeats it.
LEMMA DiffsAreApart ==
  ASSUME NEW a, NEW b, NEW d \in Diffs(a, b), NEW e \in Diffs(a, b), d # e
  PROVE  SharesRepeatsOnly(a, b, d, e)
<1> DEFINE by_category == ComparedByCategory(a, b)
           fine   == DiffMatchingComponents(Drop(a, by_category), Drop(b, by_category))
           coarse == DiffAfterSummingToCategory(Keep(a, by_category), Keep(b, by_category))
<1>1. d \in fine \union coarse /\ e \in fine \union coarse
  BY DEF Diffs
<1> HIDE DEF by_category
<1>2. CASE d \in fine /\ e \in fine
  <2>1. SharesRepeatsOnly(Drop(a, by_category), Drop(b, by_category), d, e)
    BY <1>2, ComponentDiffsAreApart
  <2>2. \A table, r : NamesTwice(Drop(table, by_category), r) => NamesTwice(table, r)
    BY DEF NamesTwice, Drop
  <2> QED BY <2>1, <2>2 DEF SharesRepeatsOnly
<1>3. CASE d \in coarse /\ e \in coarse
  BY <1>3, CategoryDiffsAreApart DEF SharesRepeatsOnly
<1>4. CASE d \in fine /\ e \in coarse
  BY <1>4, GrainsAreApart DEF SharesRepeatsOnly
<1>5. CASE d \in coarse /\ e \in fine
  BY <1>5, GrainsAreApart DEF SharesRepeatsOnly
<1> QED BY <1>1, <1>2, <1>3, <1>4, <1>5

(* -------------------------------- theorems ------------------------------ *)

\* The sides are run one after the other, once they are known to differ.
SidesRunInOrder ==
  /\ stage \in {"a", "b", "render", "done"} => sides["a"] # sides["b"]
  /\ stage \in {"b", "render", "done"} => read["a"] = given["a"]
  /\ stage \in {"render", "done"} => read["b"] = given["b"]

IInv == TypeOK /\ SidesRunInOrder

\* The use case (compare.py): types, a scratch directory only while its side runs, and a
\* report only of both sides' tables, of different frameworks, both read back.
THEOREM TypeCorrect == Spec => []TypeOK
<1>1. Init => IInv
  BY DEF Init, IInv, TypeOK, SidesRunInOrder, Sides
<1>2. IInv /\ [Next]_vars => IInv'
  <2> SUFFICES ASSUME IInv, [Next]_vars PROVE IInv'
    OBVIOUS
  <2> USE DEF IInv, TypeOK, SidesRunInOrder, Sides
  <2>1. CASE Check
    BY <2>1 DEF Check
  <2>2. ASSUME NEW s \in Sides, StartSide(s) PROVE IInv'
    BY <2>2 DEF StartSide
  <2>3. ASSUME NEW s \in Sides, RunSide(s) PROVE IInv'
    <3>1. CASE s = "a"
      BY <2>3, <3>1 DEF RunSide
    <3>2. CASE s = "b"
      BY <2>3, <3>2 DEF RunSide
    <3> QED BY <3>1, <3>2
  <2>4. CASE Render
    <3>1. read["a"] = given["a"] /\ read["b"] = given["b"]
      BY <2>4 DEF Render
    <3>2. read = given
      BY <3>1
    <3> QED BY <2>4, <3>2 DEF Render
  <2>5. CASE UNCHANGED vars
    BY <2>5 DEF vars
  <2> QED BY <2>1, <2>2, <2>3, <2>4, <2>5 DEF Next, Terminated
<1>3. IInv => TypeOK
  BY DEF IInv
<1> QED BY <1>1, <1>2, <1>3, PTL DEF Spec

\* The report (compare.py) is of differences no two of which share a value of either side, but
\* where the other side names its component twice in the hour.
THEOREM ValuesAreComparedOnce == Spec => []NoValueIsComparedTwice
<1>1. NoValueIsComparedTwice
  BY DiffsAreApart DEF NoValueIsComparedTwice, SharesRepeatsOnly
<1> QED BY <1>1, PTL
=============================================================================
