----------------------------- MODULE CompareResults -----------------------------
(***************************************************************************)
(* Comparing two frameworks' results (interop/core/use_cases/compare.py):  *)
(* each side's results pipeline is run into a scratch directory, the two   *)
(* tables are joined at the finest grain both sides share, and a report    *)
(* says how far they are apart.                                            *)
(*                                                                         *)
(* A table is a set of rows [variable, component, category, timestamp,     *)
(* value]; Null stands for a missing entry.  A variable every row of which *)
(* has a component on both sides is compared row by row; any other is      *)
(* summed to its categories first.                                         *)
(***************************************************************************)
EXTENDS Integers, FiniteSets, FiniteSetsExt

CONSTANTS
  Null,
  Tables,       (* the results a side may have                                *)
  Frameworks    (* those with a results pipeline                              *)

VARIABLES
  sides,        (* the frameworks to compare                                  *)
  given,        (* side -> what its pipeline would write                      *)
  stage,        (* the call made next                                         *)
  scratch,      (* the scratch directories there are, by side                 *)
  read,         (* side -> the table read back, or Null                       *)
  report        (* what was rendered, or Null                                 *)

vars == <<sides, given, stage, scratch, read, report>>

Sides == {"a", "b"}

Init ==
  /\ sides \in [Sides -> Frameworks] /\ given \in [Sides -> Tables]
  /\ stage = "check" /\ scratch = {} /\ read = [s \in Sides |-> Null] /\ report = Null

(* ------------------------------- the grain ------------------------------ *)

Variables(table) == {r.variable : r \in table}

ReportsAComponent(table, v) == \E r \in table : r.variable = v /\ r.component # Null

\* Those either side reports without any component.
ComparedByCategory(a, b) ==
  {v \in Variables(a) \union Variables(b) :
     ~ (ReportsAComponent(a, v) /\ ReportsAComponent(b, v))}

\* All are kept.
KeepAll(table, variables) == table

Keep(table, variables) == {r \in table : r.variable \in variables}
Drop(table, variables) == {r \in table : r.variable \notin variables}

Distance(x, y) == IF x > y THEN x - y ELSE y - x

\* An inner join drops a row that has no component or no timestamp.
Joins(x, y) ==
  /\ x.variable = y.variable
  /\ x.component = y.component /\ x.component # Null
  /\ x.timestamp = y.timestamp /\ x.timestamp # Null

DiffMatchingComponents(a, b) ==
  {[variable |-> p[1].variable,
    category |-> IF p[1].category # Null THEN p[1].category ELSE p[2].category,
    rows     |-> <<{p[1]}, {p[2]}>>,
    by       |-> Distance(p[1].value, p[2].value)] : p \in {q \in a \X b : Joins(q[1], q[2])}}

GroupOf(r) == <<r.variable, r.category, r.timestamp>>

\* group_by: rows without a timestamp are left out, those without a category are a group.
Groups(table) == {GroupOf(r) : r \in {t \in table : t.timestamp # Null}}
Members(table, g) == {r \in table : GroupOf(r) = g}
Total(rows) == MapThenSumSet(LAMBDA r : r.value, rows)

\* A join in which a missing category equals nothing, not even another.
SharedWhereNamed(a, b) == {g \in Groups(a) \intersect Groups(b) : g[2] # Null}

Shared(a, b) == Groups(a) \intersect Groups(b)

DiffAfterSummingToCategory(a, b) ==
  {[variable |-> g[1], category |-> g[2],
    rows     |-> <<Members(a, g), Members(b, g)>>,
    by       |-> Distance(Total(Members(a, g)), Total(Members(b, g)))] : g \in Shared(a, b)}

Diffs(a, b) ==
  LET by_category == ComparedByCategory(a, b)
  IN  DiffMatchingComponents(Drop(a, by_category), Drop(b, by_category))
        \union DiffAfterSummingToCategory(Keep(a, by_category), Keep(b, by_category))

(* ------------------------------- the report ----------------------------- *)

\* MAE and RMSE, by the sums they are means of.
Rollup(diffs) ==
  {LET of == {d \in diffs : d.variable = k[1] /\ d.category = k[2]}
   IN  [variable |-> k[1], category |-> k[2], n |-> Cardinality(of),
        absolute |-> MapThenSumSet(LAMBDA d : d.by, of),
        squared  |-> MapThenSumSet(LAMBDA d : d.by * d.by, of)] :
   k \in {<<d.variable, d.category>> : d \in diffs}}

System == "(system)"

Labels(table, v) ==
  LET rows       == {r \in table : r.variable = v}
      components == {r.component : r \in rows} \ {Null}
      categories == {r.category : r \in rows} \ {Null}
  IN  CASE rows = {}        -> {}
        [] components # {}  -> components
        [] categories # {}  -> categories
        [] OTHER            -> {System}

Coverage(a, b) ==
  {[variable |-> v, common |-> Labels(a, v) \intersect Labels(b, v),
    only_a |-> Labels(a, v) \ Labels(b, v), only_b |-> Labels(b, v) \ Labels(a, v)] :
   v \in Variables(a) \union Variables(b)}

Timestamps(table) == {r.timestamp : r \in table} \ {Null}

Objective(table) ==
  LET rows == {r \in table : r.variable = "objective"}
  IN  IF rows = {} THEN Null ELSE (CHOOSE r \in rows : TRUE).value

ComparisonOf(a, b) ==
  [n_diffs |-> Cardinality(Diffs(a, b)), rollup |-> Rollup(Diffs(a, b)),
   coverage |-> Coverage(a, b), aligned |-> Timestamps(a) = Timestamps(b),
   objectives |-> <<Objective(a), Objective(b)>>]

(* ------------------------------- the use case --------------------------- *)

\* comparable_frameworks, and the check that the sides differ.
Check ==
  /\ stage = "check"
  /\ stage' = IF Cardinality(Frameworks) < 2 \/ sides["a"] = sides["b"]
              THEN "refused" ELSE "a"
  /\ UNCHANGED <<sides, given, scratch, read, report>>

StartSide(s) ==
  /\ stage = s /\ s \notin scratch
  /\ scratch' = scratch \union {s}
  /\ UNCHANGED <<sides, given, stage, read, report>>

\* The directory is removed only after a success.
RunSideWithoutFinally(s) ==
  /\ stage = s /\ s \in scratch
  /\ \/ /\ read' = [read EXCEPT ![s] = given[s]] /\ scratch' = scratch \ {s}
        /\ stage' = IF s = "a" THEN "b" ELSE "render"
     \/ stage' = "failed" /\ UNCHANGED <<read, scratch>>
  /\ UNCHANGED <<sides, given, report>>

\* The translation and the reading back, and the finally that removes the directory.
RunSide(s) ==
  /\ stage = s /\ s \in scratch
  /\ scratch' = scratch \ {s}
  /\ \/ /\ read' = [read EXCEPT ![s] = given[s]]
        /\ stage' = IF s = "a" THEN "b" ELSE "render"
     \/ stage' = "failed" /\ UNCHANGED read
  /\ UNCHANGED <<sides, given, report>>

Render ==
  /\ stage = "render"
  /\ \/ report' = ComparisonOf(read["a"], read["b"]) /\ stage' = "done"
     \/ stage' = "failed" /\ UNCHANGED report
  /\ UNCHANGED <<sides, given, scratch, read>>

Terminated == stage \in {"refused", "failed", "done"} /\ UNCHANGED vars

Next == Check \/ (\E s \in Sides : StartSide(s) \/ RunSide(s)) \/ Render \/ Terminated

Spec == Init /\ [][Next]_vars

(* ------------------------------- properties ----------------------------- *)

\* Types; a scratch directory is there only while its side runs, and a report only of two
\* different frameworks' tables, both read back.
TypeOK ==
  /\ sides \in [Sides -> Frameworks] /\ given \in [Sides -> Tables]
  /\ stage \in Sides \union {"check", "render", "refused", "failed", "done"}
  /\ scratch \subseteq {stage} \intersect Sides
  /\ read \in [Sides -> Tables \union {Null}]
  /\ \A s \in Sides : read[s] \in {Null, given[s]}
  /\ report # Null => stage = "done"
  /\ stage = "done" => sides["a"] # sides["b"] /\ read = given

\* The other side has two rows for the component and the hour of a row.
NamesTwice(table, r) == \E x, y \in table : x # y /\ Joins(x, r) /\ Joins(y, r)

\* No value of either side enters two of the differences: the grains are apart, the groups of
\* a sum share no row, and the join by component is one to one, but where the other side names
\* the component twice in the hour.
NoValueIsComparedTwice ==
  report # Null =>
    \A d, e \in Diffs(read["a"], read["b"]) : d # e =>
      /\ \A r \in d.rows[1] \intersect e.rows[1] : NamesTwice(read["b"], r)
      /\ \A r \in d.rows[2] \intersect e.rows[2] : NamesTwice(read["a"], r)

TotalsOf(table) ==
  {[variable |-> g[1], component |-> Null, category |-> g[2], timestamp |-> g[3],
    value |-> Total(Members(table, g))] : g \in Groups(table)}

\* A table compared with its own totals by category differs nowhere, and every hour of every
\* variable is compared, whatever is missing from its rows: the promise that two sides meet
\* at a grain both have.
ATableAgreesWithItsTotals ==
  \A s \in Sides : read[s] # Null =>
    LET diffs == Diffs(read[s], TotalsOf(read[s]))
    IN  /\ \A d \in diffs : d.by = 0
        /\ {r \in read[s] : r.timestamp # Null} = UNION {d.rows[1] : d \in diffs}
=============================================================================
