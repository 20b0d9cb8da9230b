---------------------------- MODULE MCCompareResults ----------------------------
(***************************************************************************)
(* Tables of up to three rows: a variable with components, categories,     *)
(* both or neither, hours that only one side has, and an objective.        *)
(***************************************************************************)
EXTENDS CompareResults

CONSTANTS g1, g2, coal, t1, t2

Row(variable, component, category, timestamp, value) ==
  [variable |-> variable, component |-> component, category |-> category,
   timestamp |-> timestamp, value |-> value]

Rows ==
  {Row("dispatch", g, c, t1, v) : g \in {g1, Null}, c \in {coal, Null}, v \in {1, 2}}
    \union {Row("dispatch", g2, coal, t1, 2), Row("dispatch", g1, coal, t2, 1),
            Row("load", Null, Null, t1, 3), Row("load", g1, Null, t1, 3),
            Row("objective", Null, Null, Null, 9)}

MCTables == {t \in SUBSET Rows : Cardinality(t) \in 1..2} \union
  {t \in SUBSET (Rows \ {Row("dispatch", g, c, t1, 2) : g \in {g1, Null}, c \in {coal, Null}}) :
     Cardinality(t) = 3}
=============================================================================
