\* Every pair of small tables, with nulls in every column that may hold one.
CONSTANTS
  Null = Null
  g1 = g1
  g2 = g2
  coal = coal
  t1 = t1
  t2 = t2
  Frameworks = {pypsa, sienna}
  Tables <- MCTables
SPECIFICATION Spec
INVARIANTS
  NoValueIsComparedTwice
  ATableAgreesWithItsTotals
