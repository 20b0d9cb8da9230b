--------------------------------- MODULE Cells ---------------------------------
(***************************************************************************)
(* What the table translations of interop are made of.  A number is a      *)
(* fraction <<numerator, denominator>> in lowest terms, a row a function   *)
(* from the columns it states, and a row a translation writes has in each  *)
(* column a cell: the value, and how the reports account for it.           *)
(***************************************************************************)
EXTENDS Null, Integers, Sequences, FiniteSets, TLC

-----------------------------------------------------------------------------
(* Numbers                                                                 *)

RECURSIVE Gcd(_, _)
Gcd(a, b) == IF b = 0 THEN a ELSE Gcd(b, a % b)
Magnitude(n) == IF n < 0 THEN -n ELSE n

Ratio(n, d) ==
  LET g == Gcd(Magnitude(n), Magnitude(d))
  IN  IF d < 0 THEN <<-n \div g, -d \div g>> ELSE <<n \div g, d \div g>>

Whole(n) == <<n, 1>>
Zero == Whole(0)
Unity == Whole(1)
Times(f, g) == Ratio(f[1] * g[1], f[2] * g[2])
Over(f, g) == Ratio(f[1] * g[2], f[2] * g[1])
Plus(f, g) == Ratio(f[1] * g[2] + g[1] * f[2], f[2] * g[2])
Minus(f) == <<-f[1], f[2]>>
Below(f, g) == f[1] * g[2] < g[1] * f[2]
IsPositive(f) == f[1] > 0
Smaller(f, g) == IF Below(g, f) THEN g ELSE f
Larger(f, g) == IF Below(f, g) THEN g ELSE f
Size(f) == <<Magnitude(f[1]), f[2]>>

\* To the nearest whole number, a half to the even one.
Nearest(f) ==
  LET below == f[1] \div f[2]
      twice == 2 * (f[1] % f[2])
  IN  Whole(IF twice > f[2] \/ (twice = f[2] /\ below % 2 = 1) THEN below + 1 ELSE below)

\* A radian is some number of degrees; which one makes no difference to a lap.
Radians(degrees) == Over(degrees, Whole(57))
Degrees(radians) == Times(radians, Whole(57))

\* A null stays a null.
Scaled(f, g) == IF f = None THEN None ELSE Times(f, g)

-----------------------------------------------------------------------------
(* Rows and cells                                                          *)

\* fill_defaults: a column a row does not state has its default.
Filled(row, defaults) ==
  [c \in DOMAIN row \cup DOMAIN defaults |->
     IF c \in DOMAIN row /\ (row[c] # None \/ c \notin DOMAIN defaults) THEN row[c] ELSE defaults[c]]

\* A value taken or computed from the source, or one the carrier mappings state.
Derived(column, value) == column :> [value |-> value, how |-> "derived"]
UserMapped(column, value) == column :> [value |-> value, how |-> "user"]
\* A value nothing in the source states.
Defaulted(column, value) == column :> [value |-> value, how |-> "default"]
\* A value of the source that has no place, with a NOT_MAPPED event.
Lost(column, value) == column :> [value |-> value, how |-> "lost"]
\* A value no event is written about.
Unreported(column, value) == column :> [value |-> value, how |-> "unreported"]

\* Rows of cells as plain rows.
Plain(cells) == [c \in DOMAIN cells |-> cells[c].value]

\* One of two cells for the same column.
Either(condition, yes, no) == IF condition THEN yes ELSE no

NoCells == [c \in {} |-> None]
=============================================================================
