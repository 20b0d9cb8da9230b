---------------------------- MODULE MCSolveNetworks ----------------------------
(***************************************************************************)
(* Calls of SolveNetworks over a calendar of nine days, with months that   *)
(* end on days 3, 6 and 9 and one year end on day 4.                       *)
(***************************************************************************)
EXTENDS SolveNetworks, TLC

\* plain : a snapshot or two on most days, the months uneven.  gap : no snapshots in the
\* second month.  late : nothing but the last day.  empty : no snapshots.
MCDays ==
  ("plain" :> <<1, 2, 3, 4, 4, 7>>) @@ ("gap" :> <<2, 7, 8>>) @@
  ("late" :> <<9>>) @@ ("empty" :> << >>)

MCMonthEnd == [d \in 1..9 |-> IF d <= 3 THEN 3 ELSE IF d <= 6 THEN 6 ELSE 9]
MCYearEnd  == [d \in 1..9 |-> IF d <= 4 THEN 4 ELSE 13]

Calls(networks, starts, ends, lengths, look_aheads, outputs) ==
  {[networks |-> n, start |-> s, end |-> e, length |-> l, look_ahead |-> a,
    directory |-> "inputs", output |-> o] :
     n \in networks, s \in starts, e \in ends, l \in lengths, a \in look_aheads, o \in outputs}

\* One network, every range, window and look-ahead.
SingleCalls ==
  Calls({<<"plain">>}, {Absent, 2, 5}, {Absent, 4, 7}, WindowLengths, {-1, 0, 2}, {"solved"})
  \union Calls({<<"gap">>, <<"late">>}, {Absent, 1}, {Absent, 6}, WindowLengths, {0, 4}, {"solved"})

\* Ensembles, and what there is nothing to solve in.
EnsembleCalls ==
  Calls({<<"gap", "late">>, <<"late", "empty", "gap">>, << >>}, {Absent, 1}, {8},
        {"month", "week"}, {2}, {"solved", "inputs"})

MCRequests == SingleCalls \union EnsembleCalls
=============================================================================
