------------------------------ MODULE MCFromSienna ------------------------------
(***************************************************************************)
(* Small documents for the two legs that read Sienna, SiennaToPypsa and    *)
(* SiennaToPowerSimulations: one of each kind of component, of which one   *)
(* family varies what the SDK accepts and what refers to what, one the     *)
(* bases and capacities, one the series beside them, and one what the      *)
(* target refuses.                                                         *)
(***************************************************************************)
EXTENDS SiennaToPowerSimulations

Base(type, id, name, refs) == [type |-> type, id |-> id, name |-> name, refs |-> refs, valid |-> TRUE, verdict |-> None]
Bus(id, name, area) == [area |-> area] @@ Base("ACBus", id, name, {})
Arc(id, from, to) == [from |-> from, to |-> to] @@ Base("Arc", id, None, {<<"ACBus", from>>, <<"ACBus", to>>})
Area == Base("Area", 9, "north", {})
At(bus) == {<<"ACBus", bus>>}
On(arc) == {<<"Arc", arc>>}

Plant(type, id, name, bus, units, base, max, rating) ==
  [units |-> units, base |-> base, max |-> max, rating |-> rating] @@ Base(type, id, name, At(bus))
Load(type, id, name, bus, units, max) ==
  [units |-> units, base |-> 1, max |-> max] @@ Base(type, id, name, At(bus))
Line(type, id, name, arc, units, parameters) ==
  [units |-> units, parameters |-> parameters, base |-> 2, rating |-> 3] @@ Base(type, id, name, On(arc))
Loss(function) == [function |-> function, term |-> <<1, 4>>]
NoRecord == [p_max_pu |-> None, p_min_pu |-> None]
Hvdc(id, name, arc, ratings, limit) ==
  [ratings |-> ratings, limit |-> limit, record |-> NoRecord, loss |-> Loss("LINEAR")]
    @@ Base("TwoTerminalGenericHVDCLine", id, name, On(arc))

Series(type, owner, name, at, values, natural) ==
  [type |-> type, owner |-> owner, name |-> name, at |-> at, values |-> values, natural |-> natural]

Document(rows, stored, companion) ==
  [rows |-> rows, associations |-> stored, companion |-> companion]
NoCompanion == [c \in {} |-> None]

Buses == {Bus(1, "b1", 9), Bus(2, "b2", None)}
Arcs  == {Arc(3, 1, 2), Arc(4, 2, 1)}
Thermal(units, base) == Plant("ThermalStandard", 11, "g1", 1, units, base, 3, 4)
Wind(units, base)    == Plant("RenewableDispatch", 12, "g2", 2, units, base, 3, 4)
Hydro(units, base)   == Plant("HydroDispatch", 13, "h1", 1, units, base, 3, 4)
Battery(units)       == Plant("EnergyReservoirStorage", 14, "u1", 2, units, 2, 1, 1)
Demand(units, max)   == Load("PowerLoad", 21, "d1", 1, units, max)
Shed(units, max)     == Load("InterruptiblePowerLoad", 22, "d2", 2, units, max)
Cable == Hvdc(32, "k1", 4, {4, 3}, <<2, 4>>)

\* What the SDK refuses, what refers to a refused row, and an id no row has.
Closures ==
  LET rows == Buses \cup Arcs \cup {Arc(5, 2, 7), Area, Thermal("natural", 2), Demand("natural", 2),
                                    Shed("natural", 2), Line("Line", 31, "l1", 3, "component", None),
                                    Line("MonitoredLine", 33, "l2", 5, "component", None), Cable}
      profile == Series("PowerLoad", 21, "max_active_power", 1, <<1, 2>>, TRUE)
  IN  {Document({[r EXCEPT !.valid = r.id \notin refused] : r \in rows}, {profile}, NoCompanion) :
         refused \in SUBSET {1, 2, 3, 4, 21}}

Bases ==
  {Document(Buses \cup Arcs \cup {Thermal(u, b), Wind(v, b), Hydro(w, b), Battery(x), Demand(y, 2), Shed(u, 2),
                                  Line("Line", 31, "l1", 3, z, p), Cable}, {}, NoCompanion) :
     u, v, w, x, y, z \in {"natural", "component"}, b \in {0, 2}, p \in {None, "natural"}}

Plain == Buses \cup {Thermal("natural", 2), Wind("natural", 2), Hydro("natural", 2), Battery("component"),
                     Demand("natural", 2), Shed("natural", 0)}
PlainWithoutWind == (Plain \ {Wind("natural", 2)}) \cup {Wind("component", 2)}
Short == <<1>>
Long  == <<2, 4>>
Companions == {NoCompanion,
               ("inflow_mw" :> ("u1" :> [at |-> 1, values |-> <<<<1, 1>>>>]))
                 @@ ("marginal_cost" :> ("g1" :> [at |-> 1, values |-> <<<<5, 1>>, <<6, 1>>>>])),
               ("inflow_mw" :> ("h1" :> [at |-> 1, values |-> <<<<3, 1>>, <<5, 1>>>>]))
                 @@ ("rating_pu" :> ("u1" :> [at |-> 1, values |-> <<<<1, 2>>, <<1, 1>>>>]))}
Profiles ==
  {Document(rows,
     {Series("RenewableDispatch", 12, "max_active_power", 1, w, natural),
      Series("ThermalStandard", 11, "max_active_power", at, g, TRUE),
      Series("HydroDispatch", 13, "hydro_budget", 1, h, natural),
      Series("PowerLoad", 21, "max_active_power", 1, d, natural),
      Series("InterruptiblePowerLoad", 22, "max_active_power", 1, Long, TRUE),
      Series("EnergyReservoirStorage", 14, "rating", 1, Long, TRUE),
      Series("ACBus", 1, "max_active_power", 1, Short, FALSE)}, companion) :
   rows \in {Plain, PlainWithoutWind}, w, g, h, d \in {<<>>, Short, Long}, natural \in BOOLEAN,
   at \in {1, 2}, companion \in Companions}

\* A series of loads that do not start and end together.
Ragged ==
  {Document(Plain \cup {Load("PowerLoad", 23, "d3", 1, "natural", 2)},
     {Series("RenewableDispatch", 12, "max_active_power", 1, w, TRUE),
      Series("PowerLoad", 21, "max_active_power", 1, Long, TRUE),
      Series("PowerLoad", 23, "max_active_power", at, d, TRUE)}, NoCompanion) :
   w, d \in {<<>>, Short, Long}, at \in {1, 2, 3}}

\* What the models of the target refuse, losses they cannot read, plants and stores that
\* share their ids, and lines on one arc.
Refusals ==
  {Document(Buses \cup Arcs \cup
     {Area, [Thermal("natural", 2) EXCEPT !.verdict = g], [Demand("natural", 2) EXCEPT !.verdict = d],
      Load("PowerLoad", 11, "d3", 2, "natural", 2), Load("PowerLoad", 12, "d4", 1, "natural", 2),
      [Line("Line", 31, "l1", arc, "component", None) EXCEPT !.verdict = l],
      Line("MonitoredLine", 31, "l2", 3, "component", None),
      [Cable EXCEPT !.loss = loss]},
     {Series("PowerLoad", 11, "max_active_power", 1, Long, natural)}, NoCompanion) :
   g, d \in {None, "cost", "row"}, l \in {None, "row"}, arc \in {3, 4}, natural \in BOOLEAN,
   loss \in {None, Loss("LINEAR"), Loss("PIECEWISE_LINEAR")}}

MCDocuments == Closures \cup Bases \cup Profiles \cup Ragged \cup Refusals
=============================================================================
