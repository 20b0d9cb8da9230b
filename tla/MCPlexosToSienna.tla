--------------------------- MODULE MCPlexosToSienna ----------------------------
(***************************************************************************)
(* Small PLEXOS models for both pipelines that map one: one family each    *)
(* for what an object needs to be mapped, for how derates meet, for the    *)
(* lengths of profiles and the names of their owners, for how loads are    *)
(* stated, and for plants that may be built beside plants that run.        *)
(*                                                                         *)
(* In the same run one object takes both routes to PyPSA (PlexosHub): one  *)
(* generator or line a model, in one family each for what it may build,    *)
(* what it burns, what it can reach and must hold, how it is committed,    *)
(* when it runs, where it is and what its carrier becomes, and for lines.  *)
(***************************************************************************)
EXTENDS PlexosToSiennaInvestments, PlexosHub

-----------------------------------------------------------------------------
(* Objects that take both routes to PyPSA                                  *)

HubFuels ==
  "gas" :> [price |-> Whole(4), dated |-> None, production |-> Whole(50), emission |-> Whole(20)]
  @@ "oil" :> [price |-> Whole(9), dated |-> Whole(8), production |-> None, emission |-> Whole(20)]
  @@ "wood" :> [price |-> None, dated |-> None, production |-> Whole(50), emission |-> None]

Target(type, mover, fuel) == [type |-> type, mover |-> mover, fuel |-> fuel]
HubTargets ==
  [c \in {"gas", "oil", "wood"} |-> Target("ThermalStandard", "CC", c)]
  @@ "wind" :> Target("RenewableDispatch", "WT", None) @@ "dam" :> Target("HydroDispatch", "HY", None)
  @@ "peaker" :> Target("ThermalStandard", "GT", "gas")

\* Sets of bands for a property, and a property that may be unstated.
States(property, values) == {property :> <<Whole(v)>> : v \in values}
Perhaps(property, values) == {NoCells} \cup States(property, values)
Both(some, others) == {s @@ o : s \in some, o \in others}

Plant ==
  [name |-> "g", category |-> "wind", node |-> "n1", fuels |-> <<>>, startFuels |-> NoCells, files |-> {},
   series |-> NoCells, bands |-> <<>>, waccInPercent |-> TRUE,
   props |-> "Max Capacity" :> <<Whole(40)>> @@ "Units" :> <<Whole(2)>> @@ "VO&M Charge" :> <<Whole(3)>>]
Thermal == [Plant EXCEPT !.fuels = <<"gas">>, !.props = @ @@ "Heat Rate" :> <<Whole(9)>>]
Stating(g, props) == [g EXCEPT !.props = props @@ @]

Model(o, minutes, loads) ==
  [object |-> o, minutes |-> Whole(minutes), loads |-> loads, buses |-> "n1" :> Whole(220) @@ "n2" :> Unity]
HalfHourly(o) == Model(o, 30, TRUE)

Economics ==
  Both(Perhaps("Include in LT Plan", {0, 1}),
       Both(Perhaps("WACC", {0, 8}), Both(Perhaps("Build Cost", {0, 900}), Perhaps("Economic Life", {25}))))
Expandables ==
  {HalfHourly([Stating(g, p @@ e) EXCEPT !.waccInPercent = w]) : g \in {Plant, Thermal}, w \in BOOLEAN,
     p \in Both(States("Units", {0, 2}), Perhaps("Max Units Built", {0, 3})), e \in Economics}

Sizes ==
  {HalfHourly([Stating(g, p) EXCEPT !.series = s]) : g \in {Plant, Thermal},
     p \in Both(Both(States("Units", {0, 1, 2}), Perhaps("Max Units Built", {1})),
                Both(States("Max Capacity", {0, 40}), Perhaps("Rating", {30, 90}))),
     s \in {NoCells, "Max Capacity" :> [low |-> Whole(20), high |-> Whole(60)]}}

Burning ==
  {HalfHourly([Stating(Plant, p) EXCEPT !.fuels = f, !.startFuels = s, !.category = c]) :
     c \in {"wind", "peaker"}, f \in {<<>>, <<"gas">>, <<"oil", "gas">>, <<"wood">>},
     s \in {NoCells, "oil" :> <<Whole(2), Whole(5)>>, "gas" :> <<Whole(3)>> @@ "wood" :> <<Whole(7)>>},
     p \in Both(Perhaps("Start Cost", {0, 70}) \cup {"Start Cost" :> <<Whole(10), Whole(60)>>},
                Both(Perhaps("Heat Rate Incr", {7}), Both(Perhaps("Heat Rate", {9}), Perhaps("Heat Rate Base", {36}))))}

\* A profile in a file, read into a series or not, and what is stated beside it.
Profiled(property, low, high) == [files |-> {property}, series |-> property :> [low |-> Whole(low), high |-> Whole(high)]]
Profiles ==
  {[files |-> {}, series |-> NoCells], [files |-> {"Rating"}, series |-> NoCells],
   Profiled("Rating", 8, 40), Profiled("Rating Factor", 0, 100), Profiled("Rating Factor", 25, 50),
   [files |-> {}, series |-> "Units Out" :> [low |-> Zero, high |-> Unity]]}
Reaching ==
  {HalfHourly([Stating(g, p) EXCEPT !.files = f.files, !.series = f.series]) : g \in {Plant, Thermal}, f \in Profiles,
     p \in Both(Both(Perhaps("Outage Factor", {50}), Perhaps("Outage Rating", {20})),
                Both(Perhaps("Min Stable Factor", {50}) \cup {"Min Stable Factor" :> <<Ratio(1, 20)>>},
                     Both(Perhaps("Min Stable Level", {16}), Perhaps("Min Pump Load", {70}))))}
Rated ==
  {HalfHourly(Stating(g, p)) : g \in {Plant, Thermal},
     p \in Both(Both(Perhaps("Rating", {20, 40}), Perhaps("Rating Factor", {50})),
                Both(Perhaps("Outage Factor", {50}), Perhaps("Min Stable Level", {16, 32})))}

Committed ==
  {Model([Stating(g, p) EXCEPT !.series = s], minutes, loads) : g \in {Plant, Thermal, [Thermal EXCEPT !.fuels = <<"wood">>]},
     minutes \in {30, 60, 120}, loads \in BOOLEAN, s \in {NoCells, "Units Out" :> [low |-> Zero, high |-> Unity]},
     p \in Both(Both(Perhaps("Max Ramp Up", {1, 4}), Perhaps("Max Ramp Down", {1, 4})),
                Both(Both(Perhaps("Min Up Time", {1, 3}), Perhaps("Min Down Time", {2})), Perhaps("Min Stable Level", {16})))}

Band(from, to, units) == [from |-> from, to |-> to, units |-> units]
Schedules ==
  {<<>>} \cup {<<Band(None, 2030, 1), Band(from, to, u)>> : from \in {2028, 2031}, to \in {None, 2033}, u \in 0..2}
  \cup {<<Band(2025, a, 1), Band(b, c, 2)>> : a \in {2026, 2028}, b \in {2027, 2029}, c \in {None, 2035}}
Scheduled == {HalfHourly([Thermal EXCEPT !.bands = b]) : b \in Schedules}

Placed ==
  {HalfHourly([Plant EXCEPT !.node = n, !.category = c, !.files = f]) : n \in {None, "n1", "n2", "gone"},
     c \in {"wind", "dam", "coal", "peaker"}, f \in {{}, {"Max Capacity"}}}

HubLine(from, to, props) == [name |-> "l", from |-> from, to |-> to, props |-> props]
Flows == {NoCells, "Max Flow" :> <<Whole(300), Whole(200)>>, "Max Flow" :> <<Zero>>}
Lines ==
  {HalfHourly(HubLine("n1", t, e @@ f @@ m @@ w)) : t \in {"n2", "gone"}, f \in Flows,
     m \in {NoCells, "Min Flow" :> <<Whole(-250), Whole(-100)>>, "Min Flow" :> <<Whole(-250)>>, "Min Flow" :> <<Whole(50)>>},
     w \in Perhaps("Wheeling Charge", {2}),
     e \in Both(Perhaps("Resistance", {3}), Both(Perhaps("Reactance", {8}), Both(Perhaps("Susceptance", {1}),
             Both(Perhaps("Max Rating", {250}), {NoCells, "Length" :> <<Whole(70)>> @@ "Circuits" :> <<Whole(2)>>}))))}

HubObjects ==
  Expandables \cup Sizes \cup Burning \cup Reaching \cup Rated \cup Committed \cup Scheduled \cup Placed \cup Lines

-----------------------------------------------------------------------------
(* Models for both pipelines                                               *)

MW(x) == x * One
Half == One \div 2
Quarter == One \div 4

MCTypeOf == [gas |-> "ThermalStandard", wind |-> "RenewableDispatch", waste |-> "RenewableNonDispatch"]

PlainPlant ==
  [name |-> "g1", node |-> "n1", carrier |-> "gas", capacity |-> MW(4), rating |-> None, factor |-> None,
   units |-> 1, built |-> 0, blocked |-> FALSE, outage |-> One, minimum |-> 0,
   life |-> 20, hours |-> 2,
   head |-> None, tail |-> None, pump |-> FALSE]
Battery == [name |-> "b1", node |-> "n2", capacity |-> MW(2), units |-> 2, built |-> 0, blocked |-> FALSE,
            life |-> 20, hours |-> 2]
Line(name, from, to, electrical) == [name |-> name, from |-> from, to |-> to, electrical |-> electrical]
Owner(class, name, load) == [class |-> class, name |-> name, load |-> load]
NoSeries == [k \in {} |-> << >>]

Bare ==
  [nodes |-> <<"n1", "n2">>, region |-> [n \in {"n1"} |-> "r1"], owners |-> << >>, dataFiles |-> {},
   series |-> NoSeries, generators |-> << >>, batteries |-> << >>, storages |-> << >>, lines |-> << >>,
   constraints |-> << >>]

Storage(name) == [name |-> name, inOtherUnits |-> FALSE]
Inflows == Inflow :> ("s1" :> <<MW(1), MW(2)>>)

Fates ==
  {[Bare EXCEPT !.generators = <<PlainPlant, [g EXCEPT !.name = "g2"]>>,
                !.dataFiles = {<<"Generator", "g2", property>>},
                !.lines = <<Line("l1", "n1", "n2", TRUE), Line("l2", "n1", g.node, g.pump), Line("l3", "n2", "n1", FALSE)>>] :
     property \in {"Max Capacity", "Outage Factor"},
     g \in {[PlainPlant EXCEPT !.node = n, !.carrier = c, !.capacity = p, !.units = u, !.built = b, !.blocked = x, !.minimum = m] :
              n \in {"n2", "gone", None}, c \in {"gas", "waste", "coal"}, p \in {0, MW(4)},
              u \in {0, 2}, b \in {0, 2}, x \in BOOLEAN, m \in {0, 2 * One}}}

Storages ==
  {[Bare EXCEPT !.generators = <<PlainPlant, [PlainPlant EXCEPT !.name = "t1", !.head = h, !.tail = t, !.pump = p, !.node = n, !.capacity = c]>>,
                !.batteries = <<[Battery EXCEPT !.node = n, !.capacity = c, !.blocked = TRUE], [Battery EXCEPT !.name = "b2"]>>,
                !.storages = <<[Storage("s1") EXCEPT !.inOtherUnits = u], Storage("s2")>>,
                !.dataFiles = f,
                !.series = (Outages :> ("b2" :> <<One, 0>>)) @@ Inflows] :
     h \in {"s1", None}, t \in {"s2", None}, p, u \in BOOLEAN, n \in {"n1", None}, c \in {0, MW(2)},
     f \in {{}, {<<"Battery", "b2", "Max Power">>, <<"Generator", "t1", "Max Capacity">>}}}

\* Whether and how a generator's rating, outages, units and capacity are stated together.
StatedSeries(property, out, dated) ==
  (CASE property = "Rating" -> Rating :> ("g1" :> <<MW(2), MW(4)>>)
     [] property = "Rating Factor" -> Factor :> ("g1" :> <<Half, One>>)
     [] OTHER -> NoSeries)
  @@ (IF out THEN UnitsOut :> ("g1" :> <<One, 0>>) ELSE NoSeries)
  @@ (IF dated THEN Capacity :> ("g1" :> <<MW(2), MW(4)>>) ELSE NoSeries)

Derates ==
  {[Bare EXCEPT !.generators = <<[PlainPlant EXCEPT !.carrier = c, !.units = u, !.built = 1, !.rating = r, !.factor = f, !.outage = o]>>,
                !.dataFiles = {<<"Generator", "g1", property>>},
                !.series = StatedSeries(property, out, dated)] :
     c \in {"gas", "wind"}, u \in {0, 1, 2}, r \in {None, MW(2), MW(16)}, f \in {None, Half},
     o \in {0, Half, One}, property \in {"Rating", "Rating Factor", "Outage Factor"}, out, dated \in BOOLEAN}

\* Profiles of one or two snapshots, of owners that may share a name, some read and some not.
Values(length) == SubSeq(<<MW(1), MW(2)>>, 1, length)
Windows ==
  {[Bare EXCEPT !.owners = <<Owner("Region", "r1", None), Owner("Node", "n1", None), Owner("Node", "n2", MW(3))>>,
                !.generators = <<[PlainPlant EXCEPT !.name = name, !.carrier = "wind"], [PlainPlant EXCEPT !.name = "g2"]>>,
                !.dataFiles = {<<"Region", "r1", "Load">>, <<"Node", "n1", "Load">>, <<"Node", "n2", "Load">>,
                               <<"Generator", name, "Rating">>, <<"Generator", "g2", "Rating Factor">>},
                !.series = (IF a = 0 THEN NoSeries ELSE <<"Region", "Load">> :> ("r1" :> Values(a)))
                           @@ (<<"Node", "Load">> :> ("n1" :> Values(b)))
                           @@ (IF c = 0 THEN NoSeries ELSE Rating :> (name :> Values(c)))
                           @@ (IF d = 0 THEN NoSeries ELSE Factor :> ("g2" :> SubSeq(<<Half, One>>, 1, d)))] :
     name \in {"g1", "n1", "r1"}, a, c, d \in 0..2, b \in 1..2}

Loads ==
  {[Bare EXCEPT !.region = [n \in nodes |-> "r1"],
                !.owners = <<Owner("Region", "r1", x), Owner("Region", "r2", y), Owner("Node", "n2", z), Owner("Node", "n3", z)>>,
                !.dataFiles = {<<"Node", "n2", "Load">>},
                !.series = <<"Node", "Load">> :> ("n2" :> <<v, w>>)] :
     nodes \in SUBSET {"n1", "n2"}, x, y \in {None, Half, MW(2)}, z \in {None, MW(1)},
     v \in {-One, 0, MW(1)}, w \in {-MW(2), 0}}

\* A candidate beside running plants of its carrier, in their area or not, with a profile of
\* its own or not; a candidate that stores; and constraints over all or some of them, whose
\* members may be of another class than the plant of their name.
Constraint(name, sense, planned, limits, members) ==
  [name |-> name, sense |-> sense, planned |-> planned, limits |-> limits, members |-> members]

Everyone ==
  << <<"b1", "Battery">>, <<"b2", "Battery">>, <<"g1", "Generator">>, <<"g2", "Generator">>, <<"t1", "Generator">> >>
Misnamed == [Everyone EXCEPT ![3] = <<"g1", "Fuel">>]
Yearly == ("YEAR" :> MW(1)) @@ ("HORIZON" :> MW(2))

Constraints ==
  {<<Constraint("k1", sense, TRUE, limits, Everyone)>> :
     sense \in {None, "AT_MOST", "AT_LEAST"}, limits \in {Yearly, "HORIZON" :> MW(1), "DAY" :> MW(1), NoSeries}}
  \union {<<Constraint("k1", "AT_MOST", planned, Yearly, members)>> :
            planned \in {None, FALSE}, members \in {Everyone, Tail(Everyone), Misnamed}}
  \union {<<Constraint("k1", "AT_MOST", None, Yearly, Everyone),
            Constraint("k2", "AT_MOST", None, Yearly, members)>> : members \in {Everyone, Misnamed}}

Expanding(g, b, t, constraints, followed) ==
  [Bare EXCEPT !.nodes = <<"n1", "n2", "n3">>, !.region = [n \in {"n1", "n2"} |-> "r1"],
               !.owners = <<Owner("Node", "n2", MW(3))>>,
               !.generators = <<PlainPlant, g, t>>, !.batteries = <<b, [Battery EXCEPT !.name = "b2"]>>,
               !.constraints = constraints,
               !.dataFiles = IF followed THEN {<<"Generator", "g2", "Rating Factor">>} ELSE {},
               !.series = IF followed THEN Factor :> ("g2" :> <<Half, One>>) ELSE NoSeries]

Candidate2 == [PlainPlant EXCEPT !.name = "g2", !.built = 1]
Pump == [PlainPlant EXCEPT !.name = "t1", !.capacity = MW(3), !.built = 1, !.pump = TRUE]

Expansions ==
  {Expanding([Candidate2 EXCEPT !.node = n, !.carrier = c, !.units = u, !.life = y, !.blocked = x],
             [Battery EXCEPT !.units = 1], Pump, << >>, f) :
     n \in {"n2", "n3"}, c \in {"gas", "wind"}, u \in {0, 1}, y \in {0, 20}, x, f \in BOOLEAN}
  \union
  {Expanding(Candidate2, [Battery EXCEPT !.units = u, !.built = 2, !.node = n, !.hours = h, !.life = y],
             [Pump EXCEPT !.units = v, !.pump = p, !.head = "s1"], << >>, FALSE) :
     n \in {"n2", "n3"}, u, v \in {0, 1}, h \in {0, 2}, y \in {0, 20}, p \in BOOLEAN}
  \union {Expanding(Candidate2, Battery, Pump, k, FALSE) : k \in Constraints}
  \union {Expanding(Candidate2, [Battery EXCEPT !.units = 0], Pump, k, FALSE) : k \in Constraints}

MCModels == Fates \union Storages \union Derates \union Windows \union Loads \union Expansions

-----------------------------------------------------------------------------
(* The hub                                                                 *)

NoHub ==
  hubLeg = None /\ hubModel = None /\ direct = None /\ hubRow = None /\ carried = None
  /\ told = {} /\ arrived = None
NoPipeline ==
  step = None /\ model = None /\ series = None /\ components = {} /\ associations = << >>
  /\ companions = {} /\ report = {} /\ stored = {}
  /\ expanding = FALSE /\ stage = "none" /\ portfolio = None /\ document = None

pipeline == <<vars, investments_vars>>
PipelineOrHubInit == (InvestmentsInit /\ NoHub) \/ (NoPipeline /\ HubInit)
PipelineOrHubNext == (InvestmentsNext /\ UNCHANGED hubVars) \/ (HubNext /\ UNCHANGED pipeline)
PipelineOrHubSpec == PipelineOrHubInit /\ [][PipelineOrHubNext]_<<pipeline, hubVars>>
=============================================================================
