--------------------------- MODULE MCPypsaToSienna ---------------------------
(***************************************************************************)
(* Small networks for PypsaToSienna.  A network varies one class over every *)
(* row that meets another rule, over three sets of buses and three sets of  *)
(* series, beside one row of each other class: an id or a name that is      *)
(* wrong in one class shows in the next.  The same run takes the networks   *)
(* of MCRoundTripNetworks there and back (PypsaRoundTrip): a behaviour is   *)
(* of one leg over tables, or of a lap over the values of their columns.    *)
(***************************************************************************)
EXTENDS PypsaToSienna, PypsaRoundTrip, MCRoundTripNetworks

AnArea == "north"
MCTypeOf == "coal" :> "ThermalStandard" @@ "wind" :> "RenewableDispatch" @@ "roof" :> "RenewableNonDispatch"
            @@ "dam" :> "HydroDispatch" @@ "battery" :> "EnergyReservoirStorage"
            @@ "load_shedding" :> "ThermalStandard"
MCVoll == AnArea :> 9

ABus(name, carrier, area, shedding) == [name |-> name, carrier |-> carrier, area |-> area, shedding |-> shedding]
BusSets == {<<ABus("b1", "AC", AnArea, "s1"), ABus("b2", "AC", None, "s2")>>,
            <<ABus("h1", "gas", None, "s1"), ABus("b1", "AC", AnArea, "s2"), ABus("b2", "AC", AnArea, "s3")>>,
            <<ABus("b2", "gas", AnArea, "s1"), ABus("b1", "AC", "south", "s2")>>}

\* Capacity fields: fixed, solved, refused by a solve, a floor, and a candidate.
Capacities == {<<FALSE, None, 2, 0>>, <<FALSE, None, 0, 0>>, <<TRUE, 3, 2, 1>>, <<TRUE, 0, 2, 1>>,
               <<TRUE, None, 2, 1>>, <<TRUE, None, 1, 2>>, <<TRUE, None, 2, 0>>}
Fixed == <<FALSE, None, 2, 0>>

Gen(name, bus, carrier, c) ==
  [name |-> name, bus |-> bus, carrier |-> carrier, extendable |-> c[1], opt |-> c[2],
   nom |-> c[3], min |-> c[4], pmax |-> One]
Unit(name, bus, carrier, c, efficiency, hours) ==
  [efficiency |-> efficiency, hours |-> hours, pmax |-> 1] @@ Gen(name, bus, carrier, c)
Load(name, bus) == [name |-> name, bus |-> bus, pset |-> 3]
Line(name, b0, b1) == [name |-> name, bus0 |-> b0, bus1 |-> b1]
Link(name, b0, b1, multiport, c) ==
  [multiport |-> multiport, extendable |-> c[1], opt |-> c[2], nom |-> c[3], min |-> c[4]] @@ Line(name, b0, b1)

OneGen == <<Gen("g1", "b1", "coal", Fixed)>>
OneUnit == <<Unit("u1", "b1", "dam", Fixed, One, 4)>>
OneLoad == <<Load("d1", "b1")>>
NoBranch == <<>>

GenSets ==
  {<<>>} \cup {<<Gen("g1", "b1", k, c), Gen("g2", b, l, Fixed)>> :
     k \in {"coal", "wind"}, c \in Capacities, b \in {"b1", "b2"}, l \in {"roof", "dam", "nuclear"}}
  \cup {<<Gen("g1", "b1", "coal", Fixed), Gen("s2", "b1", "load_shedding", Fixed)>>,
        <<Gen("g1", "b1", "roof", Fixed), Gen("g1", "b2", "wind", Fixed)>>,
        <<Gen("g1", "nowhere", "coal", Fixed)>>}
UnitSets ==
  {<<>>} \cup {<<Unit("u1", "b1", k, c, e, h), Unit("u2", b, "battery", Fixed, One, 4)>> :
     k \in {"dam", "battery", "coal"}, c \in Capacities, e \in {0, 1}, h \in {0, 4}, b \in {"b1", "b2"}}
LoadSets ==
  {<<>>} \cup {<<Load("d1", b), Load("d2", c)>> : b, c \in {"b1", "b2"}}
  \cup {<<Load("d1", "b1"), Load("d1", "b2")>>}
Both == {<<"b1", "b2">>, <<"b2", "b1">>, <<"b1", "b1">>}
LineSets ==
  {<<>>} \cup {<<Line("l1", p[1], p[2])>> : p \in Both \cup {<<"b1", "nowhere">>}}
  \cup {<<Line("l1", p[1], p[2]), Line("l2", q[1], q[2])>> : p, q \in Both}
LinkSets ==
  {<<>>} \cup {<<Link("k1", "b2", "b1", FALSE, c)>> : c \in Capacities}
  \cup {<<Link("k1", p[1], p[2], m, Fixed)>> : p \in Both \cup {<<"b1", "h1">>}, m \in BOOLEAN}

\* Series for whoever is named: varying, flat, at zero, and below zero with a peak of zero.
NoProfiles == [k \in {} |-> <<>>]
SeriesSets ==
  {NoProfiles,
   PMaxPu :> ("g1" :> <<1, 0>> @@ "g2" :> <<0, 1>>) @@ Inflow :> ("u1" :> <<2, 1>>) @@ PSet :> ("d1" :> <<4, 2>>)
     @@ <<"lines", "s_max_pu">> :> ("l1" :> <<1, 1>>),
   PMaxPu :> ("g1" :> <<0, 0>> @@ "g2" :> <<1, 1>>) @@ Inflow :> ("u2" :> <<0, 0>>)
     @@ PSet :> ("d1" :> <<0, -1>> @@ "d2" :> <<-1, -2>>)}

Network(b, g, u, d, l, k, s) ==
  [buses |-> b, generators |-> g, storage_units |-> u, loads |-> d, lines |-> l, links |-> k, series |-> s]

MCNetworks ==
  UNION {{Network(b, g, OneUnit, OneLoad, NoBranch, NoBranch, s) : g \in GenSets}
         \cup {Network(b, OneGen, u, OneLoad, NoBranch, NoBranch, s) : u \in UnitSets}
         \cup {Network(b, OneGen, OneUnit, d, l, <<>>, s) : d \in LoadSets, l \in LineSets}
         \cup {Network(b, OneGen, OneUnit, OneLoad, l, k, s) : l \in LineSets, k \in LinkSets} :
         b \in BusSets, s \in SeriesSets}

-----------------------------------------------------------------------------
(* The lap                                                                 *)

NoLap ==
  leg = None /\ at = 0 /\ source = None /\ system = None /\ sidecar = None
  /\ reported = {} /\ returned = None /\ journey = <<>>
NoLeg ==
  step = None /\ network = None /\ prices = None /\ tables = None /\ scope = None /\ skips = <<>>
  /\ series = None /\ associations = <<>> /\ records = {} /\ document = None

LegOrLapInit == (Init /\ NoLap) \/ (NoLeg /\ LapInit)
LegOrLapNext == (Next /\ UNCHANGED lapVars) \/ (LapNext /\ UNCHANGED vars)
LegOrLapSpec == LegOrLapInit /\ [][LegOrLapNext]_<<vars, lapVars>>
=============================================================================
