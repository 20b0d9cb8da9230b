------------------------------ MODULE PlexosReading ------------------------------
(***************************************************************************)
(* What a PLEXOS Generator or Line says, as the one reading both routes to *)
(* PyPSA share takes it: the route that writes a network at once, and the  *)
(* route over a Sienna document (PlexosHub).                               *)
(*                                                                         *)
(* An object states bands of values for each property (props), has files   *)
(* behind some of them (files), and a staged series of some of those, of   *)
(* which the reading takes the lowest and the highest value (series).  A   *)
(* generator also has a node, fuels, the gigajoules a start takes of each  *)
(* start fuel, and dated bands of its Units.                               *)
(***************************************************************************)
EXTENDS Cells

CONSTANT Fuels   \* a fuel: [price, dated, production, emission], each a number or None
                 \* (dated: the mean of its price series; emission: the price of what it emits)

-----------------------------------------------------------------------------
(* Properties                                                              *)

Entries(s) == {s[i] : i \in DOMAIN s}
LastBand(s) == s[Len(s)]
Lowest(s) == CHOOSE v \in Entries(s) : \A w \in Entries(s) : ~Below(w, v)
Highest(s) == CHOOSE v \in Entries(s) : \A w \in Entries(s) : ~Below(v, w)

\* The cold start is the last band, the tightest bound governs a line, else the first band.
Reduced(property, bands) ==
  CASE property = "Start Cost" -> LastBand(bands)
    [] property \in {"Max Flow", "Max Rating"} -> Lowest(bands)
    [] property = "Min Flow" -> Highest(bands)
    [] OTHER -> bands[1]

Value(o, property) ==
  IF property \in DOMAIN o.props THEN Reduced(property, o.props[property]) ELSE None
Given(value, default) == IF value = None THEN default ELSE value
ValueOr(o, property, default) == Given(Value(o, property), default)
Percent(value) == Over(value, Whole(100))

\* The first of two properties an object states.
FirstStated(o, preferred, other) == Given(Value(o, preferred), Value(o, other))

HighestOfSeries(o, property) ==
  IF property \in DOMAIN o.series THEN o.series[property].high ELSE None
LowestOfSeries(o, property) ==
  IF property \in DOMAIN o.series THEN o.series[property].low ELSE None

-----------------------------------------------------------------------------
(* Capacity and expansion                                                  *)

\* One unit: the peak of a dated capacity, the stated one, or the peak of a Rating profile.
StatedUnit(static, rating) == IF static # Zero \/ rating = None THEN static ELSE rating
RatedUnit(g) ==
  Given(HighestOfSeries(g, "Max Capacity"),
        StatedUnit(ValueOr(g, "Max Capacity", Zero), HighestOfSeries(g, "Rating")))

UnitsOf(g) == ValueOr(g, "Units", Unity)
NameplateCapacity(g) == Times(RatedUnit(g), UnitsOf(g))

\* A Rating above the nameplate is the capacity, where there is one.
Uprating(rating, nameplate, units) ==
  IF units # Zero /\ rating # None /\ Below(nameplate, rating) THEN rating ELSE None
RatingAsCapacity(g) == Uprating(Value(g, "Rating"), NameplateCapacity(g), UnitsOf(g))

RunningCapacity(g) == Given(RatingAsCapacity(g), NameplateCapacity(g))

MaxUnitsBuilt(g) == ValueOr(g, "Max Units Built", Zero)
MayBuild(g) == IsPositive(MaxUnitsBuilt(g))

\* A candidate with nothing running is sized by what it may build.
Buildable(g) == Times(RatedUnit(g), MaxUnitsBuilt(g))
SizedBy(existing, g) == IF existing # Zero \/ ~MayBuild(g) THEN existing ELSE Buildable(g)
CapacityOf(g) == SizedBy(RunningCapacity(g), g)

IsPriced(value) == value # None /\ IsPositive(value)

AllowsABuild(g) ==
  /\ ValueOr(g, "Include in LT Plan", Unity) # Zero
  /\ IsPriced(Value(g, "Build Cost")) /\ Value(g, "WACC") # None /\ IsPriced(Value(g, "Economic Life"))

DiscountRate(g) ==
  IF g.waccInPercent THEN Percent(Value(g, "WACC")) ELSE Value(g, "WACC")

FixedCapacity ==
  [c \in {"p_nom_min", "p_nom_max", "overnight_cost", "discount_rate", "lifetime"} |-> None]
    @@ "p_nom_extendable" :> FALSE

Expansion(g) ==
  IF ~MayBuild(g) \/ ~AllowsABuild(g) THEN FixedCapacity
  ELSE [p_nom_extendable |-> TRUE, p_nom_min |-> RunningCapacity(g), p_nom_max |-> Plus(RunningCapacity(g), Buildable(g)),
        overnight_cost |-> Value(g, "Build Cost"), discount_rate |-> DiscountRate(g),
        lifetime |-> Value(g, "Economic Life")]

-----------------------------------------------------------------------------
(* Lifespan: a band opens with a year (from) and ends with one (to)        *)

Dawn == 0   \* before every year
Opens(band) == IF band.from = None THEN Dawn ELSE band.from
Covers(band, year) == Opens(band) <= year /\ (band.to # None => year < band.to + 1)
Edges(bands) == (UNION {{b.from, IF b.to = None THEN None ELSE b.to + 1} : b \in Entries(bands)}) \ {None}

\* Of the bands that cover a year the latest to open counts, and no band means no units.
UnitsIn(bands, year) ==
  LET covering == {i \in DOMAIN bands : Covers(bands[i], year)}
      IsLatest(i) == \A j \in covering :
        Opens(bands[j]) < Opens(bands[i]) \/ (Opens(bands[j]) = Opens(bands[i]) /\ j <= i)
  IN  IF covering = {} THEN 0 ELSE bands[CHOOSE i \in covering : IsLatest(i)].units

Earliest(years) == CHOOSE y \in years : \A z \in years : y <= z
Latest(years) == CHOOSE y \in years : \A z \in years : z <= y

\* What ran before an edge.
UnitsBefore(bands, year) ==
  LET earlier == {e \in Edges(bands) : e < year}
  IN  UnitsIn(bands, IF earlier = {} THEN Dawn ELSE Latest(earlier))

\* What ran before the schedule starts was not built in it.
BuildYear(bands) ==
  LET starts == {e \in Edges(bands) : UnitsIn(bands, e) > 0}
  IN  IF starts = {} \/ UnitsBefore(bands, Earliest(Edges(bands))) > 0 THEN None ELSE Earliest(starts)

\* What runs again after a stop was not retired.
RetirementYear(bands) ==
  LET stops == {e \in Edges(bands) : UnitsBefore(bands, e) > 0 /\ UnitsIn(bands, e) = 0}
  IN  IF stops = {} \/ UnitsIn(bands, Latest(Edges(bands))) > 0 THEN None ELSE Latest(stops)

-----------------------------------------------------------------------------
(* Fuel and cost                                                           *)

HeatRate(g) == FirstStated(g, "Heat Rate Incr", "Heat Rate")

\* The first fuel of a generator that states a heat rate: what makes it thermal.
FuelOf(g) == IF g.fuels = <<>> \/ HeatRate(g) = None THEN None ELSE g.fuels[1]
CarrierNamed(g) == IF FuelOf(g) # None THEN FuelOf(g) ELSE g.category

FuelPrice(fuel) ==
  IF Fuels[fuel].dated # None THEN Fuels[fuel].dated
  ELSE IF Fuels[fuel].price # None THEN Fuels[fuel].price ELSE Zero

\* Dollars per tonne, kilograms per gigajoule.
CarbonTerm(fuel, heatRate) ==
  IF Fuels[fuel].emission = None \/ Fuels[fuel].production = None THEN Zero
  ELSE Over(Times(Times(Fuels[fuel].emission, Fuels[fuel].production), heatRate), Whole(1000))

FuelCost(fuel, heatRate) == Plus(Times(FuelPrice(fuel), heatRate), CarbonTerm(fuel, heatRate))

MarginalCost(g) ==
  LET vom == ValueOr(g, "VO&M Charge", Zero)
  IN  IF FuelOf(g) = None THEN vom ELSE Plus(FuelCost(FuelOf(g), HeatRate(g)), vom)

\* Megawatt hours out over gigajoules in, at the whole capacity.
Burnt(g, capacity) == Plus(ValueOr(g, "Heat Rate Base", Zero), Times(HeatRate(g), capacity))
EfficiencyAt(g, capacity) ==
  IF FuelOf(g) = None \/ capacity = Zero THEN None
  ELSE IF Burnt(g, capacity) = Zero THEN None ELSE Times(Over(capacity, Burnt(g, capacity)), Ratio(18, 5))
Efficiency(g) == EfficiencyAt(g, CapacityOf(g))

-----------------------------------------------------------------------------
(* Availability and minimum                                                *)

\* A Rating in a file comes before a Rating Factor in one.
ProfileProperty(g) ==
  IF "Rating" \in g.files THEN "Rating" ELSE IF "Rating Factor" \in g.files THEN "Rating Factor" ELSE None

LeftByOutages(factor, rating, capacity) ==
  IF factor # None THEN Percent(factor)
  ELSE IF rating # None /\ capacity # Zero THEN Over(Plus(capacity, Minus(rating)), capacity) ELSE Unity
OutageDerate(g) == LeftByOutages(Value(g, "Outage Factor"), Value(g, "Outage Rating"), CapacityOf(g))

LeftByRating(rating, capacity, g) ==
  IF rating # None /\ capacity # Zero THEN Smaller(Over(rating, capacity), Unity)
  ELSE Percent(ValueOr(g, "Rating Factor", Whole(100)))
StaticDerate(g) ==
  IF RatingAsCapacity(g) # None THEN Unity ELSE LeftByRating(Value(g, "Rating"), CapacityOf(g), g)

\* A Rating is in megawatts, a Rating Factor a percentage.
OneMegawatt(capacity) == IF capacity = Zero THEN Zero ELSE Over(Unity, capacity)
ProfileScale(g) == IF ProfileProperty(g) = "Rating" THEN OneMegawatt(CapacityOf(g)) ELSE Percent(Unity)

StaticCeiling(g) == Times(OutageDerate(g), IF ProfileProperty(g) = None THEN StaticDerate(g) ELSE Unity)

\* The least a profile leaves, or None where no series bounds it.
AvailabilityFloor(g) ==
  LET trough == IF ProfileProperty(g) = None THEN None ELSE LowestOfSeries(g, ProfileProperty(g))
  IN  Scaled(trough, Times(OutageDerate(g), ProfileScale(g)))

\* The property a minimum is read from; megawatts need a capacity.
MinimumProperty(g) ==
  IF Value(g, "Min Stable Factor") # None THEN "Min Stable Factor"
  ELSE IF CapacityOf(g) = Zero THEN None
  ELSE IF Value(g, "Min Stable Level") # None THEN "Min Stable Level"
  ELSE IF Value(g, "Min Pump Load") # None THEN "Min Pump Load" ELSE None

MinimumFrom(property, g) ==
  CASE property = None -> Zero
    [] property = "Min Stable Factor" -> Percent(Value(g, property))
    [] OTHER -> Over(Value(g, property), CapacityOf(g))
StatedMinimum(g) == MinimumFrom(MinimumProperty(g), g)

Capped(minimum, floor) == IF floor = None THEN minimum ELSE Smaller(minimum, floor)
CappedMinimum(g) == Capped(StatedMinimum(g), AvailabilityFloor(g))

\* Less than a thousandth constrains no dispatch.
FloorNegligible(minimum) == IF IsPositive(minimum) /\ Below(minimum, Ratio(1, 1000)) THEN Zero ELSE minimum
Minimum(g) == FloorNegligible(CappedMinimum(g))

IsInfeasible(g) == ProfileProperty(g) = None /\ Below(StaticCeiling(g), Minimum(g))

-----------------------------------------------------------------------------
(* Commitment                                                              *)

Commits(g) == FuelOf(g) # None \/ IsPositive(Minimum(g))

\* Megawatts a minute, as a share of the capacity a snapshot, at most the whole.
PerSnapshot(rate, capacity, minutes) ==
  IF rate = None \/ capacity = Zero THEN None ELSE Smaller(Over(Times(rate, minutes), capacity), Unity)
InSnapshots(hours, minutes) ==
  IF hours = None THEN None ELSE Nearest(Over(Times(hours, Whole(60)), minutes))

\* A cold start takes the last band of each fuel.
Offtake(g, fuel) == LastBand(g.startFuels[fuel])

\* The fuel the generator burns, or the one a start takes most of.
StartFuel(g) ==
  LET named == DOMAIN g.startFuels
  IN  IF named = {} THEN None ELSE IF FuelOf(g) \in named THEN FuelOf(g)
      ELSE CHOOSE f \in named : \A e \in named : ~Below(Offtake(g, f), Offtake(g, e))

\* The stated cost or the start fuel's, never both, and a stated zero prices nothing.
StartPriced(g, stated, fuel) ==
  IF fuel # None /\ stated \in {None, Zero} THEN Times(Offtake(g, fuel), FuelPrice(fuel)) ELSE stated
StartCost(g) == StartPriced(g, Value(g, "Start Cost"), StartFuel(g))

Uncommitted ==
  [c \in {"ramp_limit_up", "ramp_limit_down", "min_up_time", "min_down_time", "up_time_before",
          "start_up_cost", "shut_down_cost"} |-> None]

Commitment(g, minutes) ==
  IF ~Commits(g) THEN Uncommitted
  ELSE [ramp_limit_up |-> PerSnapshot(Value(g, "Max Ramp Up"), CapacityOf(g), minutes),
        ramp_limit_down |-> PerSnapshot(Value(g, "Max Ramp Down"), CapacityOf(g), minutes),
        min_up_time |-> InSnapshots(Value(g, "Min Up Time"), minutes),
        min_down_time |-> InSnapshots(Value(g, "Min Down Time"), minutes),
        up_time_before |-> Zero, start_up_cost |-> StartCost(g), shut_down_cost |-> Zero]

-----------------------------------------------------------------------------
(* The rows of the network written at once                                 *)

IsRetired(g) == UnitsOf(g) = Zero /\ ~MayBuild(g)
IsBlocked(g) == RunningCapacity(g) = Zero /\ MayBuild(g) /\ ~AllowsABuild(g)
HasNoCapacity(g) == ~IsPositive(CapacityOf(g))
IsSizedByAFile(g) == "Max Capacity" \in g.files

IsReadDirectly(g) ==
  g.node # None /\ ~IsSizedByAFile(g) /\ ~IsRetired(g) /\ ~HasNoCapacity(g) /\ ~IsBlocked(g) /\ ~IsInfeasible(g)

DirectGenerator(g, minutes) ==
  [name |-> g.name, bus |-> g.node, carrier |-> CarrierNamed(g), p_nom |-> CapacityOf(g),
   p_min_pu |-> Minimum(g), p_max_pu |-> StaticCeiling(g), marginal_cost |-> MarginalCost(g),
   efficiency |-> Efficiency(g), committable |-> Commits(g), build_year |-> BuildYear(g.bands)]
    @@ Commitment(g, minutes) @@ Expansion(g)

\* A line that states an impedance is one whose flow follows it.
IsElectrical(l) == Value(l, "Resistance") # None \/ Value(l, "Reactance") # None
EndpointsAreBuses(l, buses) == {l.from, l.to} \subseteq buses
NominalRating(l) == Given(FirstStated(l, "Max Rating", "Max Flow"), Zero)
LineLength(l) == ValueOr(l, "Length", Zero)
Circuits(l) == ValueOr(l, "Circuits", Unity)
Ohms(l, property) == ValueOr(l, property, Zero)
Wheeling(l) == ValueOr(l, "Wheeling Charge", Zero)

DirectLine(l) ==
  [name |-> l.name, bus0 |-> l.from, bus1 |-> l.to, r |-> Ohms(l, "Resistance"), x |-> Ohms(l, "Reactance"),
   b |-> Ohms(l, "Susceptance"), g |-> Zero, s_nom |-> NominalRating(l), length |-> LineLength(l),
   num_parallel |-> Circuits(l), active |-> TRUE, carrier |-> "AC", s_nom_extendable |-> FALSE,
   v_ang_min |-> None, v_ang_max |-> None]

MaxFlow(l) == ValueOr(l, "Max Flow", Zero)
ReverseShare(l) ==
  IF Value(l, "Min Flow") = None \/ MaxFlow(l) = Zero THEN Zero ELSE Over(Value(l, "Min Flow"), MaxFlow(l))

DirectLink(l) ==
  [name |-> l.name, bus0 |-> l.from, bus1 |-> l.to, p_nom |-> MaxFlow(l), p_min_pu |-> ReverseShare(l),
   p_max_pu |-> Unity, efficiency |-> Unity, marginal_cost |-> Wheeling(l), active |-> TRUE,
   carrier |-> "AC", p_nom_extendable |-> FALSE]
=============================================================================
