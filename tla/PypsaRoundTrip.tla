----------------------------- MODULE PypsaRoundTrip -----------------------------
(***************************************************************************)
(* A PyPSA network there and back: pypsa-to-sienna writes a document, the  *)
(* series beside it and a sidecar, and sienna-to-pypsa reads the three and *)
(* writes a network, which may go round again.  What neither leg has a     *)
(* column for travels in the sidecar, and what depends on the length of a  *)
(* snapshot is converted with a clock each leg reads for itself.           *)
(*                                                                         *)
(* A network is [minutes, peaks, flat, profiles, inflows, rows]: the       *)
(* length of a snapshot, the peak of each generator's p_max_pu series,     *)
(* those of them that are flat, the peak of each load's series, the units  *)
(* with an inflow, and the rows of each class.                             *)
(***************************************************************************)
EXTENDS SiennaColumns, PypsaColumns

CONSTANTS
  RoundTrips,   \* the networks that go round
  Laps          \* how often

VARIABLES
  leg,        \* "to sienna" or "to pypsa", or "home"
  at,         \* the class the leg maps next
  source,     \* the network the lap started from
  system,     \* what the first leg has written: rows by class, and the series
  sidecar,    \* the records beside it, by class and name
  reported,   \* what the reports of the first leg name as lost, or as given up for a default
  returned,   \* the rows of cells the second leg has written, by class
  journey     \* the networks so far, the user's own first

lapVars == <<leg, at, source, system, sidecar, reported, returned, journey>>

Route == <<"buses", "loads", "generators", "storage_units", "lines", "links">>
RouteClasses == {Route[i] : i \in DOMAIN Route}
EmptyClasses == [c \in RouteClasses |-> {}]
NoSeries == [n \in {} |-> Zero]

RowNamed(rows, name) == CHOOSE r \in rows : r.name = name
NamesIn(rows) == {r.name : r \in rows}

LapInit ==
  /\ source \in RoundTrips
  /\ leg = "to sienna" /\ at = 1
  /\ system = [minutes |-> source.minutes, peaks |-> NoSeries, profiles |-> NoSeries,
                 inflows |-> {}, rows |-> EmptyClasses]
  /\ sidecar = [c \in RouteClasses |-> NoRecord]
  /\ reported = {} /\ returned = EmptyClasses /\ journey = <<source>>

-----------------------------------------------------------------------------
(* pypsa-to-sienna                                                         *)

HourlyMinutes == Whole(60)

\* The minutes of the p_max_pu series of the generators, or an hour where there are none.
ClockOfTheGenerators == IF DOMAIN source.peaks # {} THEN source.minutes ELSE HourlyMinutes

IsCapacityClass(class) == class \in {"generators", "storage_units", "links"}

\* The rows of a class the leg maps, whatever its buses.
IsTranslated(class, r) ==
  /\ IsCapacityClass(class) => IsBuilt(Filled(r, CapacityDefaults))
  /\ class \in {"generators", "storage_units"} => r.carrier \in DOMAIN Carriers
  /\ class = "storage_units" =>
       IF Carriers[r.carrier].type = "HydroDispatch"
       THEN r.name \in source.inflows /\ IsUsableHydro(r) ELSE HoldsEnergy(r)

IsThermal(r) == Carriers[r.carrier].type = "ThermalStandard"
IsHydro(r) == Carriers[r.carrier].type = "HydroDispatch"
VoltsAt(bus) == RowNamed(system.rows.buses, bus).base_voltage

SiennaCells(class, r) ==
  CASE class = "buses" -> Bus(r)
    [] class = "loads" -> LoadColumns(r, source.profiles)
    [] class = "generators" -> IF IsThermal(r) THEN Thermal(r, source.peaks, ClockOfTheGenerators)
                               ELSE Renewable(r, source.peaks)
    [] class = "storage_units" -> IF IsHydro(r) THEN Hydro(r) ELSE Storage(r)
    [] class = "lines" -> LineColumns(r, VoltsAt(r.bus0))
    [] class = "links" -> LinkColumns(r)

RecordOf(class, r) ==
  CASE class = "buses" -> BusRecord(r)
    [] class = "loads" -> LoadRecord(r)
    [] class = "generators" -> IF IsThermal(r) THEN ThermalRecord(r) ELSE RenewableRecord(r)
    [] class = "storage_units" -> IF IsHydro(r) THEN NoRecord ELSE StorageRecord(r)
    [] class = "lines" -> LineRecord(r)
    [] class = "links" -> LinkRecord(r)

\* The columns of cells that are values.
Written(cells) == [c \in {d \in DOMAIN cells : cells[d].how # "lost"} |-> cells[c].value]

\* One angle without the other gives way to the default, and the event of it says so.
GivenUp(cells) ==
  {d \in DOMAIN cells : cells[d].how = "lost"}
    \cup {c \in {"v_ang_min", "v_ang_max"} : "angle_limits" \in DOMAIN cells /\ cells.angle_limits.how = "default"}

ReportsOf(class, cells) == {<<class, cells.name.value, c>> : c \in GivenUp(cells)}

\* Every series of a thermal plant is stored, and those of a renewable one that vary.
IsStored(r) == r.name \in DOMAIN source.peaks /\ (IsThermal(r) \/ r.name \notin source.flat)

WithSeriesOf(class, kept, written) ==
  CASE class = "generators" ->
         [written EXCEPT !.peaks = [n \in {r.name : r \in {k \in kept : IsStored(k)}} |-> source.peaks[n]]]
    [] class = "loads" ->
         [written EXCEPT !.profiles = [n \in NamesIn(kept) \cap DOMAIN source.profiles |-> source.profiles[n]]]
    [] class = "storage_units" ->
         [written EXCEPT !.inflows = NamesIn({k \in kept : IsHydro(k)})]
    [] OTHER -> written

\* One class, its rows, its series and its records.
ToSienna ==
  /\ leg = "to sienna" /\ at \in DOMAIN Route
  /\ LET class == Route[at]
         kept == {r \in source.rows[class] : IsTranslated(class, r)}
         cells == {SiennaCells(class, r) : r \in kept}
     IN  /\ system' = WithSeriesOf(class, kept, [system EXCEPT !.rows[class] = {Written(c) : c \in cells}])
         /\ sidecar' = [sidecar EXCEPT ![class] = [n \in NamesIn(kept) |-> RecordOf(class, RowNamed(kept, n))]]
         /\ reported' = reported \cup UNION {ReportsOf(class, c) : c \in cells}
  /\ at' = at + 1
  /\ UNCHANGED <<leg, source, returned, journey>>

TurnRound ==
  /\ leg = "to sienna" /\ at = Len(Route) + 1
  /\ leg' = "to pypsa" /\ at' = 1
  /\ UNCHANGED <<source, system, sidecar, reported, returned, journey>>

-----------------------------------------------------------------------------
(* sienna-to-pypsa                                                         *)

\* Any staged series gives the minutes, and an hour is taken where there is none.
ClockOfAnySeries ==
  IF DOMAIN system.peaks \cup DOMAIN system.profiles \cup system.inflows # {}
  THEN system.minutes ELSE HourlyMinutes

RecordFor(class, name) == IF name \in DOMAIN sidecar[class] THEN sidecar[class][name] ELSE NoRecord

PypsaCells(class, d) ==
  CASE class = "buses" -> BusColumns(d, RecordFor(class, d.name))
    [] class = "loads" -> LoadRow(d, RecordFor(class, d.name))
    [] class = "generators" ->
         IF d.type = "ThermalStandard" THEN ThermalGenerator(d, RecordFor(class, d.name), ClockOfAnySeries)
         ELSE RenewableGenerator(d, RecordFor(class, d.name))
    [] class = "storage_units" ->
         IF d.type = "HydroDispatch" THEN HydroUnit(d, RecordFor(class, d.name))
         ELSE StorageUnit(d, RecordFor(class, d.name))
    [] class = "lines" -> LineRow(d, RecordFor(class, d.name), VoltsAt(d.bus0))
    [] class = "links" -> LinkRow(d, RecordFor(class, d.name))

ToPypsa ==
  /\ leg = "to pypsa" /\ at \in DOMAIN Route
  /\ returned' = [returned EXCEPT ![Route[at]] =
       {PypsaCells(Route[at], d) : d \in system.rows[Route[at]]}]
  /\ at' = at + 1
  /\ UNCHANGED <<leg, source, system, sidecar, reported, journey>>

\* A row states the columns that are not null.
RowOfCells(cells) == [c \in {d \in DOMAIN cells : cells[d].value # None} |-> cells[c].value]

\* A stored series is a shape of one, times what the returned row is scaled by.
ReturnedPeak(d) ==
  IF d.type = "ThermalStandard" THEN PerUnitIn(d.active_power_limits.max, d.base_power)
  ELSE RatedIn(d.rating, d.base_power)

ReturnedNetwork ==
  [minutes |-> ClockOfAnySeries,
   peaks |-> [n \in DOMAIN system.peaks |-> ReturnedPeak(RowNamed(system.rows.generators, n))],
   flat |-> source.flat \cap DOMAIN system.peaks,
   profiles |-> system.profiles, inflows |-> system.inflows,
   rows |-> [c \in RouteClasses |-> {RowOfCells(cells) : cells \in returned[c]}]]

ComeHome ==
  /\ leg = "to pypsa" /\ at = Len(Route) + 1
  /\ leg' = "home"
  /\ journey' = Append(journey, ReturnedNetwork)
  /\ UNCHANGED <<at, source, system, sidecar, reported, returned>>

GoAgain ==
  /\ leg = "home" /\ Len(journey) <= Laps
  /\ leg' = "to sienna" /\ at' = 1
  /\ source' = journey[Len(journey)]
  /\ system' = [minutes |-> source'.minutes, peaks |-> NoSeries, profiles |-> NoSeries,
                  inflows |-> {}, rows |-> EmptyClasses]
  /\ sidecar' = [c \in RouteClasses |-> NoRecord]
  /\ reported' = {} /\ returned' = EmptyClasses
  /\ UNCHANGED journey

StayHome == leg = "home" /\ Len(journey) > Laps /\ UNCHANGED lapVars

LapNext == ToSienna \/ TurnRound \/ ToPypsa \/ ComeHome \/ GoAgain \/ StayHome

LapSpec == LapInit /\ [][LapNext]_lapVars

-----------------------------------------------------------------------------
(* Properties                                                              *)

\* What a network says a generator may do, in MW, MW per minute, hours and prices.
GeneratorDispatch(row, net) ==
  LET r == Filled(row, GeneratorDefaults)
      peak == PeakOf(r.name, net.peaks)
      mw == Rated(r)
      all == [bus |-> r.bus, carrier |-> r.carrier, p_nom |-> mw, p_nom_extendable |-> r.p_nom_extendable,
              p_min_pu |-> Times(mw, r.p_min_pu),
              p_max_pu |-> Times(mw, IF peak # None THEN peak ELSE r.p_max_pu),
              marginal_cost |-> r.marginal_cost]
  IN  IF ~IsThermal(r) THEN all ELSE all @@
        [committable |-> r.committable, start_up_cost |-> r.start_up_cost, shut_down_cost |-> r.shut_down_cost,
         ramp_limit_up |-> Scaled(r.ramp_limit_up, Over(mw, net.minutes)),
         ramp_limit_down |-> Scaled(r.ramp_limit_down, Over(mw, net.minutes)),
         min_up_time |-> Hours(r.min_up_time, net.minutes), min_down_time |-> Hours(r.min_down_time, net.minutes),
         up_time_before |-> Hours(r.up_time_before, net.minutes)]

\* What it says of a storage unit: the charge is within what the unit holds.
StorageDispatch(row) ==
  LET r == Filled(row, StorageDefaults)
      mw == Rated(r)
  IN  [bus |-> r.bus, carrier |-> r.carrier, p_nom |-> mw, p_nom_extendable |-> r.p_nom_extendable,
       p_min_pu |-> Times(mw, r.p_min_pu), p_max_pu |-> Times(mw, r.p_max_pu),
       max_hours |-> Times(mw, r.max_hours), marginal_cost |-> r.marginal_cost,
       efficiency_store |-> r.efficiency_store, efficiency_dispatch |-> r.efficiency_dispatch,
       state_of_charge_initial |->
         Larger(Zero, Smaller(r.state_of_charge_initial, Times(mw, r.max_hours))),
       cyclic_state_of_charge |-> r.cyclic_state_of_charge]

LineDispatch(row) ==
  LET r == Filled(row, LineDefaults)
  IN  [bus0 |-> r.bus0, bus1 |-> r.bus1, active |-> r.active, r |-> r.r, x |-> r.x, b |-> r.b, g |-> r.g,
       s_nom |-> Times(LineCapacity(r), r.s_max_pu), s_nom_extendable |-> r.s_nom_extendable,
       v_ang_min |-> IF r.v_ang_min = Minus(Whole(90)) THEN None ELSE r.v_ang_min,
       v_ang_max |-> IF r.v_ang_max = Whole(90) THEN None ELSE r.v_ang_max]

LinkDispatch(row) ==
  LET r == Filled(row, LinkDefaults @@ [marginal_cost |-> Zero])
  IN  [bus0 |-> r.bus0, bus1 |-> r.bus1, active |-> r.active, efficiency |-> r.efficiency,
       p_nom_extendable |-> r.p_nom_extendable, marginal_cost |-> r.marginal_cost,
       p_max_pu |-> Times(Rated(r), r.p_max_pu), p_min_pu |-> Times(Rated(r), r.p_min_pu)]

LoadDispatch(row, net) ==
  LET r == Filled(row, LoadDefaults) IN [bus |-> r.bus, p_set |-> LET p == PeakOf(r.name, net.profiles)
                                                                  IN  IF p # None THEN p ELSE r.p_set]

Dispatch(class, row, net) ==
  CASE class = "generators" -> GeneratorDispatch(row, net)
    [] class = "storage_units" -> StorageDispatch(row)
    [] class = "lines" -> LineDispatch(row)
    [] class = "links" -> LinkDispatch(row)
    [] class = "loads" -> LoadDispatch(row, net)
    [] class = "buses" -> [v_nom |-> Filled(row, BusDefaults).v_nom, location |-> Filled(row, BusDefaults).location]

\* The reports of either leg say that the column was lost, or is a default.
IsAccountedFor(class, name, column) ==
  \/ <<class, name, column>> \in reported
  \/ \E cells \in returned[class] :
       cells.name.value = name /\ column \in DOMAIN cells /\ cells[column].how = "default"

\* translation-from-pypsa-to-sienna.md:1331 keeps the price of a link beside the document; the
\* first leg keeps it nowhere, and no report says so.
LosesItsPrice(class, q) == class = "links" /\ q = "marginal_cost"

\* A storage unit that states no p_min_pu may pump at its capacity in PyPSA; a hydro unit is
\* written as one that cannot, and no report says so.
ReadsNoPumping(class, r, q) ==
  class = "storage_units" /\ q = "p_min_pu" /\ IsHydro(r) /\ "p_min_pu" \notin DOMAIN r

ReadsTheSameClock == ClockOfTheGenerators = ClockOfAnySeries

\* A network that comes home says of every component a solver dispatches what the one that
\* left said, in megawatts, megawatts per minute, hours, ohms and prices, wherever the
\* capacity was solved, floored or stated and whichever defaults were left unstated;
\* anything else is named in a report.  A quantity goes through four conversions and one of
\* two carriers, the document or the sidecar.  Left out are the networks whose clock the
\* first leg does not see (ReadsTheSameClock): no generator has a series, and another
\* component has.  So are the price of a link (LosesItsPrice) and the pumping of a hydro
\* unit that states no lower bound (ReadsNoPumping).
DispatchSurvivesTheLap ==
  leg = "home" /\ ReadsTheSameClock =>
    \A class \in RouteClasses : \A r \in source.rows[class] :
      IsTranslated(class, r) =>
        /\ \E b \in journey[Len(journey)].rows[class] : b.name = r.name
        /\ LET back == RowNamed(journey[Len(journey)].rows[class], r.name)
               before == Dispatch(class, r, source)
               after == Dispatch(class, back, journey[Len(journey)])
           IN  \A q \in DOMAIN before :
                 \/ before[q] = after[q] \/ IsAccountedFor(class, r.name, q)
                 \/ LosesItsPrice(class, q) \/ ReadsNoPumping(class, r, q)

\* A link that came home without capacity may not leave again.
HasCapacity(class, r) == IsCapacityClass(class) => IsPositive(r.p_nom)

\* Going round once more changes no column of any row: the rows a lap writes are in the
\* form the legs keep, whatever a user left out, and no default is applied twice.
ASecondLapChangesNothing ==
  leg = "home" /\ Len(journey) = 3 /\ ReadsTheSameClock =>
    \A class \in RouteClasses :
      {r \in journey[2].rows[class] : HasCapacity(class, r)} =
      {r \in journey[3].rows[class] : HasCapacity(class, r)}
=============================================================================
