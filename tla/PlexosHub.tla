-------------------------------- MODULE PlexosHub --------------------------------
(***************************************************************************)
(* The two routes from PLEXOS to PyPSA, over one object of a model.  The   *)
(* direct route writes the row of a network; the hub writes the row of a   *)
(* Sienna document with a record of the sidecar beside it, and sienna-to-  *)
(* pypsa reads both (PypsaColumns).  The routes share one reading of the   *)
(* model (PlexosReading), but the hub turns shares of a capacity into      *)
(* megawatts and snapshots into hours, and back with a clock of its own.   *)
(***************************************************************************)
EXTENDS PlexosReading, PypsaColumns

CONSTANTS
  HubModels,   \* [object, minutes, loads, buses]: the object, the length of a snapshot, whether
               \* a load has a series, and the voltage of each Node that became a bus
  Targets      \* carrier -> [type, mover, fuel], as the user's mappings file names it

VARIABLES
  hubLeg,      \* "direct", "to sienna", "to pypsa" or "arrived"
  hubModel,    \* the model
  direct,      \* the row of the direct route, or NoCells
  hubRow,      \* the hub's row of cells, or NoCells
  carried,     \* the sidecar's record of it
  told,        \* what the hub's report says is lost, or that the object is skipped
  arrived      \* the row of cells that leaves the hub, or NoCells

hubVars == <<hubLeg, hubModel, direct, hubRow, carried, told, arrived>>

object == hubModel.object
IsALine == "from" \in DOMAIN object
NodeBuses == DOMAIN hubModel.buses

HubInit ==
  /\ hubModel \in HubModels /\ hubLeg = "direct"
  /\ direct = NoCells /\ hubRow = NoCells /\ carried = NoRecord /\ told = {} /\ arrived = NoCells

\* Any staged series gives the minutes of a snapshot, and an hour is taken where there is none.
SourceClock ==
  IF hubModel.loads \/ (~IsALine /\ DOMAIN object.series # {}) THEN hubModel.minutes ELSE Whole(60)

-----------------------------------------------------------------------------
(* The direct route                                                        *)

MapTransmissionDirectly ==
  IF ~EndpointsAreBuses(object, NodeBuses) THEN NoCells
  ELSE IF IsElectrical(object) THEN DirectLine(object) ELSE DirectLink(object)

ReadDirectly ==
  /\ hubLeg = "direct" /\ hubLeg' = "to sienna"
  /\ direct' = IF IsALine THEN MapTransmissionDirectly
               ELSE IF IsReadDirectly(object) THEN DirectGenerator(object, SourceClock) ELSE NoCells
  /\ UNCHANGED <<hubModel, hubRow, carried, told, arrived>>

-----------------------------------------------------------------------------
(* The hub: generators                                                     *)

TargetOf(g) == Targets[CarrierNamed(g)]
HasATarget(g) == CarrierNamed(g) \in DOMAIN Targets
IsAGeneratorType(g) == TargetOf(g).type \in {"ThermalStandard", "RenewableDispatch"}

\* An availability in a series carries every derate.
CarriesASeries(g) == ProfileProperty(g) \in DOMAIN g.series \/ "Units Out" \in DOMAIN g.series
HubRating(g) == IF CarriesASeries(g) THEN CapacityOf(g) ELSE Times(StaticCeiling(g), CapacityOf(g))

\* A faulty variant takes a limit of a snapshot for one of an hour.
PerMinuteOfAnHour(share, g, minutes) == Over(Times(share, CapacityOf(g)), Whole(60))

\* A share a snapshot as megawatts a minute.
PerMinute(share, g, minutes) == Over(Times(share, CapacityOf(g)), minutes)

\* Both sides or none: a missing rate down is one that never binds.
RampStruct(commitment, g, minutes) ==
  IF commitment.ramp_limit_up = None THEN None
  ELSE [up |-> PerMinute(commitment.ramp_limit_up, g, minutes),
        down |-> PerMinute(IF commitment.ramp_limit_down = None THEN Unity ELSE commitment.ramp_limit_down, g, minutes)]

TimeStruct(commitment, minutes) ==
  IF commitment.min_up_time = None THEN None
  ELSE [up |-> Over(Times(commitment.min_up_time, minutes), Whole(60)),
        down |-> IF commitment.min_down_time = None THEN Zero
                 ELSE Over(Times(commitment.min_down_time, minutes), Whole(60))]

StartPrice(commitment) == IF commitment.start_up_cost = None THEN Zero ELSE commitment.start_up_cost

\* What both types state.
PlantCells(g) ==
  Derived("name", g.name) @@ Defaulted("bus", g.node) @@ Derived("base_power", CapacityOf(g))
    @@ Defaulted("rating", HubRating(g)) @@ UserMapped("type", TargetOf(g).type)
    @@ UserMapped("prime_mover", TargetOf(g).mover)

ThermalLimitCells(g) ==
  Derived("active_power_limits", [min |-> Times(Minimum(g), CapacityOf(g)), max |-> Times(StaticCeiling(g), CapacityOf(g))])

ThermalCells(g, minutes) ==
  LET commitment == Commitment(g, minutes)
  IN  PlantCells(g) @@ ThermalLimitCells(g) @@ UserMapped("fuel", TargetOf(g).fuel)
        @@ Derived("ramp_limits", RampStruct(commitment, g, minutes))
        @@ Derived("time_limits", TimeStruct(commitment, minutes))
        @@ Defaulted("time_at_status", SentinelHours)
        @@ Derived("operation_cost", [variable |-> MarginalCost(g), start_up |-> StartPrice(commitment), shut_down |-> Zero])

\* A renewable holds no minimum, and the property one was read from is reported as lost.
LostMinimum(g) == IF MinimumProperty(g) # None THEN Lost("p_min_pu", Minimum(g)) ELSE NoCells

RenewableCells(g) ==
  PlantCells(g) @@ Defaulted("active_power", Zero)
    @@ Derived("operation_cost", [variable |-> MarginalCost(g)]) @@ LostMinimum(g)

ExpansionFields(g) ==
  LET expansion == Expansion(g)
  IN  [p_nom_extendable |-> expansion.p_nom_extendable, p_nom_max |-> expansion.p_nom_max,
       p_nom_min |-> expansion.p_nom_min, overnight_cost_per_mw |-> expansion.overnight_cost,
       discount_rate |-> expansion.discount_rate, lifetime_years |-> expansion.lifetime]

LifespanFields(g) == [build_year |-> BuildYear(g.bands), retirement_year |-> RetirementYear(g.bands)]

HubRecord(g) ==
  [carrier |-> CarrierNamed(g), committable |-> IF Commits(g) THEN TRUE ELSE None,
   category |-> g.category, efficiency |-> Efficiency(g)] @@ ExpansionFields(g) @@ LifespanFields(g)

\* The same readings in the same order, over the buses the hub has written.
IsUnreadable(g) ==
  g.node \notin NodeBuses \/ IsSizedByAFile(g) \/ IsRetired(g) \/ HasNoCapacity(g) \/ IsBlocked(g)

SkipGenerator ==
  /\ IsUnreadable(object) \/ ~HasATarget(object)
       \/ (HasATarget(object) /\ IsAGeneratorType(object) /\ ~IsUnreadable(object) /\ IsInfeasible(object))
  /\ told' = {"skipped"} /\ UNCHANGED <<hubRow, carried>>

\* Another step maps what the file names a storage.
LeaveGenerator ==
  /\ ~IsUnreadable(object) /\ HasATarget(object) /\ ~IsAGeneratorType(object)
  /\ UNCHANGED <<hubRow, carried, told>>

LostColumns(cells) == {c \in DOMAIN cells : cells[c].how = "lost"}

MapGenerator ==
  /\ ~IsUnreadable(object) /\ HasATarget(object) /\ IsAGeneratorType(object) /\ ~IsInfeasible(object)
  /\ hubRow' = IF TargetOf(object).type = "ThermalStandard" THEN ThermalCells(object, SourceClock)
                 ELSE RenewableCells(object)
  /\ carried' = HubRecord(object)
  /\ told' = LostColumns(hubRow')

-----------------------------------------------------------------------------
(* The hub: lines and links                                                *)

SystemBaseMva == Whole(100)
PerUnit(ohms, volts) == Over(Times(ohms, SystemBaseMva), Times(volts, volts))
BothEnds(value) == [from |-> value, to |-> value]
RightAngles == [min |-> Minus(Radians(Whole(90))), max |-> Radians(Whole(90))]

EndCells(l) ==
  Derived("name", l.name) @@ Derived("bus0", l.from) @@ Derived("bus1", l.to) @@ Defaulted("available", TRUE)
    @@ Defaulted("base_power", SystemBaseMva)

\* No susceptance is read: where one is stated the event of the default denies it.
LineCells(l, volts) ==
  EndCells(l) @@ Derived("r", PerUnit(Ohms(l, "Resistance"), volts)) @@ Derived("x", PerUnit(Ohms(l, "Reactance"), volts))
    @@ Defaulted("b", BothEnds(Zero)) @@ Defaulted("g", BothEnds(Zero))
    @@ Derived("rating", Over(NominalRating(l), SystemBaseMva)) @@ Defaulted("angle_limits", RightAngles)
    @@ (IF Value(l, "Wheeling Charge") # None THEN Lost("marginal_cost", Wheeling(l)) ELSE NoCells)

LineRecordFields(l) ==
  [carrier |-> "AC", length |-> LineLength(l), num_parallel |-> Circuits(l), s_nom_extendable |-> FALSE]

\* A flow back is the negative minimum flow of a line that has a flow onward.
FlowBack(l) ==
  LET least == ValueOr(l, "Min Flow", Zero) IN IF Below(least, Zero) /\ MaxFlow(l) # Zero THEN Minus(least) ELSE Zero

LinkCells(l) ==
  EndCells(l) @@ Derived("rating", Larger(MaxFlow(l), FlowBack(l))) @@ Defaulted("loss", Zero)
    @@ Derived("operational_flow_limit", [from_to_max |-> MaxFlow(l), to_from_max |-> FlowBack(l)])

LinkRecordFields(l) ==
  [carrier |-> "AC", p_nom_extendable |-> FALSE, marginal_cost |-> Value(l, "Wheeling Charge")]

SkipLine ==
  /\ ~EndpointsAreBuses(object, NodeBuses)
  /\ told' = {"skipped"} /\ UNCHANGED <<hubRow, carried>>

AddLine ==
  /\ EndpointsAreBuses(object, NodeBuses) /\ IsElectrical(object)
  /\ hubRow' = LineCells(object, hubModel.buses[object.from])
  /\ carried' = LineRecordFields(object)
  /\ told' = LostColumns(hubRow')

AddLink ==
  /\ EndpointsAreBuses(object, NodeBuses) /\ ~IsElectrical(object)
  /\ hubRow' = LinkCells(object) /\ carried' = LinkRecordFields(object)
  /\ UNCHANGED told

MapGeneratorToSienna ==
  /\ hubLeg = "to sienna" /\ ~IsALine /\ hubLeg' = "to pypsa"
  /\ SkipGenerator \/ LeaveGenerator \/ MapGenerator
  /\ UNCHANGED <<hubModel, direct, arrived>>

MapTransmissionToSienna ==
  /\ hubLeg = "to sienna" /\ IsALine /\ hubLeg' = "to pypsa"
  /\ SkipLine \/ AddLine \/ AddLink
  /\ UNCHANGED <<hubModel, direct, arrived>>

-----------------------------------------------------------------------------
(* The way out of the hub                                                  *)

\* The series a document stores of the object; a count of units out needs units.
StoresASeries ==
  ~IsALine /\ (\/ ProfileProperty(object) \in DOMAIN object.series
               \/ "Units Out" \in DOMAIN object.series /\ UnitsOf(object) # Zero
               \/ "Max Capacity" \in DOMAIN object.series)
DocumentClock == IF hubModel.loads \/ (hubRow # NoCells /\ StoresASeries) THEN hubModel.minutes ELSE Whole(60)

RowOfTheDocument(d) ==
  CASE ~IsALine /\ d.type = "ThermalStandard" -> ThermalGenerator(d, carried, DocumentClock)
    [] ~IsALine /\ d.type # "ThermalStandard" -> RenewableGenerator(d, carried)
    [] IsALine /\ IsElectrical(object) -> LineRow(d, carried, hubModel.buses[d.bus0])
    [] OTHER -> LinkRow(d, carried)

LeaveTheHub ==
  /\ hubLeg = "to pypsa" /\ hubLeg' = "arrived"
  /\ arrived' = IF hubRow = NoCells THEN NoCells ELSE RowOfTheDocument(Plain(hubRow))
  /\ UNCHANGED <<hubModel, direct, hubRow, carried, told>>

StayThere == hubLeg = "arrived" /\ UNCHANGED hubVars

HubNext == ReadDirectly \/ MapGeneratorToSienna \/ MapTransmissionToSienna \/ LeaveTheHub \/ StayThere

HubSpec == HubInit /\ [][HubNext]_hubVars

-----------------------------------------------------------------------------
(* Properties                                                              *)

\* A ramp of the whole capacity never binds, a time or price that is not stated is zero, and
\* a ceiling that is not stated is the capacity.
Binding(share) == IF share = None \/ ~Below(share, Unity) THEN None ELSE share
OrZero(value) == IF value = None THEN Zero ELSE value

Unstated == {"min_up_time", "min_down_time", "up_time_before", "start_up_cost", "shut_down_cost", "marginal_cost"}
Says(row) ==
  [c \in DOMAIN row |->
     CASE c \in {"ramp_limit_up", "ramp_limit_down"} -> Binding(row[c])
       [] c \in Unstated -> OrZero(row[c])
       [] c = "p_max_pu" -> IF row[c] = None THEN Unity ELSE row[c]
       [] OTHER -> row[c]]

CommitmentColumns == DOMAIN Uncommitted \cup {"committable"}

\* A line that states a Susceptance has none by way of the hub, against translation-from-
\* plexos-to-sienna.md:200, and the event of the default says that the model states none.
LosesItsSusceptance == IsElectrical(object) /\ Ohms(object, "Susceptance") # Zero

\* What the hub does not keep and does not tell, each a reading of its own:
\* a series carries the ceiling of a generator that has one; a renewable is never committed;
\* the floor of an expansion is the capacity, also where none of it runs yet
\* (sienna_to_pypsa/map_generators.py:341); a line loses its Susceptance; and a link may not
\* be made to flow.
IsNamedDeparture(column) ==
  IF IsALine THEN \/ column = "b" /\ LosesItsSusceptance
                  \/ column = "p_min_pu" /\ IsPositive(ValueOr(object, "Min Flow", Zero))
  ELSE \/ column = "p_max_pu" /\ CarriesASeries(object)
       \/ column \in CommitmentColumns /\ TargetOf(object).type = "RenewableDispatch"
       \/ column = "p_nom_min" /\ RunningCapacity(object) = Zero

IsTold(column) == column \in told \/ (column \in DOMAIN arrived /\ arrived[column].how = "default")

ReadsOneClock == SourceClock = DocumentClock

\* A PLEXOS object says the same in the network either route writes, column for column: the
\* hub converts shares into megawatts and snapshots into hours, splits a row between document
\* and sidecar and puts it together again with a clock it reads anew, and what it cannot keep
\* its reports name, but for the departures listed.  It adds no object, and leaves one out only
\* with a report or because the mappings file makes it a storage.
TheHubKeepsTheReading ==
  hubLeg = "arrived" =>
    /\ arrived # NoCells => direct # NoCells
    /\ direct # NoCells /\ arrived = NoCells =>
         "skipped" \in told \/ (~IsALine /\ HasATarget(object) /\ ~IsAGeneratorType(object))
    /\ direct # NoCells /\ arrived # NoCells /\ ReadsOneClock =>
         LET before == Says(direct)
             after == Says(Plain(arrived))
         IN  \A c \in DOMAIN before :
               \/ c \in DOMAIN after /\ before[c] = after[c]
               \/ IsTold(c) \/ IsNamedDeparture(c)
=============================================================================
