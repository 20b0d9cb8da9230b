------------------------------ MODULE PypsaColumns ------------------------------
(***************************************************************************)
(* The columns the sienna-to-pypsa leg writes: one row of cells for each   *)
(* class and row of a Sienna document and the record the sidecar holds for *)
(* it.  The record of a component the sidecar does not hold states nothing *)
(* (NoRecord).  An event with a value the sidecar carried is one of a      *)
(* derived value; a default is an event of its own.                        *)
(***************************************************************************)
EXTENDS Cells

CONSTANT CarrierOf   \* <<type, mover, fuel>> -> the carrier interop names for it

SentinelHours == Whole(10000)

\* A field of the record, or None.
Field(record, field) == IF field \in DOMAIN record THEN record[field] ELSE None
NoRecord == [f \in {} |-> None]

PerUnitIn(value, base) == IF base = Zero THEN Zero ELSE Over(value, base)
RatedIn(rating, base) == IF base = Zero THEN Unity ELSE Over(rating, base)

\* A faulty variant leaves an extendable row without a floor.
NoFloor(capacity, extendable) == None

\* What is extendable may not be built smaller than it was.
ExtendableFloor(capacity, extendable) == IF extendable = TRUE THEN capacity ELSE None

Taken(column, value) == Either(value # None, Derived(column, value), Unreported(column, None))

-----------------------------------------------------------------------------
(* Generators                                                              *)

\* The sidecar's carrier, or the one interop names for the type, mover and fuel.
GeneratorCarrier(g, record) ==
  IF Field(record, "carrier") # None THEN Derived("carrier", record.carrier)
  ELSE Derived("carrier", CarrierOf[<<g.type, g.prime_mover, IF g.type = "ThermalStandard" THEN g.fuel ELSE None>>])

GeneratorPower(g) ==
  Derived("name", g.name) @@ Derived("bus", g.bus) @@ Derived("p_nom", g.base_power)
    @@ Derived("p_max_pu", RatedIn(g.rating, g.base_power))

\* What the sidecar alone carries, each with its event where it states one.
CarriedColumns(record) ==
  Taken("efficiency", Field(record, "efficiency")) @@ Taken("p_nom_max", Field(record, "p_nom_max"))
    @@ Taken("overnight_cost", Field(record, "overnight_cost_per_mw"))
    @@ Taken("discount_rate", Field(record, "discount_rate"))
    @@ Taken("lifetime", Field(record, "lifetime_years")) @@ Taken("build_year", Field(record, "build_year"))

Extendable(g, record) ==
  LET stated == Field(record, "p_nom_extendable")
  IN  (IF stated # None THEN Derived("p_nom_extendable", stated) ELSE Defaulted("p_nom_extendable", FALSE))
        @@ Taken("p_nom_min", ExtendableFloor(g.base_power, stated))

\* MW per minute as per unit and snapshot.
RampLimit(value, minutes, base) ==
  IF value = None THEN None ELSE PerUnitIn(Times(value, minutes), base)

\* Hours as a whole number of snapshots.
Snapshots(hours, minutes) == Nearest(Over(Times(hours, Whole(60)), minutes))

\* One event speaks for both sides, present or absent.
RampColumns(g, minutes) ==
  IF g.ramp_limits = None
  THEN Defaulted("ramp_limit_up", None) @@ Defaulted("ramp_limit_down", None)
  ELSE Derived("ramp_limit_up", RampLimit(g.ramp_limits.up, minutes, g.base_power))
         @@ Derived("ramp_limit_down", RampLimit(g.ramp_limits.down, minutes, g.base_power))

TimeColumns(g, minutes) ==
  (IF g.time_limits = None
   THEN Defaulted("min_up_time", Zero) @@ Defaulted("min_down_time", Zero)
   ELSE Derived("min_up_time", Snapshots(g.time_limits.up, minutes))
          @@ Derived("min_down_time", Snapshots(g.time_limits.down, minutes)))
    @@ (IF g.time_at_status \in {None, SentinelHours} THEN Defaulted("up_time_before", Zero)
        ELSE Derived("up_time_before", Snapshots(g.time_at_status, minutes)))

\* Committable only where the sidecar says so; where it says nothing, no event does.
CommittedColumns(record) ==
  LET stated == Field(record, "committable")
  IN  IF stated # None THEN Derived("committable", stated) ELSE Unreported("committable", FALSE)

ThermalCosts(g) ==
  Derived("marginal_cost", g.operation_cost.variable) @@ Derived("start_up_cost", g.operation_cost.start_up)
    @@ Derived("shut_down_cost", g.operation_cost.shut_down)

ThermalGenerator(g, record, minutes) ==
  GeneratorPower(g) @@ Derived("p_min_pu", PerUnitIn(g.active_power_limits.min, g.base_power))
    @@ GeneratorCarrier(g, record) @@ ThermalCosts(g) @@ CommittedColumns(record)
    @@ RampColumns(g, minutes) @@ TimeColumns(g, minutes)
    @@ CarriedColumns(record) @@ Extendable(g, record)

\* A plant that is never committed has neither ramps nor times.
UncommittedColumns ==
  [c \in {"ramp_limit_up", "ramp_limit_down"} |-> [value |-> None, how |-> "unreported"]]
    @@ [c \in {"min_up_time", "min_down_time", "up_time_before", "start_up_cost", "shut_down_cost"} |->
          [value |-> Zero, how |-> "unreported"]]
    @@ Unreported("committable", FALSE)

\* A type that cannot be dispatched states no cost.
RenewableCostColumn(g) ==
  IF g.type = "RenewableDispatch" THEN Derived("marginal_cost", g.operation_cost.variable)
  ELSE Defaulted("marginal_cost", Zero)

RenewableGenerator(g, record) ==
  GeneratorPower(g) @@ Derived("p_min_pu", PerUnitIn(g.active_power, g.base_power))
    @@ GeneratorCarrier(g, record) @@ RenewableCostColumn(g) @@ UncommittedColumns
    @@ CarriedColumns(record) @@ Extendable(g, record)

-----------------------------------------------------------------------------
(* Storage units                                                           *)

DefaultHydroHours == Unity
Carried(record, field, fallback) == IF Field(record, field) # None THEN record[field] ELSE fallback

\* What a hydro plant states of its power.
HydroPlantColumns(h) ==
  Derived("name", h.name) @@ Derived("bus", h.bus) @@ Derived("p_nom", h.base_power)
    @@ Derived("p_max_pu", RatedIn(h.rating, h.base_power))
    @@ Derived("p_min_pu", PerUnitIn(h.active_power_limits.min, h.base_power))
    @@ Derived("marginal_cost", h.operation_cost.variable)
    @@ Derived("carrier", CarrierOf[<<"HydroDispatch", h.prime_mover, None>>])

\* What it states of its reservoir: nothing, so defaults are reported, carried or not.
ReservoirColumns(record) ==
  Defaulted("max_hours", Carried(record, "max_hours", DefaultHydroHours))
    @@ Defaulted("efficiency_store", Unity) @@ Defaulted("efficiency_dispatch", Unity)
    @@ Defaulted("state_of_charge_initial", Carried(record, "state_of_charge_initial", Zero))
    @@ Defaulted("cyclic_state_of_charge", FALSE) @@ Defaulted("p_nom_extendable", FALSE)

HydroUnit(h, record) == HydroPlantColumns(h) @@ ReservoirColumns(record)

StorageUnitPower(s) ==
  Derived("name", s.name) @@ Derived("bus", s.bus) @@ Derived("p_nom", s.base_power)
    @@ Derived("p_max_pu", s.output_active_power_limits.max)
    @@ Derived("p_min_pu", Minus(s.input_active_power_limits.max))
    @@ Derived("efficiency_store", s.efficiency.in) @@ Derived("efficiency_dispatch", s.efficiency.out)
    @@ Derived("carrier", CarrierOf[<<"EnergyReservoirStorage", s.prime_mover, None>>])

\* The charge is the share of the energy the power and the hours give.
StorageUnitEnergy(s) ==
  Derived("max_hours", s.storage_capacity)
    @@ Derived("state_of_charge_initial",
               Times(s.initial_storage_capacity_level, Times(s.base_power, s.storage_capacity)))
    @@ Derived("cyclic_state_of_charge", IsPositive(s.operation_cost.shortage))
    @@ Derived("marginal_cost", s.operation_cost.discharge)

StorageUnit(s, record) == StorageUnitPower(s) @@ StorageUnitEnergy(s) @@ Extendable(s, record)

-----------------------------------------------------------------------------
(* Buses, loads, lines and links                                           *)

ControlOf == "PQ" :> "PQ" @@ "PV" :> "PV" @@ "REF" :> "Slack"

BusColumns(b, record) ==
  Derived("name", b.name) @@ Derived("v_nom", b.base_voltage)
    @@ Derived("control", ControlOf[b.bustype]) @@ Taken("location", b.area)
    @@ Derived("carrier", IF Field(record, "carrier") # None THEN record.carrier ELSE "AC")

LoadRow(l, record) ==
  Derived("name", l.name) @@ Derived("bus", l.bus) @@ Derived("p_set", l.max_active_power)
    @@ Taken("carrier", Field(record, "carrier")) @@ Taken("type", Field(record, "type"))

\* The impedance of the line's own base power and the voltage of bus0, in ohm.
ImpedanceBase(l, volts) == Over(Times(volts, volts), l.base_power)
NominalPower(l) == Times(l.rating, l.base_power)

LineImpedance(l, volts) ==
  LET ohms == ImpedanceBase(l, volts)
  IN  Derived("r", Times(l.r, ohms)) @@ Derived("x", Times(l.x, ohms))
        @@ Derived("b", Over(Plus(l.b.from, l.b.to), ohms)) @@ Derived("g", Over(Plus(l.g.from, l.g.to), ohms))
        @@ Derived("s_nom", NominalPower(l))

IsUnbounded(limits) == limits = [min |-> Minus(Radians(Whole(90))), max |-> Radians(Whole(90))]

\* A right angle either way is read as no limit, with no event.
LineAngles(l) ==
  IF IsUnbounded(l.angle_limits)
  THEN Unreported("v_ang_min", None) @@ Unreported("v_ang_max", None)
  ELSE Derived("v_ang_min", Degrees(l.angle_limits.min)) @@ Derived("v_ang_max", Degrees(l.angle_limits.max))

\* What the sidecar carries, or the default of it without an event.
Extra(column, record, default) ==
  IF Field(record, column) # None THEN Derived(column, record[column]) ELSE Unreported(column, default)

LineExtras(l, record) ==
  Extra("length", record, Zero) @@ Extra("num_parallel", record, Unity)
    @@ Taken("carrier", Field(record, "carrier"))
    @@ Taken("s_nom_extendable", Field(record, "s_nom_extendable"))
    @@ Taken("s_nom_min", ExtendableFloor(NominalPower(l), Field(record, "s_nom_extendable")))

LineRow(l, record, volts) ==
  Derived("name", l.name) @@ Derived("bus0", l.bus0) @@ Derived("bus1", l.bus1) @@ Derived("active", l.available)
    @@ LineImpedance(l, volts) @@ LineAngles(l) @@ LineExtras(l, record)

\* The capacity behind the flow onward.
LinkCapacity(k, record) ==
  LET top == Field(record, "p_max_pu")
      onward == Smaller(k.operational_flow_limit.from_to_max, k.rating)
  IN  IF top = None THEN onward ELSE IF top = Zero THEN Zero ELSE Over(onward, top)

LinkBounds(k, record) ==
  LET nom == LinkCapacity(k, record)
      back == Smaller(k.operational_flow_limit.to_from_max, k.rating)
  IN  Derived("p_nom", nom) @@ Taken("p_max_pu", Field(record, "p_max_pu")) @@
        (IF Field(record, "p_min_pu") # None THEN Derived("p_min_pu", record.p_min_pu)
         ELSE IF nom = Zero THEN Defaulted("p_min_pu", Zero)
         ELSE Derived("p_min_pu", Minus(Over(back, nom))))

LinkRow(k, record) ==
  Derived("name", k.name) @@ Derived("bus0", k.bus0) @@ Derived("bus1", k.bus1) @@ Derived("active", k.available)
    @@ LinkBounds(k, record) @@ Derived("efficiency", Plus(Unity, Minus(k.loss)))
    @@ Taken("carrier", Field(record, "carrier")) @@ Taken("marginal_cost", Field(record, "marginal_cost"))
    @@ Taken("p_nom_extendable", Field(record, "p_nom_extendable"))
    @@ Taken("p_nom_min", ExtendableFloor(LinkCapacity(k, record), Field(record, "p_nom_extendable")))
=============================================================================
