----------------------------- MODULE SiennaColumns -----------------------------
(***************************************************************************)
(* The columns the pypsa-to-sienna leg writes: one row of cells for each   *)
(* class and row of a PyPSA network, and the record the sidecar keeps of   *)
(* what Sienna has no column for.  Generators and hydro plants are in      *)
(* natural units, storage in per unit of its base power, lines in per unit *)
(* of the system's base.                                                   *)
(*                                                                         *)
(* A clock is the minutes of a snapshot as the leg reads them; peaks holds *)
(* the highest value of each component's own series.                       *)
(***************************************************************************)
EXTENDS Cells

CONSTANT Carriers   \* the carrier mappings: carrier -> [type, mover, fuel]

SystemBase == Whole(100)
PenaltyOfCycling == Whole(1000)
HoursOfAnUnknownStart == Whole(10000)

\* The event about the type a carrier stands for, and a name, bus and availability.
Identity(r) ==
  Derived("name", r.name) @@ Derived("bus", r.bus) @@ Defaulted("available", TRUE)
    @@ Defaulted("reactive_power", Zero)

PeakOf(name, peaks) == IF name \in DOMAIN peaks THEN peaks[name] ELSE None

-----------------------------------------------------------------------------
(* The capacity a row is rated from                                        *)

CapacityDefaults == [p_nom_opt |-> None, p_nom |-> Zero, p_nom_min |-> Zero, p_nom_extendable |-> FALSE]

IsSolved(r) == r.p_nom_extendable /\ r.p_nom_opt # None
Floor(r) == Smaller(r.p_nom_min, r.p_nom)
HasFloor(r) == r.p_nom_extendable /\ IsPositive(Floor(r))

Rated(r) ==
  CASE IsSolved(r)                -> r.p_nom_opt
    [] ~IsSolved(r) /\ HasFloor(r) -> Floor(r)
    [] OTHER                      -> r.p_nom

\* No candidate nobody decided on, and no build a solve refused.
IsBuilt(r) == r.p_nom_extendable => (IsSolved(r) \/ HasFloor(r)) /\ IsPositive(Rated(r))

-----------------------------------------------------------------------------
(* Generators                                                              *)

GeneratorDefaults ==
  [p_min_pu |-> Zero, p_max_pu |-> Unity, marginal_cost |-> Zero, ramp_limit_up |-> None,
   ramp_limit_down |-> None, min_up_time |-> Zero, min_down_time |-> Zero, up_time_before |-> Zero,
   start_up_cost |-> Zero, shut_down_cost |-> Zero, committable |-> FALSE] @@ CapacityDefaults

ThermalIdentity(r) ==
  Identity(r) @@ Defaulted("status", "ONLINE")

\* The fuel and the prime mover come from the carrier mappings.
ThermalKind(r) ==
  UserMapped("type", "ThermalStandard") @@ UserMapped("fuel", Carriers[r.carrier].fuel)
    @@ UserMapped("prime_mover", Carriers[r.carrier].mover)

ThermalPower(r) ==
  Derived("base_power", Rated(r)) @@ Derived("active_power", Times(Rated(r), r.p_min_pu))
    @@ Derived("rating", Times(Rated(r), r.p_max_pu)) @@ Defaulted("power_units", "NATURAL_UNITS")

\* A plant with a series is limited by the peak of it.
ThermalLimits(r, peak) ==
  Derived("active_power_limits",
          [min |-> Times(Rated(r), r.p_min_pu),
           max |-> Times(Rated(r), IF peak # None THEN peak ELSE r.p_max_pu)])

\* Per unit and snapshot becomes MW per minute; a side left null stays null.
RampLimits(r, minutes) ==
  Either(r.ramp_limit_up # None \/ r.ramp_limit_down # None,
         Derived("ramp_limits", [up |-> Scaled(r.ramp_limit_up, Over(Rated(r), minutes)),
                                 down |-> Scaled(r.ramp_limit_down, Over(Rated(r), minutes))]),
         Defaulted("ramp_limits", None))

ThermalCost(r) ==
  Derived("operation_cost", [variable |-> r.marginal_cost, start_up |-> r.start_up_cost,
                             shut_down |-> r.shut_down_cost, fixed |-> Zero])
    @@ Defaulted("reactive_power_limits", None)

Hours(snapshots, minutes) == Over(Times(snapshots, minutes), Whole(60))

\* Snapshots become hours.
TimeLimits(r, minutes) ==
  Either(IsPositive(r.min_up_time) \/ IsPositive(r.min_down_time),
         Derived("time_limits", [up |-> Hours(r.min_up_time, minutes), down |-> Hours(r.min_down_time, minutes)]),
         Defaulted("time_limits", None))

TimeAtStatus(r, minutes) ==
  Derived("time_at_status",
          IF IsPositive(r.up_time_before) THEN Hours(r.up_time_before, minutes) ELSE HoursOfAnUnknownStart)

Thermal(row, peaks, minutes) ==
  LET r == Filled(row, GeneratorDefaults)
      peak == PeakOf(row.name, peaks)
  IN  ThermalIdentity(r) @@ ThermalKind(r) @@ ThermalPower(r) @@ ThermalLimits(r, peak)
        @@ RampLimits(r, minutes) @@ ThermalCost(r) @@ TimeLimits(r, minutes) @@ TimeAtStatus(r, minutes)

ThermalRecord(row) ==
  LET r == Filled(row, GeneratorDefaults)
  IN  [carrier |-> r.carrier, committable |-> r.committable, p_nom_extendable |-> r.p_nom_extendable]

-----------------------------------------------------------------------------
(* Renewable plants                                                        *)

RenewableDefaults ==
  [p_min_pu |-> Zero, p_max_pu |-> Unity, marginal_cost |-> Zero] @@ CapacityDefaults

RenewableKind(r) ==
  Derived("type", Carriers[r.carrier].type) @@ Derived("prime_mover", Carriers[r.carrier].mover)

\* The rating is at the peak of the series where there is one.
RenewableRating(r, peak) == Derived("rating", Times(Rated(r), IF peak # None THEN peak ELSE r.p_max_pu))

\* The columns both renewable types share.
RenewableColumns(r, peak) ==
  Identity(r) @@ RenewableKind(r) @@ Derived("base_power", Rated(r))
    @@ Derived("active_power", Times(Rated(r), r.p_min_pu)) @@ RenewableRating(r, peak)
    @@ Defaulted("power_units", "NATURAL_UNITS") @@ Defaulted("power_factor", Unity)

RenewableLimits == Defaulted("reactive_power_limits", None)
RenewableCost(r) == Derived("operation_cost", [variable |-> r.marginal_cost, fixed |-> Zero])

\* The type that cannot be dispatched has no cost.
RenewableCostLoss(r) ==
  Either(r.marginal_cost # Zero, Lost("marginal_cost", r.marginal_cost), NoCells)

Renewable(row, peaks) ==
  LET r == Filled(row, RenewableDefaults)
      peak == PeakOf(row.name, peaks)
  IN  RenewableColumns(r, peak) @@
        (IF Carriers[r.carrier].type = "RenewableDispatch"
         THEN RenewableLimits @@ RenewableCost(r) ELSE RenewableCostLoss(r))

RenewableRecord(row) ==
  LET r == Filled(row, RenewableDefaults)
  IN  [carrier |-> r.carrier, p_nom_extendable |-> r.p_nom_extendable]

-----------------------------------------------------------------------------
(* Hydro plants and storage                                                *)

HydroDefaults ==
  [p_min_pu |-> Zero, p_max_pu |-> Unity, marginal_cost |-> Zero, efficiency_dispatch |-> Unity]
    @@ CapacityDefaults

HydroIdentity(r) ==
  Identity(r) @@ Derived("type", "HydroDispatch") @@ Derived("prime_mover", Carriers[r.carrier].mover)

HydroPower(r) ==
  Derived("base_power", Rated(r)) @@ Derived("active_power", Times(Rated(r), r.p_min_pu))
    @@ Derived("rating", Times(Rated(r), r.p_max_pu)) @@ Defaulted("power_units", "NATURAL_UNITS")
    @@ Derived("active_power_limits", [min |-> Times(Rated(r), r.p_min_pu), max |-> Times(Rated(r), r.p_max_pu)])

HydroCost(r) == Derived("operation_cost", [variable |-> r.marginal_cost, fixed |-> Zero])

Hydro(row) ==
  LET r == Filled(row, HydroDefaults) IN HydroIdentity(r) @@ HydroPower(r) @@ HydroCost(r)

\* A plant that could not store its energy budget is left out.
IsUsableHydro(row) ==
  LET r == Filled(row, HydroDefaults) IN IsPositive(Rated(r)) /\ IsPositive(r.efficiency_dispatch)

StorageDefaults ==
  [p_min_pu |-> Minus(Unity), p_max_pu |-> Unity, marginal_cost |-> Zero, max_hours |-> Zero,
   efficiency_store |-> Unity, efficiency_dispatch |-> Unity, state_of_charge_initial |-> Zero,
   cyclic_state_of_charge |-> FALSE] @@ CapacityDefaults

StorageIdentity(r) ==
  Identity(r) @@ Derived("type", "EnergyReservoirStorage") @@ Derived("prime_mover", Carriers[r.carrier].mover)
    @@ Defaulted("storage_technology_type", "OTHER_MECH") @@ Defaulted("power_units", "COMPONENT_BASE")

\* The state of charge as a share of the energy the unit holds, within 0 and 1.
InitialLevel(r) ==
  IF ~IsPositive(Times(Rated(r), r.max_hours)) THEN Zero
  ELSE Larger(Zero, Smaller(Unity, Over(r.state_of_charge_initial, Times(Rated(r), r.max_hours))))

StorageEnergy(r) ==
  Derived("storage_capacity", r.max_hours) @@ Defaulted("storage_level_limits", [min |-> Zero, max |-> Unity])
    @@ Derived("initial_storage_capacity_level", InitialLevel(r))

\* The sides of the unit, both as sizes from zero.
StoragePower(r) ==
  Derived("rating", r.p_max_pu) @@ Defaulted("active_power", Zero)
    @@ Derived("input_active_power_limits", [min |-> Zero, max |-> Size(r.p_min_pu)])
    @@ Derived("output_active_power_limits", [min |-> Zero, max |-> r.p_max_pu])
    @@ Derived("efficiency", [in |-> r.efficiency_store, out |-> r.efficiency_dispatch])
    @@ Derived("base_power", Rated(r))

PenaltyOf(r) == IF r.cyclic_state_of_charge THEN PenaltyOfCycling ELSE Zero

\* A unit that must end as it began pays for a shortage and for a surplus.
StorageCost(r) ==
  Derived("operation_cost", [charge |-> Zero, discharge |-> r.marginal_cost, fixed |-> Zero,
                             shortage |-> PenaltyOf(r), surplus |-> PenaltyOf(r)])

StorageTarget(r) ==
  Defaulted("conversion_factor", Unity) @@ Defaulted("cycle_limits", None)
    @@ Derived("storage_target", IF r.cyclic_state_of_charge THEN Times(InitialLevel(r), r.max_hours) ELSE Zero)

Storage(row) ==
  LET r == Filled(row, StorageDefaults)
  IN  StorageIdentity(r) @@ StorageEnergy(r) @@ StoragePower(r) @@ StorageCost(r) @@ StorageTarget(r)

StorageRecord(row) == [p_nom_extendable |-> Filled(row, StorageDefaults).p_nom_extendable]

\* A unit of no storage hours holds no energy.
HoldsEnergy(row) == IsPositive(Filled(row, StorageDefaults).max_hours)

-----------------------------------------------------------------------------
(* Buses and loads                                                         *)

DefaultVoltage == Unity
BusDefaults ==
  [v_nom |-> DefaultVoltage, v_mag_pu_set |-> Unity, v_mag_pu_min |-> Zero, v_mag_pu_max |-> None,
   carrier |-> "AC", location |-> None, control |-> None]

BusIdentity(r) ==
  Derived("name", r.name) @@ Defaulted("available", TRUE)

BusVoltage(r) == Derived("base_voltage", r.v_nom)
BusArea(r) == Derived("area", r.location) @@ Derived("type", "ACBus")

BusTypeOf == "PQ" :> "PQ" @@ "PV" :> "PV" @@ "Slack" :> "REF"

\* A control Sienna has no type for makes a PQ bus.
BusType(r) ==
  Either(r.control \in DOMAIN BusTypeOf,
         Derived("bustype", IF r.control \in DOMAIN BusTypeOf THEN BusTypeOf[r.control] ELSE None),
         Defaulted("bustype", "PQ"))

BusMagnitude(r) == Defaulted("angle", Zero) @@ Derived("magnitude", r.v_mag_pu_set)

\* Limits nobody set give way to 0.9 and 1.1; a maximum of None is no limit.
VoltageLimits(r) ==
  Either(r.v_mag_pu_min = Zero /\ r.v_mag_pu_max = None,
         Defaulted("voltage_limits", [min |-> Ratio(9, 10), max |-> Ratio(11, 10)]),
         Derived("voltage_limits", [min |-> r.v_mag_pu_min, max |-> r.v_mag_pu_max]))

Bus(row) ==
  LET r == Filled(row, BusDefaults)
  IN  BusIdentity(r) @@ BusVoltage(r) @@ BusArea(r) @@ BusType(r) @@ BusMagnitude(r) @@ VoltageLimits(r)

BusRecord(row) == [carrier |-> Filled(row, BusDefaults).carrier]

LoadDefaults == [p_set |-> Zero, q_set |-> Zero, sign |-> Minus(Unity), carrier |-> None, type |-> None]

LoadIdentity(r) ==
  Derived("name", r.name) @@ Derived("bus", r.bus) @@ Derived("type", "PowerLoad")
    @@ Defaulted("available", TRUE) @@ Derived("reactive_power", r.q_set)
    @@ Defaulted("conformity", "UNDEFINED") @@ Defaulted("power_units", "NATURAL_UNITS")

\* The peak of the series where there is one, and the set point where there is none.
LoadPower(r, peak) ==
  LET top == IF peak # None THEN peak ELSE r.p_set
  IN  Derived("max_active_power", top) @@ Derived("base_power", Larger(top, Ratio(1, 10)))

LoadColumns(row, peaks) ==
  LET r == Filled(row, LoadDefaults) IN LoadIdentity(r) @@ LoadPower(r, PeakOf(row.name, peaks))

LoadRecord(row) ==
  LET r == Filled(row, LoadDefaults) IN [carrier |-> r.carrier, type |-> r.type, sign |-> r.sign]

-----------------------------------------------------------------------------
(* Lines                                                                   *)

LineDefaults ==
  [r |-> Zero, x |-> Zero, b |-> Zero, g |-> Zero, s_nom |-> Zero, s_max_pu |-> Unity, s_nom_opt |-> Zero,
   length |-> Zero, num_parallel |-> Unity, v_ang_min |-> None, v_ang_max |-> None,
   s_nom_extendable |-> FALSE, active |-> TRUE, carrier |-> "AC"]

LineIdentity(r) ==
  Derived("name", r.name) @@ Derived("bus0", r.bus0) @@ Derived("bus1", r.bus1) @@ Derived("available", r.active)
    @@ Defaulted("active_power_flow", Zero) @@ Defaulted("reactive_power_flow", Zero) @@ Derived("type", "Line")
    @@ Defaulted("base_power", SystemBase)

\* The impedance the system's base and the voltage of bus0 give, in ohm.
BaseImpedance(volts) == Over(Times(volts, volts), SystemBase)

\* Ohms and siemens as per unit of the system's base; half of a shunt at either end.
Impedance(r, volts) ==
  Derived("r", Over(r.r, BaseImpedance(volts))) @@ Derived("x", Over(r.x, BaseImpedance(volts)))
Shunt(r, volts) ==
  LET b == Over(Times(r.b, BaseImpedance(volts)), Whole(2))
      g == Over(Times(r.g, BaseImpedance(volts)), Whole(2))
  IN  Derived("b", [from |-> b, to |-> b]) @@ Derived("g", [from |-> g, to |-> g])

LineCapacity(r) == IF r.s_nom_extendable /\ IsPositive(r.s_nom_opt) THEN r.s_nom_opt ELSE r.s_nom
LineRating(r) == Derived("rating", Over(Times(LineCapacity(r), r.s_max_pu), SystemBase))

RightAngle == Radians(Whole(90))

\* Degrees become radians; without both of them, a right angle either way.
AngleLimits(r) ==
  Either(r.v_ang_min # None /\ r.v_ang_max # None,
         Derived("angle_limits", [min |-> Radians(r.v_ang_min), max |-> Radians(r.v_ang_max)]),
         Defaulted("angle_limits", [min |-> Minus(RightAngle), max |-> RightAngle]))

LineColumns(row, volts) ==
  LET r == Filled(row, LineDefaults)
  IN  LineIdentity(r) @@ Impedance(r, volts) @@ Shunt(r, volts) @@ LineRating(r) @@ AngleLimits(r)

LineRecord(row) ==
  LET r == Filled(row, LineDefaults)
  IN  [carrier |-> r.carrier, length |-> r.length, num_parallel |-> r.num_parallel,
       s_nom_extendable |-> r.s_nom_extendable]

-----------------------------------------------------------------------------
(* Links                                                                   *)

LinkDefaults ==
  [p_min_pu |-> Zero, p_max_pu |-> Unity, efficiency |-> Unity, active |-> TRUE, carrier |-> None]
    @@ CapacityDefaults

LinkIdentity(r) ==
  Derived("name", r.name) @@ Derived("bus0", r.bus0) @@ Derived("bus1", r.bus1) @@ Derived("available", r.active)
    @@ Defaulted("active_power_flow", Zero) @@ Derived("type", "TwoTerminalGenericHVDCLine")

\* The way back is open only below a p_min_pu of zero.
LinkFlows(r) ==
  LET onward == Times(Rated(r), r.p_max_pu)
      back == IF r.p_min_pu[1] < 0 THEN Minus(Times(Rated(r), r.p_min_pu)) ELSE Zero
  IN  Derived("rating", Larger(Rated(r), Larger(onward, back)))
        @@ Derived("operational_flow_limit", [from_to_max |-> onward, to_from_max |-> back])

LinkReactive ==
  Defaulted("reactive_power_limits_from", [min |-> Zero, max |-> Zero])
    @@ Defaulted("reactive_power_limits_to", [min |-> Zero, max |-> Zero])

LinkLoss(r) == Derived("loss", Plus(Unity, Minus(r.efficiency)))

LinkColumns(row) ==
  LET r == Filled(row, LinkDefaults) IN LinkIdentity(r) @@ LinkFlows(r) @@ LinkReactive @@ LinkLoss(r)

\* A faulty variant keeps neither bound for the way back.
LinkRecordWithoutBounds(row) ==
  LET r == Filled(row, LinkDefaults)
  IN  [carrier |-> r.carrier, p_nom_extendable |-> r.p_nom_extendable, p_max_pu |-> None, p_min_pu |-> None]

\* The bounds the two flows do not tell: p_max_pu but for one, and p_min_pu above zero.
LinkRecord(row) ==
  LET r == Filled(row, LinkDefaults)
  IN  [carrier |-> r.carrier, p_nom_extendable |-> r.p_nom_extendable,
       p_max_pu |-> IF r.p_max_pu # Unity THEN r.p_max_pu ELSE None,
       p_min_pu |-> IF IsPositive(r.p_min_pu) THEN r.p_min_pu ELSE None]
=============================================================================
