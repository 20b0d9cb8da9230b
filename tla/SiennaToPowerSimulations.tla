----------------------- MODULE SiennaToPowerSimulations -----------------------
(***************************************************************************)
(* The sienna-to-power-simulations leg, beside the leg to PyPSA that reads *)
(* the same document with the same source: the step that fills availability*)
(* series, the step that gives UUIDs and builds the PowerSystems tables,   *)
(* and the sink that writes the HDF5 sidecar and then the system document. *)
(*                                                                         *)
(* An UUID stands for the key the registry holds it under.  Of a row the   *)
(* name, the references, the power fields that scale a series and the      *)
(* limits of an HVDC line are kept, and whether the target's models take   *)
(* its cost and the rest of it (verdict); renewable plants are at a power  *)
(* factor of 1.                                                            *)
(***************************************************************************)
EXTENDS SiennaToPypsa

VARIABLES
  filled,     \* the components reported as given a flat series: <<type, name>>
  registry,   \* the keys that have an UUID
  ps_tables,  \* destination_tables: PowerSystems type -> rows
  sidecar,    \* the associations of the HDF5 file
  system      \* the components of the system document

ps_vars == <<filled, registry, ps_tables, sidecar, system>>
leg_vars == <<vars, ps_vars>>

Read == <<document, components, associations, left_out>>
PypsaOnly == <<tables, metadata, skips, dropped, network>>

Renewables == {"RenewableDispatch", "RenewableNonDispatch"}
BusBacked  == GeneratorTypes \cup StorageTypes \cup LoadTypes
ArcBacked  == LineTypes \cup LinkTypes

PsInit ==
  /\ Init
  /\ filled = {} /\ registry = {}
  /\ ps_tables = [t \in {} |-> {}]
  /\ sidecar = None /\ system = None

-----------------------------------------------------------------------------
(* Availability for a whole type                                           *)

Availability == "max_active_power"

\* The names of a type, from the staged tables that say what type a row is of.
NamesOf(type) == {r.name : r \in OfTypes({type} \cap (BusBacked \cup ArcBacked))}

WithoutSeries(key) == IF key[2] = Availability THEN NamesOf(key[1]) \ DOMAIN series[key] ELSE {}

\* 1 at each snapshot any of the frame has.
Flat(frame) ==
  [at |-> Least(Snapshots(frame)), values |-> [i \in 1..Cardinality(Snapshots(frame)) |-> <<1, 1>>]]

FillAvailability ==
  /\ step = "buses" /\ step' = "ps_uuids"
  /\ series' = [k \in DOMAIN series |->
       [n \in WithoutSeries(k) \cup DOMAIN series[k] |->
          IF n \in DOMAIN series[k] THEN series[k][n] ELSE Flat(series[k])]]
  /\ filled' = UNION {{k[1]} \X WithoutSeries(k) : k \in DOMAIN series}
  /\ UNCHANGED <<Read, PypsaOnly, registry, ps_tables, sidecar, system>>

-----------------------------------------------------------------------------
(* The two passes of the mapping                                           *)

\* A faulty variant gives an UUID to an id, of whichever type.
UuidOfId(type, id) == <<id>>

Uuid(type, id) == <<type, id>>
AreaUuid(name) == <<"Area", name>>

ArcsUsed  == {ArcOf(r) : r \in OfTypes(ArcBacked)}
AreasUsed == {AreaOf(r) : r \in OfTypes({"ACBus"})} \ {None}
OwnUuid(r) == Uuid(r.type, r.id)
OwnUuids(types) == {OwnUuid(r) : r \in OfTypes(types)}

AssignUuids ==
  /\ step = "ps_uuids" /\ step' = "ps_map"
  /\ registry' = OwnUuids(Mapped) \cup {AreaUuid(n) : n \in AreasUsed}
                   \cup {Uuid("Arc", a.id) : a \in ArcsUsed}
  /\ UNCHANGED <<Read, PypsaOnly, series, filled, ps_tables, sidecar, system>>

BusUuid(r) == Uuid("ACBus", (CHOOSE ref \in r.refs : TRUE)[2])
ArcUuid(r) == Uuid("Arc", ArcOf(r).id)

BusComponent(r) ==
  [type |-> r.type, name |-> r.name, uuid |-> OwnUuid(r),
   area |-> IF AreaOf(r) = None THEN None ELSE AreaUuid(AreaOf(r))]

AreaComponent(name) == [type |-> "Area", name |-> name, uuid |-> AreaUuid(name)]

ArcComponent(a) ==
  [type |-> a.type, name |-> a.name, uuid |-> OwnUuid(a),
   from |-> Uuid("ACBus", a.from), to |-> Uuid("ACBus", a.to)]

PowerFields(type) ==
  CASE type \in LoadTypes  -> {"max"}
    [] type \in Renewables -> {"rating"}
    [] OTHER               -> {"max", "rating"}

\* A faulty variant takes the limits of a thermal plant for per-unit ones.
PerUnitWithoutLimits(type) ==
  CASE type \in StorageTypes -> {} [] type \in LoadTypes -> {"max"} [] OTHER -> {"rating"}

\* The fields that are in natural units and are divided by the row's base power.
PerUnitFields(type) == IF type \in StorageTypes THEN {} ELSE PowerFields(type)

PowerOf(r) ==
  [f \in PowerFields(r.type) |->
     <<r[f], IF f \in PerUnitFields(r.type) /\ r.base # 0 THEN r.base ELSE 1>>]

BusBackedComponent(r) ==
  [type |-> r.type, name |-> r.name, uuid |-> OwnUuid(r),
   bus |-> BusUuid(r), base |-> r.base, power |-> PowerOf(r)]

\* The model of its cost, or of its type, takes the row.
TakesCost(r) == r.verdict # "cost"
TakesRow(r)  == r.verdict # "row"

HasLinearLoss(r) == r.loss # None => r.loss.function = "LINEAR"

\* The flow bounds at the from end; at the to end what the loss leaves of them.
EndLimits(r) ==
  LET from == [min |-> -FlowBounds(r).reverse, max |-> FlowBounds(r).forward]
      left == IF r.loss = None THEN <<1, 1>> ELSE <<r.loss.term[2] - r.loss.term[1], r.loss.term[2]>>
  IN  [limits_from |-> from, limits_to |-> [e \in {"min", "max"} |-> <<from[e] * left[1], left[2]>>]]

ArcBackedComponent(r) ==
  [type |-> r.type, name |-> r.name, uuid |-> OwnUuid(r), arc |-> ArcUuid(r),
   limits |-> IF r.type \in LinkTypes THEN EndLimits(r) ELSE None]

\* What pass 2 looks up: whose UUID is missing ends the run.
LookedUp ==
  OwnUuids(Mapped) \cup {AreaUuid(n) : n \in AreasUsed}
    \cup {BusUuid(r) : r \in OfTypes(BusBacked)} \cup {ArcUuid(r) : r \in OfTypes(ArcBacked)}
    \cup UNION {{Uuid("ACBus", a.from), Uuid("ACBus", a.to)} : a \in ArcsUsed}

Built ==
  {BusComponent(r) : r \in OfTypes({"ACBus"})} \cup {AreaComponent(n) : n \in AreasUsed}
    \cup {ArcComponent(a) : a \in ArcsUsed}
    \cup {BusBackedComponent(r) : r \in OfTypes(BusBacked)}
    \cup {ArcBackedComponent(r) : r \in OfTypes(ArcBacked)}

\* A cost the target's model refuses, or a loss that is no linear curve, ends the run.
MapToPowerSimulations ==
  /\ step = "ps_map"
  /\ IF /\ LookedUp \subseteq registry
        /\ \A r \in OfTypes(BusBacked) : TakesCost(r)
        /\ \A r \in OfTypes(LinkTypes) : HasLinearLoss(r)
     THEN /\ step' = "ps_sidecar"
          /\ ps_tables' = [t \in {c.type : c \in Built} |-> {c \in Built : c.type = t}]
     ELSE step' = "ps_failed" /\ UNCHANGED ps_tables
  /\ UNCHANGED <<Read, PypsaOnly, series, filled, registry, sidecar, system>>

-----------------------------------------------------------------------------
(* The sink                                                                *)

PsRows(type) == IF type \in DOMAIN ps_tables THEN ps_tables[type] ELSE {}

\* Each staged series of a plant, store or load that has a row, as it was staged.
WriteSidecar ==
  /\ step = "ps_sidecar" /\ step' = "ps_system"
  /\ sidecar' = UNION {{[type |-> k[1], name |-> k[2], owner |-> c.uuid,
                         at |-> series[k][c.name].at, values |-> series[k][c.name].values] :
                        c \in {row \in PsRows(k[1]) : row.name \in DOMAIN series[k]}} :
                       k \in {key \in DOMAIN series : key[1] \in BusBacked}}
  /\ UNCHANGED <<Read, PypsaOnly, series, filled, registry, ps_tables, system>>

\* The system document follows the sidecar, if the models of the target take every row.
WriteSystem ==
  /\ step = "ps_system"
  /\ IF \E r \in OfTypes(Mapped) : ~TakesRow(r)
     THEN step' = "ps_failed" /\ UNCHANGED system
     ELSE step' = "ps_written" /\ system' = UNION {ps_tables[t] : t \in DOMAIN ps_tables}
  /\ UNCHANGED <<Read, PypsaOnly, series, filled, registry, ps_tables, sidecar>>

PsTerminated == step \in {"ps_written", "ps_failed"} /\ UNCHANGED leg_vars

PsNext ==
  \/ Next /\ UNCHANGED ps_vars
  \/ FillAvailability \/ AssignUuids \/ MapToPowerSimulations \/ WriteSidecar \/ WriteSystem
  \/ PsTerminated

PsSpec == PsInit /\ [][PsNext]_leg_vars

-----------------------------------------------------------------------------
(* Properties                                                              *)

Reaches(uuid, type, name) ==
  \E c \in system : c.uuid = uuid /\ c.type = type /\ c.name = name

\* The component refers to those the row did.
RefersAs(c, r) ==
  CASE r.type = "ACBus"      -> IF AreaOf(r) = None THEN c.area = None ELSE Reaches(c.area, "Area", AreaOf(r))
    [] r.type \in BusBacked  -> Reaches(c.bus, "ACBus", BusOf(r))
    [] r.type \in ArcBacked  -> \E a \in system :
                                  /\ a.uuid = c.arc /\ a.type = "Arc"
                                  /\ Reaches(a.from, "ACBus", Ends(r).bus0)
                                  /\ Reaches(a.to, "ACBus", Ends(r).bus1)

\* The system written is the part of the document that was kept, with UUIDs for ids: no two
\* components share one, each row is one component that reaches by UUID the bus, the ends
\* and the area the row named by id, and beyond these there are the arcs and areas in use.
\* What is kept hangs together, so every reference has an UUID from the first pass, and
\* nothing but a row the target refuses keeps the system from being written.
SystemIsTheKeptPart ==
  /\ step = "ps_written" =>
       /\ \A c, d \in system : c.uuid = d.uuid => c = d
       /\ \A r \in OfTypes(Mapped) :
            LET is == {c \in system : c.type = r.type /\ c.name = r.name}
            IN  Cardinality(is) = 1 /\ \A c \in is : RefersAs(c, r)
       /\ Cardinality(system) = Cardinality(OfTypes(Mapped)) + Cardinality(ArcsUsed) + Cardinality(AreasUsed)
  /\ step = "ps_failed" =>
       \/ \E r \in OfTypes(Mapped) : ~TakesCost(r) \/ ~TakesRow(r)
       \/ \E r \in OfTypes(LinkTypes) : ~HasLinearLoss(r)

\* What PowerSystems reads a value of the series in: the maximum active power, in MW.
ReadMegawatts(c, value) ==
  Times(Times(value, IF c.type \in Renewables THEN c.power.rating ELSE c.power.max), <<c.base, 1>>)

\* A series of the sidecar is, in the capacity and the base written in the other file, the
\* megawatts stored for its owner: staging divides by one attribute, the mapping divides
\* that attribute by the base, and nothing multiplies.  Rows in natural units; a hydro
\* series is staged in its base power and no energy store has a capacity to stage by.
SidecarHoldsTheStoredMegawatts ==
  step = "ps_written" => \A a \in Staged :
    /\ a.name = Availability /\ a.type \in PlantTypes \cup LoadTypes
    /\ Owner(a).units = "natural" /\ Owner(a).base # 0 /\ SeriesCapacity(Owner(a)) # 0
    => \E c \in system, e \in sidecar :
         /\ c.type = a.type /\ c.name = Owner(a).name /\ e.owner = c.uuid /\ e.name = a.name
         /\ e.at = a.at /\ DOMAIN e.values = DOMAIN a.values
         /\ \A i \in DOMAIN a.values : Same(ReadMegawatts(c, e.values[i]), StoredMegawatts(a, i))
=============================================================================
