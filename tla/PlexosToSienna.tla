---------------------------- MODULE PlexosToSienna ----------------------------
(***************************************************************************)
(* plexos_to_sienna_map_components, from the model stage_plexos_xml staged *)
(* to the megawatts emit_sienna_h5_sidecar stores: buses, loads,           *)
(* generators, transmission and storage are mapped in that order, each     *)
(* numbering its components on from those before it, the profiles that do  *)
(* not fit the window are dropped, areas and arcs are derived, and the     *)
(* sink scales each profile that is left.                                  *)
(*                                                                         *)
(* Numbers are counted in units of 1 / One, capacities and shares alike,   *)
(* and a percentage is read as its share.  A profile starts at the first   *)
(* snapshot and may stop short.  Names are distinct within a class, not    *)
(* across classes, and a battery and a turbine are at a node the model     *)
(* states, if at any.  Costs, commitment, reserves and ensembles are left  *)
(* out; builds are taken up where the investments begin.                   *)
(***************************************************************************)
EXTENDS Null, Integers, Sequences, FiniteSets, SequencesExt, FiniteSetsExt, TLC

CONSTANTS
  Models,    \* the PLEXOS models a run may start from
  TypeOf,    \* the carrier mappings file: carrier -> Sienna type
  One        \* the count of 1.0

VARIABLES
  step,          \* the part of the step that runs next
  model,         \* source_topology as staged
  series,        \* source_time_series: <<class, property>> -> component -> values
  components,    \* the destination tables, as one set of rows
  associations,  \* the TIME_SERIES_ASSOCIATION table
  companions,    \* the series beside the storage records of the sidecar
  report,        \* COMPONENT_SKIPPED and NOT_MAPPED events
  stored         \* the arrays of the sidecar

vars == <<step, model, series, components, associations, companions, report, stored>>

GeneratorTypes == {"ThermalStandard", "RenewableDispatch"}
Parts == <<"buses", "loads", "generators", "transmission", "storage", "window",
           "relate", "store", "written">>

Rating   == <<"Generator", "Rating">>
Factor   == <<"Generator", "Rating Factor">>
Capacity == <<"Generator", "Max Capacity">>
UnitsOut == <<"Generator", "Units Out">>
Availability == <<"Generator", "availability">>
Inflow   == <<"Storage", "Natural Inflow">>
Outages  == <<"Battery", "Units Out">>

Portion(x, y) == (x * y) \div One
ShareOf(x, y) == (x * One) \div y

Goto(part) ==
  /\ step = part
  /\ step' = Parts[1 + CHOOSE i \in DOMAIN Parts : Parts[i] = part]

Staged(key) == key \in DOMAIN series
Holds(key, name) == Staged(key) /\ name \in DOMAIN series[key]
HasDataFile(class, name, property) == <<class, name, property>> \in model.dataFiles
Peak(values) == Max(ToSet(values))

\* collect_ts_info: the snapshots of a frame, those of all its components together.
LengthOf(frame) == Max({Len(frame[name]) : name \in DOMAIN frame})

Skipped(class, name) == [kind |-> "skipped", class |-> class, name |-> name, what |-> class]
Dropped(class, name, property) ==
  [kind |-> "dropped", class |-> class, name |-> name, what |-> property]

(* --------------------------------- tables -------------------------------- *)

Component(type, class, name, bus, capacity) ==
  [type |-> type, class |-> class, name |-> name, bus |-> bus, capacity |-> capacity]

\* Ids are unique across the document: a table counts on from the ones before it.
FirstFreeId == 1 + Cardinality(components)

Numbered(rows) == {[id |-> FirstFreeId + i - 1] @@ rows[i] : i \in DOMAIN rows}

Buses == {c.name : c \in {x \in components : x.type = "ACBus"}}

\* ts_association_row; the sink divides by the scaling factor.
Association(rows, class, name, key, length, scaling) ==
  LET owner == CHOOSE c \in rows : c.class = class /\ c.name = name
  IN  [id |-> owner.id, type |-> owner.type, component |-> name, key |-> key,
       length |-> length, scaling |-> scaling]

(* --------------------------- buses and loads ----------------------------- *)

MapBuses ==
  /\ Goto("buses")
  /\ components' = Numbered([i \in DOMAIN model.nodes |->
                               Component("ACBus", "Node", model.nodes[i], None, 0)])
  /\ UNCHANGED <<model, series, associations, companions, report, stored>>

LoadKey(owner) == <<owner.class, "Load">>

\* Demands in (0, 1] that sum to one are participation factors, not megawatts.
HasParticipationShares ==
  LET shares == {o \in ToSet(model.owners) : o.class = "Region" /\ o.load # None}
  IN  /\ Cardinality(shares) >= 2
      /\ \A o \in shares : o.load \in 1..One
      /\ MapThenSumSet(LAMBDA o : o.load, shares) = One

Demand(owner) ==
  IF owner.class = "Region" /\ HasParticipationShares THEN None ELSE owner.load

DeclaresProfile(owner) == HasDataFile(owner.class, owner.name, "Load")
FollowsProfile(owner) == DeclaresProfile(owner) /\ Holds(LoadKey(owner), owner.name)
HasLoad(owner) == Demand(owner) # None \/ FollowsProfile(owner)
Profile(owner) == series[LoadKey(owner)][owner.name]

\* A region's load goes to its one node, and to none where it has several.
BusOf(owner) ==
  IF owner.class = "Node" THEN owner.name
  ELSE LET nodes == {n \in DOMAIN model.region : model.region[n] = owner.name}
       IN  IF Cardinality(nodes) = 1 THEN CHOOSE n \in nodes : TRUE ELSE None

IsUnscalable(owner) ==
  FollowsProfile(owner) /\ Peak(Profile(owner)) = 0 /\ Min(ToSet(Profile(owner))) < 0

MaxActivePower(owner) ==
  IF FollowsProfile(owner) THEN Peak(Profile(owner))
  ELSE IF Demand(owner) = None THEN 0 ELSE Demand(owner)

MappedLoads == SelectSeq(model.owners, LAMBDA o : HasLoad(o) /\ BusOf(o) \in Buses)

\* The window of a load's association is the region loads' where there are any.
LoadLength ==
  LengthOf(series[IF Staged(<<"Region", "Load">>) THEN <<"Region", "Load">>
                                                  ELSE <<"Node", "Load">>])

LoadEvents ==
  LET owners == ToSet(model.owners)
      lost == {o \in owners : DeclaresProfile(o) /\ ~ FollowsProfile(o)}
      shares == {o \in owners : o.load # None /\ Demand(o) = None}
  IN  {Dropped(o.class, o.name, "Load") :
         o \in lost \union shares \union {x \in ToSet(MappedLoads) : IsUnscalable(x)}}
      \union {Skipped(o.class, o.name) :
                o \in {x \in owners : HasLoad(x) /\ BusOf(x) \notin Buses}}

MapLoads ==
  /\ Goto("loads")
  /\ LET rows == Numbered([i \in DOMAIN MappedLoads |->
                             LET o == MappedLoads[i]
                             IN  Component("PowerLoad", o.class, o.name, BusOf(o), MaxActivePower(o))])
         profiled == SelectSeq(MappedLoads, LAMBDA o : FollowsProfile(o) /\ ~ IsUnscalable(o))
         Scaling(o) == IF MaxActivePower(o) = 0 THEN One ELSE MaxActivePower(o)
     IN  /\ components' = components \union rows
         /\ associations' =
              [i \in DOMAIN profiled |->
                 LET o == profiled[i]
                 IN  Association(rows, o.class, o.name, LoadKey(o), LoadLength, Scaling(o))]
  /\ report' = report \union LoadEvents
  /\ UNCHANGED <<model, series, companions, stored>>

(* -------------------------------- generators ------------------------------ *)

IsTurbine(g) == g.head # None \/ g.tail # None \/ g.pump

Reads(g, property) == HasDataFile("Generator", g.name, property)
ProfileOf(g) ==
  IF Reads(g, "Rating") THEN Rating ELSE IF Reads(g, "Rating Factor") THEN Factor ELSE None

MaxCapacity(g) ==
  IF Holds(Capacity, g.name) THEN Peak(series[Capacity][g.name])
  ELSE IF g.capacity = 0 /\ Holds(Rating, g.name) THEN Peak(series[Rating][g.name])
  ELSE g.capacity

Nameplate(g) == MaxCapacity(g) * g.units
IsRatedAbove(g) == g.units # 0 /\ g.rating # None /\ g.rating > Nameplate(g)
Existing(g) == IF IsRatedAbove(g) THEN g.rating ELSE Nameplate(g)
IsCandidate(o) == o.built > 0

PNom(g) ==
  IF Existing(g) # 0 \/ ~ IsCandidate(g) THEN Existing(g) ELSE MaxCapacity(g) * g.built
RatedUnits(g) == IF Existing(g) # 0 THEN g.units ELSE g.built

RatingDerate(g) ==
  IF IsRatedAbove(g) THEN One
  ELSE IF g.rating # None THEN Min({ShareOf(g.rating, PNom(g)), One})
  ELSE IF g.factor # None THEN g.factor ELSE One

\* The p_max_pu a generator states; a profile takes the place of its static rating.
StaticShare(g) ==
  IF ProfileOf(g) = None THEN Portion(g.outage, RatingDerate(g)) ELSE g.outage
Scale(g) == IF ProfileOf(g) = Rating THEN ShareOf(g.outage, PNom(g)) ELSE g.outage

Unreadable(g) ==
  \/ g.node \notin Buses
  \/ Reads(g, "Max Capacity")
  \/ g.units = 0 /\ ~ IsCandidate(g)
  \/ PNom(g) <= 0
  \/ Existing(g) = 0 /\ g.blocked

HasInfeasibleRange(g) == ProfileOf(g) = None /\ g.minimum > StaticShare(g)

\* A carrier of another Sienna type leaves its generator out without a word.
IsSkipped(g) ==
  \/ Unreadable(g)
  \/ g.carrier \notin DOMAIN TypeOf
  \/ TypeOf[g.carrier] \in GeneratorTypes /\ HasInfeasibleRange(g)

\* A faulty variant maps a storage turbine as a generator as well.
MappedWithTurbines ==
  SelectSeq(model.generators,
            LAMBDA g : ~ IsSkipped(g) /\ TypeOf[g.carrier] \in GeneratorTypes)

MappedGenerators ==
  SelectSeq(model.generators,
            LAMBDA g : ~ IsTurbine(g) /\ ~ IsSkipped(g) /\ TypeOf[g.carrier] \in GeneratorTypes)

FollowsASeries(g) == Staged(ProfileOf(g)) \/ Holds(UnitsOut, g.name)

\* A faulty variant rates a renewable that follows a series at its static share of its capacity.
RatedAtItsShare(g) == Portion(StaticShare(g), PNom(g))

\* The capacity that turns the owner's per-unit series into megawatts.
SeriesCapacity(g) ==
  IF TypeOf[g.carrier] = "RenewableDispatch" /\ FollowsASeries(g) THEN PNom(g)
  ELSE Portion(StaticShare(g), PNom(g))

\* What the model states of a generator over the snapshots, per unit of its capacity.
AvailabilityParts(g) ==
  LET Of(key, Share(_)) ==
        IF Holds(key, g.name)
        THEN [i \in DOMAIN series[key][g.name] |-> Share(series[key][g.name][i])] ELSE << >>
      profile == Of(ProfileOf(g), LAMBDA v : Portion(v, Scale(g)))
      outage  == IF g.units = 0 THEN << >> ELSE Of(UnitsOut, LAMBDA v : One - v \div g.units)
      dated   == Of(Capacity, LAMBDA v : ShareOf(v * RatedUnits(g), PNom(g)))
  IN  SelectSeq(<<profile, outage, dated>>, LAMBDA part : part # << >>)

\* The parts multiply, over the snapshots of the first; another that stops short counts as one.
Multiplied(parts) ==
  [i \in DOMAIN Head(parts) |->
     FoldLeft(LAMBDA share, part : Portion(share, IF i \in DOMAIN part THEN part[i] ELSE One),
              One, parts)]

SeriesKey(g) ==
  IF AvailabilityParts(g) = << >> THEN None
  ELSE IF Staged(ProfileOf(g)) THEN ProfileOf(g) ELSE Availability

StageAvailability(mapped) ==
  LET built == {g \in ToSet(mapped) : AvailabilityParts(g) # << >>}
  IN  IF built = {} THEN series
      ELSE (Availability :> [n \in {g.name : g \in built} |->
              Multiplied(AvailabilityParts(CHOOSE g \in built : g.name = n))]) @@ series

GeneratorEvents ==
  {Skipped("Generator", g.name) :
     g \in {x \in ToSet(model.generators) : ~ IsTurbine(x) /\ IsSkipped(x)}}
  \union {Dropped("Generator", g.name, ProfileOf(g)[2]) :
     g \in {x \in ToSet(MappedGenerators) : ProfileOf(x) # None /\ ~ Staged(ProfileOf(x))}}

\* The window of the associations is that of the first frame, the profiles' before the rest.
GeneratorLength(following, staged) ==
  LET profiled == SelectSeq(following, LAMBDA g : SeriesKey(g) # Availability)
  IN  LengthOf(staged[IF profiled = << >> THEN Availability ELSE SeriesKey(Head(profiled))])

MapGenerators ==
  /\ Goto("generators")
  /\ LET mapped == MappedGenerators
         rows == Numbered([i \in DOMAIN mapped |->
                             Component(TypeOf[mapped[i].carrier], "Generator", mapped[i].name,
                                       mapped[i].node, SeriesCapacity(mapped[i]))])
         following == SelectSeq(mapped, LAMBDA g : SeriesKey(g) # None)
         Factored(g) == IF SeriesKey(g) = Availability THEN One ELSE Scale(g)
         Scaling(g) == IF Factored(g) = 0 THEN One ELSE ShareOf(One, Factored(g))
     IN  /\ components' = components \union rows
         /\ series' = StageAvailability(mapped)
         /\ associations' = associations \o
              [i \in DOMAIN following |->
                 LET g == following[i]
                 IN  Association(rows, "Generator", g.name, SeriesKey(g),
                                 GeneratorLength(following, series'), Scaling(g))]
  /\ report' = report \union GeneratorEvents
  /\ UNCHANGED <<model, companions, stored>>

(* ------------------------- transmission and storage ----------------------- *)

JoinsBuses(line) == {line.from, line.to} \subseteq Buses
TypeOfLine(line) == IF line.electrical THEN "Line" ELSE "TwoTerminalGenericHVDCLine"

MappedLines == SelectSeq(model.lines, JoinsBuses)

MapTransmission ==
  /\ Goto("transmission")
  /\ components' = components \union
       Numbered([i \in DOMAIN MappedLines |->
          Component(TypeOfLine(MappedLines[i]), "Line", MappedLines[i].name, None, 0)])
  /\ report' = report \union
       {Skipped("Line", l.name) : l \in ToSet(model.lines) \ ToSet(MappedLines)}
  /\ UNCHANGED <<model, series, associations, companions, stored>>

StoragePower(o) ==
  IF o.capacity * o.units = 0 THEN o.capacity * o.built ELSE o.capacity * o.units

\* rate_object
IsRated(o, class, property) ==
  /\ o.node # None
  /\ ~ HasDataFile(class, o.name, property)
  /\ ~ (o.capacity * o.units = 0 /\ IsCandidate(o) /\ o.blocked)
  /\ StoragePower(o) > 0

Turbines == SelectSeq(model.generators, IsTurbine)
HasReservoirOrPump(turbine) == turbine.head # None \/ turbine.pump
IsHydro(turbine) == turbine.tail = None /\ ~ turbine.pump

MappedBatteries == SelectSeq(model.batteries, LAMBDA b : IsRated(b, "Battery", "Max Power"))
MappedTurbines ==
  SelectSeq(Turbines, LAMBDA t : HasReservoirOrPump(t) /\ IsRated(t, "Generator", "Max Capacity"))

FedStorages == {t.head : t \in ToSet(Turbines)} \union {t.tail : t \in ToSet(Turbines)}

StorageEvents ==
  {Skipped("Battery", b.name) : b \in ToSet(model.batteries) \ ToSet(MappedBatteries)}
  \union {Skipped("Generator", t.name) : t \in ToSet(Turbines) \ ToSet(MappedTurbines)}
  \union {Skipped("Storage", s.name) : s \in {x \in ToSet(model.storages) : x.name \notin FedStorages}}

InflowIsPower(name) == ~ \E s \in ToSet(model.storages) : s.name = name /\ s.inOtherUnits

StorageSeries ==
  {[name |-> t.name, column |-> "inflow", values |-> series[Inflow][t.head]] :
     t \in {x \in ToSet(MappedTurbines) : InflowIsPower(x.head) /\ Holds(Inflow, x.head)}}
  \union
  {[name |-> b.name, column |-> "rating",
    values |-> [i \in DOMAIN series[Outages][b.name] |-> One - series[Outages][b.name][i] \div b.units]] :
     b \in {x \in ToSet(MappedBatteries) : x.units # 0 /\ Holds(Outages, x.name)}}

\* Every storage has a target: its carrier is the translator's own name for its kind, and
\* CarrierTargets gives each kind one where the mappings file gives none (_carriers.py:72).
MapStorage ==
  /\ Goto("storage")
  /\ LET batteries == [i \in DOMAIN MappedBatteries |->
              Component("EnergyReservoirStorage", "Battery", MappedBatteries[i].name,
                        MappedBatteries[i].node, 0)]
         turbines == [i \in DOMAIN MappedTurbines |->
              Component(IF IsHydro(MappedTurbines[i]) THEN "HydroDispatch" ELSE "EnergyReservoirStorage",
                        "Generator", MappedTurbines[i].name, MappedTurbines[i].node, 0)]
     IN  components' = components \union Numbered(batteries \o turbines)
  /\ companions' = StorageSeries
  /\ report' = report \union StorageEvents
  /\ UNCHANGED <<model, series, associations, stored>>

(* ----------------------- window, relations and store ---------------------- *)

\* A faulty variant takes the length an association states for what a component holds.
ValuesStated(a) == a.length

ValuesHeld(a) == IF Holds(a.key, a.component) THEN Len(series[a.key][a.component]) ELSE 0
Window == Head(associations).length

\* An association goes by its component's name alone, whichever class it is of.
DropProfilesOffTheWindow ==
  /\ Goto("window")
  /\ LET off == {a \in ToSet(associations) : ValuesHeld(a) # Window}
     IN  /\ associations' =
              SelectSeq(associations, LAMBDA a : a.component \notin {b.component : b \in off})
         /\ report' = report \union {Dropped(a.key[1], a.component, a.key[2]) : a \in off}
  /\ UNCHANGED <<model, series, components, companions, stored>>

\* A bus whose node is in no Region is in the area of the empty name.
AreaOf(bus) == IF bus \in DOMAIN model.region THEN model.region[bus] ELSE ""
ArcOf(line) == line.from \o "->" \o line.to

\* sienna_relate_components: an area for each area of a bus, an arc for each pair of ends.
RelateComponents ==
  /\ Goto("relate")
  /\ LET areas == SetToSeq({AreaOf(b) : b \in Buses})
         arcs == SetToSeq({ArcOf(l) : l \in ToSet(MappedLines)})
     IN  components' = components \union
           Numbered([i \in DOMAIN areas |-> Component("Area", "Region", areas[i], None, 0)]
                    \o [i \in DOMAIN arcs |-> Component("Arc", "Line", arcs[i], None, 0)])
  /\ UNCHANGED <<model, series, associations, companions, report, stored>>

IsOwner(c, a) == c.id = a.id /\ c.type = a.type

Megawatts(a) ==
  LET capacity == (CHOOSE c \in components : IsOwner(c, a)).capacity
      values == series[a.key][a.component]
  IN  [id |-> a.id, values |-> [i \in DOMAIN values |-> (values[i] * capacity) \div a.scaling]]

\* build_capacity_by_owner, _add_series: an owner that has left its table fails the sink.
StoreSeries ==
  /\ step = "store"
  /\ IF \A a \in ToSet(associations) : \E c \in components : IsOwner(c, a)
     THEN Goto("store") /\ stored' = {Megawatts(a) : a \in ToSet(associations)}
     ELSE step' = "failed" /\ UNCHANGED stored
  /\ UNCHANGED <<model, series, components, associations, companions, report>>

Finished == step \in {"written", "failed"} /\ UNCHANGED vars

Init ==
  /\ step = "buses"
  /\ model \in Models
  /\ series = model.series
  /\ components = {} /\ associations = << >> /\ companions = {} /\ report = {} /\ stored = {}

Next ==
  \/ MapBuses \/ MapLoads \/ MapGenerators \/ MapTransmission \/ MapStorage
  \/ DropProfilesOffTheWindow \/ RelateComponents \/ StoreSeries \/ Finished

Spec == Init /\ [][Next]_vars

-----------------------------------------------------------------------------
(* Properties of the tables and series a finished run has written          *)

\* A node is a bus, and may be a load as well; a region is an area, and may be a load.
Rows(class, name) ==
  {c \in components : c.type \notin {"ACBus", "Area", "Arc"} /\ c.class = class /\ c.name = name}
IsMapped(class, name) == Rows(class, name) # {}
OneOf(p, q) == p # q

\* An object with a home becomes one component, with an id no other has, at buses there
\* are; one without is reported; a generator of another Sienna type alone is neither, and
\* what feeds or drives a storage is never a generator as well (map_components.py).
EveryObjectHasOneFate ==
  step = "relate" =>
    /\ {c.id : c \in components} = 1..Cardinality(components)
    /\ \A c \in components : Cardinality(Rows(c.class, c.name)) <= 1
    /\ \A g \in ToSet(model.generators) :
         IF ~ IsTurbine(g) /\ ~ IsSkipped(g) /\ TypeOf[g.carrier] \notin GeneratorTypes
         THEN ~ IsMapped("Generator", g.name) /\ Skipped("Generator", g.name) \notin report
         ELSE OneOf(IsMapped("Generator", g.name), Skipped("Generator", g.name) \in report)
    /\ \A b \in ToSet(model.batteries) :
         OneOf(IsMapped("Battery", b.name), Skipped("Battery", b.name) \in report)
    /\ \A l \in ToSet(model.lines) :
         OneOf(IsMapped("Line", l.name), Skipped("Line", l.name) \in report)
    /\ \A s \in ToSet(model.storages) :
         OneOf(\E t \in ToSet(Turbines) : s.name \in {t.head, t.tail}, Skipped("Storage", s.name) \in report)
    /\ \A o \in {x \in ToSet(model.owners) : x.load # None} :
         \/ IsMapped(o.class, o.name)
         \/ {Skipped(o.class, o.name), Dropped(o.class, o.name, "Load")} \cap report # {}

ValuesOf(class, name) ==
  {s.values : s \in {x \in stored : \E c \in Rows(class, name) : c.id = x.id}}

ProfileOwners ==
  {<<LoadKey(o), o.name>> : o \in {x \in ToSet(model.owners) : FollowsProfile(x)}}
  \union {<<ProfileOf(g), g.name>> : g \in {x \in ToSet(MappedGenerators) : Holds(ProfileOf(x), x.name)}}

\* The profile of a component there is is stored once, over the window every other is
\* stored over, or is reported; one lost unreported shares its owner's name with one
\* reported.  A series beside the storage records is a storage's
\* (drop_profiles_off_the_window, build_load_ts_associations, build_storage_series).
EveryProfileHasOneFate ==
  /\ step = "relate" =>
       \A s \in companions :
         \E c \in components : c.name = s.name /\ c.type \in {"HydroDispatch", "EnergyReservoirStorage"}
  /\ step = "written" =>
    /\ \A s, t \in stored : Len(s.values) = Len(t.values) /\ (s.id = t.id => s = t)
    /\ \A p \in ProfileOwners :
         LET reported == Dropped(p[1][1], p[2], p[1][2]) \in report
             isStored == ValuesOf(p[1][1], p[2]) # {}
         IN  IsMapped(p[1][1], p[2]) =>
               \/ OneOf(reported, isStored)
               \/ \E e \in report : e.kind = "dropped" /\ e.name = p[2] /\ e.class # p[1][1]

\* Neither an object nor a profile of one is lost without a word: what is mapped is decided
\* object by object, and what profile it keeps once the buses and the window are known.
NothingIsLostInSilence == EveryObjectHasOneFate /\ EveryProfileHasOneFate

ValueAt(key, name, i, Share(_)) ==
  IF Holds(key, name) /\ i \in DOMAIN series[key][name] THEN Share(series[key][name][i]) ELSE One

\* A profile or else the static rating, the outage derate, the units out and the dated
\* capacity, each a share of the capacity, and all of them multiply
\* (docs/translation_mappings/translation-from-plexos-to-sienna.md:438-454).
StatedMegawatts(g, i) ==
  LET profile == IF ProfileOf(g) = None THEN RatingDerate(g)
                 ELSE ValueAt(ProfileOf(g), g.name, i,
                              LAMBDA v : IF ProfileOf(g) = Rating THEN ShareOf(v, PNom(g)) ELSE v)
      running == IF g.units = 0 THEN One ELSE ValueAt(UnitsOut, g.name, i, LAMBDA v : One - v \div g.units)
      dated   == ValueAt(Capacity, g.name, i, LAMBDA v : ShareOf(v * RatedUnits(g), PNom(g)))
  IN  FoldLeft(Portion, PNom(g), <<profile, g.outage, running, dated>>)

\* The same document, :252-255: a profile divided by its peak, times the limit.
ShapeTimesLimit(g, i) ==
  LET profile == series[ProfileOf(g)][g.name]
  IN  (profile[i] * Portion(g.outage, PNom(g))) \div Peak(profile)

\* The two are one where a profile peaks at the capacity.  Of a profile that peaks below it
\* or above it :252-255 does not say what the code does: the code divides by no peak
\* (_generators.py:399), and stores the megawatts the model states.
PeaksAtTheCapacity(g) ==
  /\ Holds(ProfileOf(g), g.name)
  /\ Peak(series[ProfileOf(g)][g.name]) = IF ProfileOf(g) = Rating THEN PNom(g) ELSE One

StoresStatedMegawatts(g) ==
  \A values \in ValuesOf("Generator", g.name) :
    \A i \in DOMAIN values :
      /\ values[i] = StatedMegawatts(g, i)
      /\ PeaksAtTheCapacity(g) => values[i] = ShapeTimesLimit(g, i)

\* A thermal plant with a profile has its outage derate in the limit and in the scaling.
HoldsTheOutageTwice(g) ==
  Holds(ProfileOf(g), g.name) /\ TypeOf[g.carrier] = "ThermalStandard" /\ g.outage # One
\* A plant with a profile keeps that series, without the units out and the dated capacity.
LosesADerateInSeries(g) == Holds(ProfileOf(g), g.name) /\ Len(AvailabilityParts(g)) > 1
\* A renewable that follows its units out alone has its static derates in no capacity.
LosesItsStaticDerate(g) ==
  /\ ~ Holds(ProfileOf(g), g.name) /\ Holds(UnitsOut, g.name)
  /\ TypeOf[g.carrier] # "ThermalStandard" /\ StaticShare(g) # One
\* An outage of the whole plant leaves a profile as it is.
IsScaledByNothing(g) == Holds(ProfileOf(g), g.name) /\ g.outage = 0

\* Four ways in which derates do not multiply, against :450: each is a case left out.
SharesADerate(g) ==
  HoldsTheOutageTwice(g) \/ LosesADerateInSeries(g) \/ LosesItsStaticDerate(g) \/ IsScaledByNothing(g)

\* A stored load is the profile PLEXOS states, and a stored availability is the product of
\* what the model states of the generator, in megawatts, wherever the series and the
\* capacity it scales share no derate (emit_sienna_h5_sidecar.py, _generators.py); and where
\* its profile peaks at the capacity, that is the shape times the limit of the documentation.
StoredSeriesAreTheStatedMegawatts ==
  step = "written" =>
    /\ \A o \in ToSet(model.owners) :
         \A values \in ValuesOf(o.class, o.name) : values = Profile(o)
    /\ \A g \in ToSet(MappedGenerators) : SharesADerate(g) \/ StoresStatedMegawatts(g)

=============================================================================
