---------------------------- MODULE PypsaToSienna ----------------------------
(***************************************************************************)
(* The pypsa-to-sienna leg, from the network its source staged to the      *)
(* document its sink writes: the two blocking validators, the step that    *)
(* maps the components class by class, the step that derives areas and     *)
(* arcs from the tables the first one wrote, and the sink that turns names *)
(* into ids and per-unit profiles into megawatts.  Every class counts its  *)
(* ids on from the tables written before it, and refers to the others by   *)
(* name, so each part is right only if the parts before it were.           *)
(*                                                                         *)
(* The network may come from a hop that added a load-shedding generator at *)
(* every bus and put the price of it in the sidecar (AddLoadShedding).     *)
(* Power is in whole MW and per-unit values in 1/One; an array a sink      *)
(* stores is a sequence of fractions <<numerator, denominator>>.           *)
(***************************************************************************)
EXTENDS Null, Integers, Sequences, FiniteSets, SequencesExt, TLC

CONSTANTS
  Networks,     \* the PyPSA networks a run may start from
  TypeOf,       \* the carrier mappings file: carrier -> Sienna type
  Voll,         \* what PLEXOS Regions state a shortfall costs: area -> price
  DefaultVoll,  \* the price where a Region states none
  One           \* a per-unit value of 1.0

VARIABLES
  step,          \* the part of the leg that runs next
  network,       \* source_topology and source_time_series as staged
  prices,        \* value_of_lost_load of the staged bus records, by bus
  tables,        \* destination_tables: Sienna type -> rows
  scope,         \* the rows of the carrier group being mapped
  skips,         \* COMPONENT_SKIPPED events, and LOADs whose series is left out
  series,        \* source_time_series, and the series the leg derives
  associations,  \* the TIME_SERIES_ASSOCIATION table
  records,       \* destination_extensions: the kind and name of each record
  document       \* what the sink has resolved and written

vars == <<step, network, prices, tables, scope, skips, series, associations,
          records, document>>

GeneratorTypes == {"ThermalStandard", "RenewableDispatch", "RenewableNonDispatch"}
StorageTypes == {"HydroDispatch", "EnergyReservoirStorage"}
LoadTypes == {"PowerLoad", "InterruptiblePowerLoad"}
BranchTypes == {"Line", "TwoTerminalGenericHVDCLine"}
Classes == {"buses", "loads", "generators", "storage_units", "lines", "links"}

\* The parts of the leg, in the order the pipeline and the steps run them.
Parts == <<"stage", "validate", "buses", "prices", "loads", "generators",
           "ThermalStandard", "RenewableDispatch", "RenewableNonDispatch",
           "storage_units", "HydroDispatch", "EnergyReservoirStorage", "lines",
           "links", "areas", "arcs", "resolve", "store", "written">>

Goto(part) ==
  /\ step = part
  /\ step' = Parts[1 + CHOOSE i \in DOMAIN Parts : Parts[i] = part]

Names(rows) == {rows[i].name : i \in DOMAIN rows}
Row(rows, name) == CHOOSE r \in ToSet(rows) : r.name = name
Has(key, name) == key \in DOMAIN series /\ name \in DOMAIN series[key]
Peak(values) == Max(ToSet(values))
Lowest(values) == Min(ToSet(values))
TableOf(type) == IF type \in DOMAIN tables THEN tables[type] ELSE <<>>
Put(type, rows) == tables' = [t \in DOMAIN tables \cup {type} |-> IF t = type THEN rows ELSE tables[t]]

\* What a rule says of a row it drops.
Reasons ==
  {"not AC", "load shedding", "unnamed carrier", "unsupported", "bus scope", "unbuilt candidate",
   "rejected build", "no inflow", "no capacity", "no efficiency", "no energy", "dynamic rating",
   "link scope"}

PSet == <<"loads", "p_set">>
PMaxPu == <<"generators", "p_max_pu">>
Inflow == <<"storage_units", "inflow">>
HydroMax == <<"storage_units", "_hydro_max_active_power">>
Quantities == {PSet, PMaxPu, Inflow}

IsProfile(values) == values \in Seq(Int) /\ values # <<>>
IsNumber(x) == x = None \/ x \in Int

\* What a run starts from: tables of rows, and no branch where there is no bus at all.
IsNetwork(n) ==
  /\ Classes \subseteq DOMAIN n
  /\ \A class \in Classes : n[class] \in Seq(ToSet(n[class]))
  /\ n.buses = <<>> => n.lines = <<>> /\ n.links = <<>>

\* The numbers the leg reads of its rows are numbers.
HasNumbers(n) ==
  /\ \A r \in ToSet(n.loads) : r.pset \in Int
  /\ \A r \in ToSet(n.generators) \cup ToSet(n.storage_units) :
       IsNumber(r.opt) /\ {r.nom, r.min, r.pmax} \subseteq Int
  /\ \A r \in ToSet(n.storage_units) : r.efficiency \in Int

\* And so are those of its series, of at least one snapshot each.
HasProfiles(all) ==
  \A key \in Quantities \cap DOMAIN all : \A name \in DOMAIN all[key] : IsProfile(all[key][name])

\* A p_max_pu that peaks at zero is zero throughout, as the code that divides by peaks says.
ZeroPeaksAreFlat(all) ==
  PMaxPu \in DOMAIN all => \A name \in DOMAIN all[PMaxPu] :
    Peak(all[PMaxPu][name]) = 0 => Lowest(all[PMaxPu][name]) = 0

ASSUME NetworksAssumption == \A n \in Networks : IsNetwork(n) /\ HasNumbers(n)
ASSUME SeriesAssumption == \A n \in Networks : HasProfiles(n.series) /\ ZeroPeaksAreFlat(n.series)
ASSUME NullAssumption == None \notin Reasons
ASSUME OneAssumption == One \in Nat \ {0}

-----------------------------------------------------------------------------
(* Ids and drops                                                           *)

\* A faulty variant starts every table from 1.
FirstFreeIdOfTheTable == 1

\* The places of some tables, as many as the tables are high in all.
PlacesOf(some) == UNION {{t} \X DOMAIN some[t] : t \in DOMAIN some}

\* The id after every id the component tables already hold.
FirstFreeId == 1 + Cardinality(PlacesOf(tables))

\* Rows numbered on from the first free id.
Numbered(rows, Made(_, _)) == [i \in DOMAIN rows |-> Made(rows[i], FirstFreeId + i - 1)]

\* The rows of a table that are among some, in their order.
Selected(rows, some) ==
  LET places == {i \in DOMAIN rows : rows[i] \in some}
  IN  [k \in 1 .. Cardinality(places) |->
         rows[CHOOSE i \in places : Cardinality({j \in places : j <= i}) = k]]

\* The first rule that drops a row, or None.  A rule is a reason and the rows it drops.
Verdict(rules, row) ==
  LET hits == {i \in DOMAIN rules : row \in rules[i].drops}
  IN  IF hits = {} THEN None ELSE rules[Min(hits)].why

Kept(rules, rows) == Selected(rows, {r \in ToSet(rows) : Verdict(rules, r) = None})

\* One COMPONENT_SKIPPED event for each row a rule drops.
Skipped(class, rules, rows) ==
  LET gone == Selected(rows, {r \in ToSet(rows) : Verdict(rules, r) # None})
  IN  [i \in DOMAIN gone |-> [class |-> class, name |-> gone[i].name, why |-> Verdict(rules, gone[i])]]

Rule(why, drops) == [why |-> why, drops |-> drops]

-----------------------------------------------------------------------------
(* The capacity a component is rated from                                  *)

HasSolvedCapacity(r) == r.extendable /\ r.opt # None
CapacityFloor(r) == Min({r.min, r.nom})
HasCapacityFloor(r) == r.extendable /\ CapacityFloor(r) > 0
StatesBuiltCapacity(r) == ~r.extendable \/ HasSolvedCapacity(r) \/ HasCapacityFloor(r)

\* A generator, storage unit or link rated from p_nom_opt, its floor or p_nom.
EffectivePNom(r) ==
  CASE HasSolvedCapacity(r) -> r.opt
    [] ~HasSolvedCapacity(r) /\ HasCapacityFloor(r) -> CapacityFloor(r)
    [] OTHER -> r.nom

\* What no plan has built: candidates nobody decided on, and builds a solve refused.
UnbuiltCandidates(rows) == {r \in ToSet(rows) : ~StatesBuiltCapacity(r)}
RejectedBuilds(rows) == {r \in ToSet(rows) : r.extendable /\ EffectivePNom(r) <= 0}

-----------------------------------------------------------------------------
(* The hop before, staging and validation                                  *)

NoRows == [t \in {} |-> <<>>]

Init ==
  /\ network \in Networks
  /\ step = "stage"
  /\ prices = [b \in {} |-> 0]
  /\ tables = NoRows
  /\ scope = <<>>
  /\ skips = <<>>
  /\ series = network.series
  /\ associations = <<>>
  /\ records = {}
  /\ document = [components |-> {}, arrays |-> {}]

SheddingAt(bus) ==
  [name |-> bus.shedding, bus |-> bus.name, carrier |-> "load_shedding", extendable |-> FALSE,
   opt |-> None, nom |-> 1, min |-> 0, pmax |-> One]

\* The network comes from a hop that adds a generator at every bus and the price
\* of it to the bus's record; every bus such a hop writes is an AC one.
AddLoadShedding ==
  /\ Goto("stage")
  /\ network.buses # <<>>
  /\ \A b \in ToSet(network.buses) : b.carrier = "AC"
  /\ network' = [network EXCEPT !.generators = @ \o
       [i \in DOMAIN network.buses |-> SheddingAt(network.buses[i])]]
  /\ prices' = [b \in Names(network.buses) |->
       LET area == Row(network.buses, b).area
       IN  IF area \in DOMAIN Voll THEN Voll[area] ELSE DefaultVoll]
  /\ UNCHANGED <<tables, scope, skips, series, associations, records, document>>

\* The network is a user's own and comes without a sidecar.
StageAsItIs ==
  /\ Goto("stage")
  /\ UNCHANGED <<network, prices, tables, scope, skips, series, associations, records, document>>

BusesOf(class, r) == IF class \in {"lines", "links"} THEN {r.bus0, r.bus1} ELSE {r.bus}

\* The classes with a component at a bus the network does not define.
DanglingReferences ==
  {class \in Classes \ {"buses"} :
     /\ network.buses # <<>>
     /\ \E r \in ToSet(network[class]) : ~(BusesOf(class, r) \subseteq Names(network.buses))}

SharedNames == {class \in Classes : Cardinality(Names(network[class])) # Len(network[class])}

\* A CRITICAL finding stops the run before its first step.
ValidateTheNetwork ==
  /\ step = "validate"
  /\ IF DanglingReferences = {} /\ SharedNames = {} THEN Goto("validate") ELSE step' = "refused"
  /\ UNCHANGED <<network, prices, tables, scope, skips, series, associations, records, document>>

-----------------------------------------------------------------------------
(* Buses, prices and loads                                                 *)

AcBus(r, id) == [id |-> id, name |-> r.name, area |-> r.area]

NotAc(rows) == {r \in ToSet(rows) : r.carrier # "AC"}
AcBusNames == Names(TableOf("ACBus"))
OffTheAcBuses(rows) == {r \in ToSet(rows) : r.bus \notin AcBusNames}

MapBuses ==
  /\ Goto("buses")
  /\ LET rules == <<Rule("not AC", NotAc(network.buses))>>
         kept == Kept(rules, network.buses)
     IN  IF network.buses = <<>> THEN UNCHANGED <<tables, skips, records>> ELSE
           /\ Put("ACBus", Numbered(kept, AcBus))
           /\ skips' = skips \o Skipped("buses", rules, network.buses)
           /\ records' = {<<"BUS", n>> : n \in Names(kept)}
  /\ UNCHANGED <<network, prices, scope, series, associations, document>>

\* The price of a shortfall at each mapped bus whose record states one.
VollByBus == [b \in AcBusNames \cap DOMAIN prices |-> prices[b]]

\* What is left of the sidecar once the mapped buses' records are read.
ReadPrices ==
  /\ Goto("prices")
  /\ prices' = VollByBus
  /\ UNCHANGED <<network, tables, scope, skips, series, associations, records, document>>

LoadPeak(r) == IF Has(PSet, r.name) THEN Peak(series[PSet][r.name]) ELSE r.pset
IsUnscalable(r) == /\ Has(PSet, r.name)
                   /\ Peak(series[PSet][r.name]) = 0
                   /\ Lowest(series[PSet][r.name]) < 0

IsInterruptible(r) == r.bus \in DOMAIN prices

PowerLoadRow(r, id) ==
  [id |-> id, name |-> r.name, bus |-> r.bus, capacity |-> <<LoadPeak(r), 1>>,
   cost |-> IF IsInterruptible(r) THEN prices[r.bus] ELSE None]

Association(type, row, name, key, scale) ==
  [type |-> type, owner |-> row.id, component |-> row.name, name |-> name, key |-> key, scale |-> scale]

\* One row per load with a series its peak can scale back.
LoadAssociations(type, kept, out) ==
  LET profiled == Selected(kept, {r \in ToSet(kept) : Has(PSet, r.name) /\ ~IsUnscalable(r)})
  IN  [i \in DOMAIN profiled |->
         Association(type, Row(out, profiled[i].name), "max_active_power", PSet,
                     IF LoadPeak(profiled[i]) = 0 THEN <<1, 1>> ELSE <<LoadPeak(profiled[i]), 1>>)]

\* The loads as two types; a type with no load gets no table.
MapLoads ==
  /\ Goto("loads")
  /\ LET rules == <<Rule("bus scope", OffTheAcBuses(network.loads))>>
         kept == Kept(rules, network.loads)
         plain == Selected(kept, {r \in ToSet(kept) : ~IsInterruptible(r)})
         priced == Selected(kept, {r \in ToSet(kept) : IsInterruptible(r)})
         unscalable == Selected(kept, {r \in ToSet(kept) : IsUnscalable(r)})
         plainRows == Numbered(plain, PowerLoadRow)
         pricedRows == [i \in DOMAIN priced |->
                          PowerLoadRow(priced[i], FirstFreeId + Len(plain) + i - 1)]
         some == {t \in LoadTypes : (IF t = "PowerLoad" THEN plain ELSE priced) # <<>>}
     IN  /\ tables' = [t \in DOMAIN tables \cup some |->
                         CASE t = "PowerLoad" -> plainRows
                           [] t = "InterruptiblePowerLoad" -> pricedRows
                           [] OTHER -> tables[t]]
         /\ skips' = skips \o Skipped("loads", rules, network.loads)
              \o [i \in DOMAIN unscalable |->
                    [class |-> "p_set", name |-> unscalable[i].name, why |-> "unscalable"]]
         /\ associations' = associations \o LoadAssociations("PowerLoad", plain, plainRows)
              \o LoadAssociations("InterruptiblePowerLoad", priced, pricedRows)
         /\ records' = records \cup {<<"LOAD", n>> : n \in Names(kept)}
  /\ UNCHANGED <<network, prices, scope, series, document>>

-----------------------------------------------------------------------------
(* Generators and storage units                                            *)

TypesOf(class) == IF class = "generators" THEN GeneratorTypes ELSE StorageTypes

\* The shedding generators an earlier hop added at a priced bus.
OwnRows(rows) == {r \in ToSet(rows) : r.carrier = "load_shedding" /\ r.bus \in DOMAIN prices}

\* A faulty variant takes a generator to translate if it could be any plant at all.
UnsupportedByAny(class, rows) ==
  {r \in ToSet(rows) : r.carrier \in DOMAIN TypeOf
                        /\ TypeOf[r.carrier] \notin GeneratorTypes \cup StorageTypes}

\* The rows whose carrier the mappings file sends to a type of another source table.
Unsupported(class, rows) ==
  {r \in ToSet(rows) : r.carrier \in DOMAIN TypeOf /\ TypeOf[r.carrier] \notin TypesOf(class)}

\* The drops a whole source table shares, in the order they apply.
ScopeRules(class, rows) ==
  (IF class = "generators" THEN <<Rule("load shedding", OwnRows(rows))>> ELSE <<>>) \o
  <<Rule("unnamed carrier", {r \in ToSet(rows) : r.carrier \notin DOMAIN TypeOf}),
    Rule("unsupported", Unsupported(class, rows)),
    Rule("bus scope", OffTheAcBuses(rows)),
    Rule("unbuilt candidate", UnbuiltCandidates(rows)),
    Rule("rejected build", RejectedBuilds(rows))>>

\* A faulty variant rates a generator by its static p_max_pu.
StaticCeiling(r) == r.pmax

\* p_max_pu at its peak where the generator has a series of it.
Ceiling(r) == IF Has(PMaxPu, r.name) THEN Peak(series[PMaxPu][r.name]) ELSE r.pmax

SeriesPeak(r) == Peak(series[PMaxPu][r.name])

\* The drops one mapping has of its own.
MappingRules(type, rows) ==
  CASE type = "HydroDispatch" ->
         <<Rule("no inflow", {r \in ToSet(rows) : ~Has(Inflow, r.name)}),
           Rule("no capacity", {r \in ToSet(rows) : EffectivePNom(r) <= 0}),
           Rule("no efficiency", {r \in ToSet(rows) : r.efficiency <= 0})>>
    [] type = "EnergyReservoirStorage" ->
         <<Rule("no energy", {r \in ToSet(rows) : r.hours <= 0})>>
    [] OTHER -> <<>>

\* The megawatts a per-unit value of the component's series stands for.
Rating(type, r) ==
  IF type \in GeneratorTypes THEN <<EffectivePNom(r) * Ceiling(r), One>> ELSE <<EffectivePNom(r), 1>>

\* A thermal plant has every series, a renewable one only a series that varies.
IsForecast(type, r) ==
  /\ Has(PMaxPu, r.name)
  /\ type # "ThermalStandard" => SeriesPeak(r) # Lowest(series[PMaxPu][r.name])

PlantAssociations(type, kept, out) ==
  LET forecast == Selected(kept, {r \in ToSet(kept) : IsForecast(type, r)})
  IN  [i \in DOMAIN forecast |->
         Association(type, Row(out, forecast[i].name), "max_active_power", PMaxPu,
                     IF SeriesPeak(forecast[i]) = 0 THEN <<1, 1>> ELSE <<SeriesPeak(forecast[i]), One>>)]

HydroAssociations(kept, out) ==
  [i \in DOMAIN kept |->
     Association("HydroDispatch", Row(out, kept[i].name), "max_active_power", HydroMax, <<1, 1>>)] \o
  [i \in DOMAIN kept |->
     Association("HydroDispatch", Row(out, kept[i].name), "hydro_budget", Inflow,
                 <<EffectivePNom(kept[i]) * One, kept[i].efficiency>>)]

AssociationsOf(type, kept, out) ==
  CASE type \in GeneratorTypes -> PlantAssociations(type, kept, out)
    [] type = "HydroDispatch" -> HydroAssociations(kept, out)
    [] OTHER -> <<>>

\* The flat series of p_max_pu over the snapshots of the inflow, for the units kept.
DerivedSeries(kept) ==
  [n \in Names(kept) |-> [i \in DOMAIN series[Inflow][n] |-> Row(kept, n).pmax]]

WithCeilings(kept) ==
  [key \in DOMAIN series \cup {HydroMax} |-> IF key = HydroMax THEN DerivedSeries(kept) ELSE series[key]]

RecordKind(type) ==
  CASE type \in GeneratorTypes -> {"GENERATOR"}
    [] type = "EnergyReservoirStorage" -> {"STORAGE"}
    [] OTHER -> {}

\* The rows of one source table that this leg can translate.
ReadScope(class) ==
  /\ Goto(class)
  /\ scope' = Kept(ScopeRules(class, network[class]), network[class])
  /\ skips' = skips \o Skipped(class, ScopeRules(class, network[class]), network[class])
  /\ UNCHANGED <<network, prices, tables, series, associations, records, document>>

\* One mapping takes its own carriers out of the scope and writes its table.
MapOne(class, type) ==
  /\ Goto(type)
  /\ LET mine == Selected(scope, {r \in ToSet(scope) : TypeOf[r.carrier] = type})
         kept == Kept(MappingRules(type, mine), mine)
         out == Numbered(kept, LAMBDA r, id :
                  [id |-> id, name |-> r.name, bus |-> r.bus, capacity |-> Rating(type, r)])
     IN  /\ IF network[class] = <<>> THEN UNCHANGED tables ELSE Put(type, out)
         /\ skips' = skips \o Skipped(class, MappingRules(type, mine), mine)
         /\ series' = IF type = "HydroDispatch" /\ kept # <<>>
                        THEN WithCeilings(kept)
                        ELSE series
         /\ associations' = associations \o AssociationsOf(type, kept, out)
         /\ records' = records \cup (RecordKind(type) \X Names(kept))
  /\ UNCHANGED <<network, prices, scope, document>>

MapGenerators == ReadScope("generators") \/ \E t \in GeneratorTypes : MapOne("generators", t)
MapStorageUnits == ReadScope("storage_units") \/ \E t \in StorageTypes : MapOne("storage_units", t)

-----------------------------------------------------------------------------
(* Lines, links, areas and arcs                                            *)

Branch(r, id) == [id |-> id, name |-> r.name, bus0 |-> r.bus0, bus1 |-> r.bus1]

\* Branches need a bus table; without one they are left where they are.
MapBranches(class, type, kind, rules) ==
  /\ Goto(class)
  /\ IF network[class] = <<>> \/ "ACBus" \notin DOMAIN tables
     THEN UNCHANGED <<tables, skips, records>>
     ELSE /\ Put(type, Numbered(Kept(rules, network[class]), Branch))
          /\ skips' = skips \o Skipped(class, rules, network[class])
          /\ records' = records \cup ({kind} \X Names(Kept(rules, network[class])))
  /\ UNCHANGED <<network, prices, scope, series, associations, document>>

DynamicallyRated(rows) == {r \in ToSet(rows) : Has(<<"lines", "s_max_pu">>, r.name)}

LineRules == <<Rule("dynamic rating", DynamicallyRated(network.lines))>>

\* Two ports, both of them at mapped buses; then the capacity rules.
LinkRules ==
  <<Rule("link scope", {r \in ToSet(network.links) :
                          r.multiport \/ ~({r.bus0, r.bus1} \subseteq AcBusNames)}),
    Rule("unbuilt candidate", UnbuiltCandidates(network.links)),
    Rule("rejected build", RejectedBuilds(network.links))>>

MapLines == MapBranches("lines", "Line", "LINE", LineRules)
MapLinks == MapBranches("links", "TwoTerminalGenericHVDCLine", "CONTROLLABLE_LINE", LinkRules)

\* One area for each distinct location of the mapped buses.
BuildAreas ==
  /\ Goto("areas")
  /\ IF "ACBus" \notin DOMAIN tables THEN UNCHANGED tables
     ELSE LET areas == SetToSeq({r.area : r \in ToSet(TableOf("ACBus"))} \ {None})
          IN  Put("Area", Numbered(areas, LAMBDA a, id : [id |-> id, name |-> a]))
  /\ UNCHANGED <<network, prices, scope, skips, series, associations, records, document>>

EndpointsOf(row) == <<row.bus0, row.bus1>>
IdOf(rows, name) == IF name \in Names(rows) THEN Row(rows, name).id ELSE None

\* The distinct ordered endpoint pairs of the branch tables.
Endpoints == {EndpointsOf(r) : r \in UNION {ToSet(TableOf(t)) : t \in BranchTypes}}

BuildArcs ==
  /\ Goto("arcs")
  /\ IF "ACBus" \notin DOMAIN tables \/ BranchTypes \cap DOMAIN tables = {} THEN UNCHANGED tables
     ELSE Put("Arc", Numbered(SetToSeq(Endpoints), LAMBDA e, id :
            [id |-> id, from |-> IdOf(TableOf("ACBus"), e[1]), to |-> IdOf(TableOf("ACBus"), e[2])]))
  /\ UNCHANGED <<network, prices, scope, skips, series, associations, records, document>>

-----------------------------------------------------------------------------
(* The sink                                                                *)

Injections == GeneratorTypes \cup StorageTypes \cup LoadTypes

\* Every name one table states is the name of a row of the table it points into.
RefsHold ==
  /\ {r.area : r \in ToSet(TableOf("ACBus"))} \ {None} \subseteq Names(TableOf("Area"))
  /\ \A t \in Injections : \A r \in ToSet(TableOf(t)) : r.bus \in AcBusNames
  /\ \A t \in BranchTypes : \A r \in ToSet(TableOf(t)) : {r.bus0, r.bus1} \subseteq AcBusNames

ArcsOf(row) ==
  {a \in ToSet(TableOf("Arc")) : /\ a.from = IdOf(TableOf("ACBus"), row.bus0)
                                 /\ a.to = IdOf(TableOf("ACBus"), row.bus1)}

BranchesHaveArcs == \A t \in BranchTypes : \A r \in ToSet(TableOf(t)) : ArcsOf(r) # {}

\* The ids a row refers to in the document.
References(type, row) ==
  CASE type = "ACBus" -> <<IdOf(TableOf("Area"), row.area)>>
    [] type = "Area" -> <<>>
    [] type = "Arc" -> <<row.from, row.to>>
    [] type \in BranchTypes -> <<(CHOOSE a \in ArcsOf(row) : TRUE).id>>
    [] OTHER -> <<IdOf(TableOf("ACBus"), row.bus)>>

Component(type, row) ==
  [type |-> type, id |-> row.id, refs |-> References(type, row),
   name |-> IF type = "Arc" THEN None ELSE row.name]

Components == UNION {{Component(t, row) : row \in ToSet(tables[t])} : t \in DOMAIN tables}

\* build_payload: names become ids, or nothing is written at all.
Resolve ==
  /\ step = "resolve"
  /\ IF RefsHold /\ BranchesHaveArcs
     THEN /\ Goto("resolve")
          /\ document' = [document EXCEPT !.components = Components]
     ELSE step' = "failed" /\ UNCHANGED document
  /\ UNCHANGED <<network, prices, tables, scope, skips, series, associations, records>>

\* The 1.0 of a series: One where its values are per unit, 1 where they are megawatts.
UnitOf(key) == IF key \in {PMaxPu, HydroMax} THEN One ELSE 1

\* A value times the capacity of its owner, over the scale of its row.
Megawatts(value, unit, capacity, scale) ==
  <<value * capacity[1] * scale[2], unit * capacity[2] * scale[1]>>

ArrayOf(a) ==
  LET owner == CHOOSE r \in ToSet(tables[a.type]) : r.id = a.owner
      values == IF Has(a.key, a.component) THEN series[a.key][a.component] ELSE <<>>
  IN  [type |-> a.type, owner |-> a.owner, name |-> a.name, length |-> Len(values),
       megawatts |-> [i \in DOMAIN values |-> Megawatts(values[i], UnitOf(a.key), owner.capacity, a.scale)]]

\* write_h5: the arrays, each in the unit its owner's capacity gives it.
StoreSeries ==
  /\ step = "store"
  /\ IF \A i \in DOMAIN associations : associations[i].key \in DOMAIN series
     THEN /\ Goto("store")
          /\ document' = [document EXCEPT !.arrays = {ArrayOf(associations[i]) : i \in DOMAIN associations}]
     ELSE step' = "failed" /\ UNCHANGED document
  /\ UNCHANGED <<network, prices, tables, scope, skips, series, associations, records>>

Terminated == step \in {"written", "failed", "refused"} /\ UNCHANGED vars

Next ==
  \/ AddLoadShedding \/ StageAsItIs \/ ValidateTheNetwork
  \/ MapBuses \/ ReadPrices \/ MapLoads \/ MapGenerators \/ MapStorageUnits
  \/ MapLines \/ MapLinks \/ BuildAreas \/ BuildArcs
  \/ Resolve \/ StoreSeries \/ Terminated

Spec == Init /\ [][Next]_vars

-----------------------------------------------------------------------------
(* Properties                                                              *)

ClassTypes(class) ==
  CASE class = "buses" -> {"ACBus"}
    [] class = "loads" -> LoadTypes
    [] class = "lines" -> {"Line"}
    [] class = "links" -> {"TwoTerminalGenericHVDCLine"}
    [] OTHER -> TypesOf(class)

IsMapped == step \in {"areas", "arcs", "resolve", "store", "written"}

\* Once the components are mapped, each component of the network is one row of one
\* Sienna table or one COMPONENT_SKIPPED event, never both and never neither.  The drops
\* are spread over the scope rules of a table, the carrier filter of each mapping, which
\* reports nothing, and the rules of each mapping.
EveryComponentHasOneFate ==
  IsMapped => \A class \in Classes : \A r \in ToSet(network[class]) :
    LET rows == {p \in ClassTypes(class) \X (1 .. Len(network[class])) :
                   p[2] \in DOMAIN TableOf(p[1]) /\ TableOf(p[1])[p[2]].name = r.name}
        events == {i \in DOMAIN skips : skips[i].class = class /\ skips[i].name = r.name}
    IN  Cardinality(rows) + Cardinality(events) = 1

ById(id) == CHOOSE c \in document.components : c.id = id
NamedAs(id, type, name) == ById(id).type = type /\ ById(id).name = name

\* In a written document no two components share an id, and following the ids from a
\* component reaches the components the network names: a bus its area, a plant or a load
\* its bus, a branch an arc between its own two buses, in their order.  Each table counts
\* its ids from the heights of the tables before it, and arcs are derived from two of them.
ReferencesReachTheirNamesakes ==
  step \in {"store", "written"} =>
    /\ \A c, d \in document.components : c.id = d.id => c = d
    /\ Cardinality(document.components) = Cardinality(PlacesOf(tables))
    /\ \A class \in Classes : \A r \in ToSet(network[class]) : \A c \in document.components :
         c.type \in ClassTypes(class) /\ c.name = r.name =>
           CASE class = "buses" -> r.area = None \/ NamedAs(c.refs[1], "Area", r.area)
             [] class \in {"lines", "links"} ->
                  /\ ById(c.refs[1]).type = "Arc"
                  /\ NamedAs(ById(c.refs[1]).refs[1], "ACBus", r.bus0)
                  /\ NamedAs(ById(c.refs[1]).refs[2], "ACBus", r.bus1)
             [] OTHER -> NamedAs(c.refs[1], "ACBus", r.bus)

ClassOf(type) == CHOOSE class \in Classes : type \in ClassTypes(class)

\* What the network says the component gives or takes at one snapshot, in MW.
SourceMegawatts(array, r, i) ==
  CASE array.type \in LoadTypes -> <<series[PSet][r.name][i], 1>>
    [] array.type \in GeneratorTypes -> <<EffectivePNom(r) * series[PMaxPu][r.name][i], One>>
    [] array.type \in StorageTypes /\ array.name = "max_active_power" -> <<EffectivePNom(r) * r.pmax, One>>
    [] OTHER -> <<series[Inflow][r.name][i] * r.efficiency, One>>

SameFraction(a, b) == b[2] # 0 /\ a[2] # 0 /\ a[1] * b[2] = b[1] * a[2]

\* Every array stored beside the document is, snapshot by snapshot, the megawatts the
\* network states for its owner, and every profile that varies is stored once or
\* reported as left out.  The peak divides in one module and multiplies in two others.
StoredSeriesAreTheSourceMegawatts ==
  step = "written" =>
    /\ Cardinality(document.arrays) = Len(associations)
    /\ \A a \in document.arrays :
         LET r == Row(network[ClassOf(a.type)], ById(a.owner).name)
         IN  /\ a.length > 0
             /\ \A i \in 1 .. a.length : SameFraction(a.megawatts[i], SourceMegawatts(a, r, i))
    /\ \A c \in document.components : \A key \in Quantities :
         /\ c.type \in ClassTypes(key[1]) \ {"EnergyReservoirStorage"}
         /\ Has(key, c.name)
         /\ Peak(series[key][c.name]) # Lowest(series[key][c.name])
         => \/ \E a \in document.arrays : a.owner = c.id
            \/ \E i \in DOMAIN skips : skips[i].class = key[2] /\ skips[i].name = c.name

=============================================================================
