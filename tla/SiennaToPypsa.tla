----------------------------- MODULE SiennaToPypsa -----------------------------
(***************************************************************************)
(* The sienna-to-pypsa leg: the reader that keeps the part of a system     *)
(* document it can rely on, the source that stages tables and series, the  *)
(* sub-steps that map one class each, the step that leaves off profiles    *)
(* that do not fit the snapshots, and the sink.                            *)
(*                                                                         *)
(* A document is [rows, associations, companion]: components of the types  *)
(* below, series stored beside it, and what a hop before set aside beside  *)
(* its sidecar.  Power is in whole MW, a per-unit value is a fraction      *)
(* <<numerator, denominator>>, and snapshots are whole steps of one size.  *)
(* Costs, ramps, impedances, sidecar records other than a link's, and      *)
(* ensembles are left out.                                                 *)
(***************************************************************************)
EXTENDS Integers, Sequences, FiniteSets, SequencesExt, TLC

CONSTANTS
  Documents,   \* the documents a run may be given
  None         \* a null

VARIABLES
  step,          \* the part of the leg that runs next
  document,      \* the document as it is on disk
  components,    \* the rows kept of it
  associations,  \* the TimeSeriesAssociation rows kept of it
  left_out,      \* the rows and series a warning says are left out
  series,        \* source_time_series: key -> component -> [at, values]
  tables,        \* destination_tables: PyPSA table -> rows
  metadata,      \* TIME_SERIES_METADATA, the rows that point at one series as one frame
  skips,         \* COMPONENT_SKIPPED events: [by, name]
  dropped,       \* the profiles reported as off the window
  network        \* what the sink has written

vars == <<step, document, components, associations, left_out, series, tables,
          metadata, skips, dropped, network>>

PlantTypes     == {"ThermalStandard", "RenewableDispatch", "RenewableNonDispatch"}
GeneratorTypes == PlantTypes \cup {"HydroDispatch"}
StorageTypes   == {"EnergyReservoirStorage"}
LoadTypes      == {"PowerLoad", "InterruptiblePowerLoad"}
LineTypes      == {"Line", "MonitoredLine"}
LinkTypes      == {"TwoTerminalGenericHVDCLine"}
Mapped         == {"ACBus"} \cup GeneratorTypes \cup StorageTypes \cup LoadTypes \cup LineTypes \cup LinkTypes

\* What the companion's columns are staged under in place of a type.
CompanionOwner == "extensions_companion"

IsOneReference(refs, type) == \E ref \in refs : refs = {ref} /\ ref = <<type, ref[2]>>

\* The references the schema gives a row of the type.
RefersAsItsType(r) ==
  /\ r.type \in GeneratorTypes \cup StorageTypes \cup LoadTypes => IsOneReference(r.refs, "ACBus")
  /\ r.type \in LineTypes \cup LinkTypes => IsOneReference(r.refs, "Arc")
  /\ r.type = "Arc" => r.refs = {<<"ACBus", r.from>>, <<"ACBus", r.to>>}

\* Power is in whole MW, and so are the values a document stores.
HoldsWholeMegawatts(r) ==
  /\ r.type \in GeneratorTypes \cup LoadTypes => r.base \in Int /\ r.max \in Int
  /\ r.type \in GeneratorTypes => r.rating \in Int

\* A document's ids tell the components of a type apart, and its names all that are mapped:
\* PyPSA keys its tables by name, and the reports and the series name a component by it.  No
\* schema asks that of the names of two types.  A component has one series of a name, and no
\* component's type is the companion's owner.
ASSUME DocumentsAssumption ==
  \A d \in Documents :
    /\ IsFiniteSet(d.rows) /\ d.rows \cap d.associations = {}
    /\ \A r \in d.rows : RefersAsItsType(r) /\ HoldsWholeMegawatts(r) /\ r.type # CompanionOwner
    /\ \A r, s \in d.rows :
         /\ r.type = s.type /\ r.id = s.id => r = s
         /\ r.type \in Mapped /\ s.type \in Mapped /\ r.name = s.name => r = s
    /\ \A a \in d.associations : a.values \in Seq(Int)
    /\ \A a, b \in d.associations :
         a.type = b.type /\ a.owner = b.owner /\ a.name = b.name => a = b

\* The parts of the leg, in the order the pipeline and the steps run them.
Parts == <<"validate", "close", "owners", "series", "buses", "generators", "storage_units",
           "loads", "lines", "links", "window", "locations", "write", "written">>

Goto(part) ==
  /\ step = part
  /\ step' = Parts[1 + CHOOSE i \in DOMAIN Parts : Parts[i] = part]

OfTypes(types) == {r \in components : r.type \in types}
Least(numbers) == CHOOSE n \in numbers : \A m \in numbers : n <= m
Times(f, g) == <<f[1] * g[1], f[2] * g[2]>>
Same(f, g) == f[1] * g[2] = g[1] * f[2]

-----------------------------------------------------------------------------
(* Reading the document                                                    *)

Init ==
  /\ document \in Documents
  /\ step = "validate"
  /\ components = {} /\ associations = {} /\ left_out = {}
  /\ series = [k \in {} |-> None]
  /\ tables = [t \in {} |-> {}]
  /\ metadata = <<>> /\ skips = {} /\ dropped = {} /\ network = None

\* The rows the SDK accepts; valid is its verdict.
KeepValidRows ==
  /\ Goto("validate")
  /\ components' = {r \in document.rows : r.valid}
  /\ left_out' = document.rows \ components'
  /\ UNCHANGED <<document, associations, series, tables, metadata, skips, dropped, network>>

\* Some bus, arc or end of an arc the row names is no row that is kept.
RefersToNoRow(row, rows) ==
  \E ref \in row.refs : ~ \E r \in rows : r.type = ref[1] /\ r.id = ref[2]

Dangling(rows) == {r \in rows : RefersToNoRow(r, rows)}

\* A faulty variant passes over the rows once.
DropRowsOnce ==
  /\ Goto("close")
  /\ components' = components \ Dangling(components)
  /\ left_out' = left_out \cup Dangling(components)
  /\ UNCHANGED <<document, associations, series, tables, metadata, skips, dropped, network>>

\* One pass over every type, each against the rows kept when the pass began; another
\* follows as long as one left something out.
DropRowsThatReferToNoRow ==
  /\ IF Dangling(components) = {} THEN Goto("close") ELSE step = "close" /\ UNCHANGED step
  /\ components' = components \ Dangling(components)
  /\ left_out' = left_out \cup Dangling(components)
  /\ UNCHANGED <<document, associations, series, tables, metadata, skips, dropped, network>>

Owner(a) == CHOOSE r \in components : r.type = a.type /\ r.id = a.owner
HasOwner(a) == \E r \in components : r.type = a.type /\ r.id = a.owner

\* Associations of rows that are kept.
DropAssociationsOfNoOwner ==
  /\ Goto("owners")
  /\ associations' = {a \in document.associations : HasOwner(a)}
  /\ left_out' = left_out \cup (document.associations \ associations')
  /\ UNCHANGED <<document, components, series, tables, metadata, skips, dropped, network>>

-----------------------------------------------------------------------------
(* Staging the series                                                      *)

HasSeriesCapacity(type) == type \in GeneratorTypes \cup LoadTypes

\* A faulty variant rates every plant as it rates a renewable one.
RatingOfEveryPlant(r) ==
  CASE r.type \in PlantTypes -> r.rating
    [] r.type \in LoadTypes  -> r.max
    [] OTHER                 -> r.base

\* The megawatts a per-unit value of the row's series stands for.
SeriesCapacity(r) ==
  CASE r.type \in {"ThermalStandard"} \cup LoadTypes               -> r.max
    [] r.type \in {"RenewableDispatch", "RenewableNonDispatch"} -> r.rating
    [] OTHER                                                     -> r.base

\* Values stored in megawatts become per-unit ones; any others are as stored.
PerUnit(a) ==
  LET capacity == SeriesCapacity(Owner(a))
  IN  [i \in DOMAIN a.values |->
         IF ~a.natural THEN <<a.values[i], 1>>
         ELSE IF capacity = 0 THEN <<0, 1>> ELSE <<a.values[i], capacity>>]

IsConvertible(a) == a.natural => HasSeriesCapacity(a.type)
HasNamedOwner(a) == Owner(a).name # None
Staged == {a \in associations : IsConvertible(a) /\ HasNamedOwner(a) /\ a.values # <<>>}

\* One frame for each type and name, by the names of the owners.
StageSeries ==
  /\ Goto("series")
  /\ series' = [k \in {<<a.type, a.name>> : a \in Staged} |->
       LET of == {a \in Staged : <<a.type, a.name>> = k}
       IN  [n \in {Owner(a).name : a \in of} |->
              LET a == CHOOSE b \in of : Owner(b).name = n
              IN  [at |-> a.at, values |-> PerUnit(a)]]]
  /\ left_out' = left_out \cup {a \in associations : ~(IsConvertible(a) /\ HasNamedOwner(a))}
  /\ UNCHANGED <<document, components, associations, tables, metadata, skips, dropped, network>>

-----------------------------------------------------------------------------
(* Mapping one class after the other                                       *)

BusName(id) == (CHOOSE r \in components : r.type = "ACBus" /\ r.id = id).name
BusOf(r) == BusName((CHOOSE ref \in r.refs : TRUE)[2])
ArcOf(r) == CHOOSE a \in components : a.type = "Arc" /\ <<a.type, a.id>> \in r.refs
Ends(r) == [bus0 |-> BusName(ArcOf(r).from), bus1 |-> BusName(ArcOf(r).to)]

PerUnitOf(value, base)    == IF base = 0 THEN <<0, 1>> ELSE <<value, base>>
RatedPerUnit(rating, base) == IF base = 0 THEN <<1, 1>> ELSE <<rating, base>>

\* A row that states the basis its type is read in; a row of no handled type stays.
KeptBy(rows, handled, basis) == {r \in rows : r.type \in handled => r.units = basis}
SkippedBy(part, rows, handled, basis) ==
  {[by |-> part, name |-> r.name] : r \in rows \ KeptBy(rows, handled, basis)}

\* The table is written only if it has rows.
Write(table, rows) ==
  tables' = IF rows = {} THEN tables
            ELSE [t \in DOMAIN tables \cup {table} |-> IF t = table THEN rows ELSE tables[t]]
Rows(table) == IF table \in DOMAIN tables THEN tables[table] ELSE {}

Snapshots(frame) == UNION {frame[n].at .. (frame[n].at + Len(frame[n].values) - 1) : n \in DOMAIN frame}

\* The metadata rows that point written components at the series of one key, a row for each
\* name in scale: none where nobody in it was written.
Point(table, attribute, key, all, scale) ==
  LET written == IF key \in DOMAIN all THEN DOMAIN all[key] \cap DOMAIN scale ELSE {}
  IN  [table |-> table, attribute |-> attribute, key |-> key,
       scale |-> [n \in written |-> scale[n]],
       length |-> IF written = {} THEN 0 ELSE Cardinality(Snapshots(all[key]))]

Companion(column) == <<CompanionOwner, column>>

\* The columns the companion holds join the staged series, in the unit PyPSA reads them in.
WithCompanion(columns) ==
  LET held == {Companion(column) : column \in columns \cap DOMAIN document.companion}
  IN  [k \in DOMAIN series \cup held |-> IF k \in held THEN document.companion[k[2]] ELSE series[k]]

Unscaled(names) == [n \in names |-> <<1, 1>>]
ScaleOf(rows, Scale(_)) ==
  [n \in {r.name : r \in rows} |-> Scale(CHOOSE r \in rows : r.name = n)]

MapBuses ==
  /\ Goto("buses")
  /\ Write("buses", {[name |-> r.name, location |-> None] : r \in OfTypes({"ACBus"})})
  /\ UNCHANGED <<document, components, associations, left_out, series, metadata, skips, dropped, network>>

PowerUnitTypes == PlantTypes

GeneratorScale(r) ==
  IF r.type = "ThermalStandard" THEN PerUnitOf(r.max, r.base) ELSE RatedPerUnit(r.rating, r.base)

GeneratorRow(r) ==
  [name |-> r.name, bus |-> BusOf(r), p_nom |-> r.base, p_max_pu |-> RatedPerUnit(r.rating, r.base)]

MapGenerators ==
  /\ Goto("generators")
  /\ LET source == OfTypes(GeneratorTypes)
         mapped == {r \in KeptBy(source, PowerUnitTypes, "natural") : r.type \in PlantTypes}
         scale  == ScaleOf(mapped, GeneratorScale)
         all    == WithCompanion({"marginal_cost"})
         Peaks(type) == Point("generators", "p_max_pu", <<type, "max_active_power">>, all, scale)
     IN  /\ Write("generators", {GeneratorRow(r) : r \in mapped})
         /\ skips' = skips \cup SkippedBy("generators", source, PowerUnitTypes, "natural")
         /\ IF mapped = {} THEN UNCHANGED <<series, metadata>>
            ELSE /\ series' = all
                 /\ metadata' = metadata
                      \o <<Peaks("RenewableDispatch"), Peaks("RenewableNonDispatch"), Peaks("ThermalStandard"),
                           Point("generators", "marginal_cost", Companion("marginal_cost"), all,
                                 Unscaled(DOMAIN scale))>>
  /\ UNCHANGED <<document, components, associations, left_out, dropped, network>>

StorageRow(r) ==
  [name |-> r.name, bus |-> BusOf(r), p_nom |-> r.base,
   p_max_pu |-> IF r.type = "HydroDispatch" THEN RatedPerUnit(r.rating, r.base) ELSE <<r.max, 1>>]

\* Hydro plants come from the generators table and are read in another basis than storage.
MapStorageUnits ==
  /\ Goto("storage_units")
  /\ LET plants == OfTypes(GeneratorTypes)
         hydro  == {r \in KeptBy(plants, {"HydroDispatch"}, "natural") : r.type = "HydroDispatch"}
         stores == OfTypes(StorageTypes)
         mapped == hydro \cup KeptBy(stores, StorageTypes, "component")
         all    == WithCompanion({"inflow_mw", "rating_pu"})
     IN  /\ Write("storage_units", {StorageRow(r) : r \in mapped})
         /\ skips' = skips \cup SkippedBy("storage_units", plants, {"HydroDispatch"}, "natural")
                           \cup SkippedBy("storage_units", stores, StorageTypes, "component")
         /\ IF mapped = {} THEN UNCHANGED <<series, metadata>>
            ELSE /\ series' = all
                 /\ metadata' = metadata
                      \o <<Point("storage_units", "inflow", <<"HydroDispatch", "hydro_budget">>, all,
                                 ScaleOf(hydro, LAMBDA r : <<r.base, 1>>)),
                           Point("storage_units", "inflow", Companion("inflow_mw"), all,
                                 Unscaled({r.name : r \in mapped})),
                           Point("storage_units", "p_max_pu", Companion("rating_pu"), all,
                                 Unscaled({r.name : r \in mapped}))>>
  /\ UNCHANGED <<document, components, associations, left_out, dropped, network>>

\* A faulty variant reads the series of one type of load.
SeriesOfPowerLoads == <<"PowerLoad">>

LoadSeriesTypes == <<"PowerLoad", "InterruptiblePowerLoad">>

MapLoads ==
  /\ Goto("loads")
  /\ LET source == OfTypes(LoadTypes)
         mapped == KeptBy(source, LoadTypes, "natural")
         scale  == ScaleOf(mapped, LAMBDA r : <<r.max, 1>>)
     IN  /\ Write("loads", {[name |-> r.name, bus |-> BusOf(r), p_set |-> r.max] : r \in mapped})
         /\ skips' = skips \cup SkippedBy("loads", source, LoadTypes, "natural")
         /\ metadata' = metadata \o [i \in DOMAIN LoadSeriesTypes |->
              Point("loads", "p_set", <<LoadSeriesTypes[i], "max_active_power">>, series, scale)]
  /\ UNCHANGED <<document, components, associations, left_out, series, dropped, network>>

LineRow(r) ==
  [name |-> r.name, bus0 |-> Ends(r).bus0, bus1 |-> Ends(r).bus1, s_nom |-> r.rating * r.base]

\* A kept line that states its parameters in another basis ends the run.
MapLines ==
  /\ LET source == OfTypes(LineTypes)
         mapped == KeptBy(source, LineTypes, "component")
     IN  IF \E r \in mapped : r.parameters = "natural"
         THEN step = "lines" /\ step' = "failed" /\ UNCHANGED <<tables, skips>>
         ELSE /\ Goto("lines")
              /\ Write("lines", {LineRow(r) : r \in mapped})
              /\ skips' = skips \cup SkippedBy("lines", source, LineTypes, "component")
  /\ UNCHANGED <<document, components, associations, left_out, series, metadata, dropped, network>>

-----------------------------------------------------------------------------
(* Links                                                                   *)

\* The flow the ratings and the limit of a line allow each way.
FlowBounds(r) ==
  LET ceiling == Least(r.ratings)
  IN  IF r.limit = None THEN [forward |-> ceiling, reverse |-> ceiling]
      ELSE [forward |-> Least({r.limit[1], ceiling}), reverse |-> Least({r.limit[2], ceiling})]

\* p_nom, p_min_pu and p_max_pu from the bounds and the sidecar record.
LinkLimits(r) ==
  LET bounds == FlowBounds(r)
      top == r.record.p_max_pu
      nom == IF top = None THEN <<bounds.forward, 1>>
             ELSE IF top[1] = 0 THEN <<0, 1>> ELSE <<bounds.forward * top[2], top[1]>>
  IN  [p_nom |-> nom, p_max_pu |-> IF top = None THEN <<1, 1>> ELSE top,
       p_min_pu |-> CASE r.record.p_min_pu # None -> r.record.p_min_pu
                      [] r.record.p_min_pu = None /\ nom[1] = 0 -> <<0, 1>>
                      [] OTHER -> <<-bounds.reverse * nom[2], nom[1]>>]

LinkRow(r) ==
  LET limits == LinkLimits(r)
  IN  [name |-> r.name, bus0 |-> Ends(r).bus0, bus1 |-> Ends(r).bus1,
       p_nom |-> limits.p_nom, p_min_pu |-> limits.p_min_pu, p_max_pu |-> limits.p_max_pu]

\* A line without a linear loss has no efficiency to read, and ends the run.
MapLinks ==
  /\ IF \E r \in OfTypes(LinkTypes) : r.loss = None \/ r.loss.function # "LINEAR"
     THEN step = "links" /\ step' = "failed" /\ UNCHANGED tables
     ELSE /\ Goto("links")
          /\ Write("links", {LinkRow(r) : r \in OfTypes(LinkTypes)})
  /\ UNCHANGED <<document, components, associations, left_out, series, metadata, skips, dropped, network>>

-----------------------------------------------------------------------------
(* Profiles off the window, locations and the sink                         *)

Held(frame, n) == Len(series[frame.key][n].values)

\* The frames with metadata rows, and the snapshots of the first of them.
InUse == {i \in DOMAIN metadata : DOMAIN metadata[i].scale # {}}
Window == IF InUse = {} THEN 0 ELSE metadata[Least(InUse)].length

\* The mapped profiles with another number of values than the first series has snapshots.
OffTheWindow ==
  UNION {{[owner |-> f.key[1], series |-> f.key[2], component |-> n] :
            n \in {m \in DOMAIN f.scale : Held(f, m) # Window}} : f \in ToSet(metadata)}

\* A row goes if its series and component are those of a profile off the window.
IsDropped(frame, n, profiles) ==
  \E p \in profiles : p.series = frame.key[2] /\ p.component = n

WithoutProfiles(frame, profiles) ==
  [frame EXCEPT !.scale = [n \in {m \in DOMAIN @ : ~IsDropped(frame, m, profiles)} |-> @[n]]]

DropProfilesOffTheWindow ==
  /\ Goto("window")
  /\ dropped' = OffTheWindow
  /\ metadata' = [i \in DOMAIN metadata |-> WithoutProfiles(metadata[i], dropped')]
  /\ UNCHANGED <<document, components, associations, left_out, series, tables, skips, network>>

AreaOf(r) ==
  IF \E a \in components : a.type = "Area" /\ a.id = r.area
  THEN (CHOOSE a \in components : a.type = "Area" /\ a.id = r.area).name ELSE None

\* The location of a bus is the name of its area.
LocatedRow(b) ==
  [name |-> b.name, location |-> AreaOf(CHOOSE r \in OfTypes({"ACBus"}) : r.name = b.name)]

RelateComponents ==
  /\ Goto("locations")
  /\ Write("buses", {LocatedRow(b) : b \in Rows("buses")})
  /\ UNCHANGED <<document, components, associations, left_out, series, metadata, skips, dropped, network>>

\* The values of a series times the factor of its metadata row.
Column(frame, n) == [i \in DOMAIN series[frame.key][n].values |->
                       Times(series[frame.key][n].values[i], frame.scale[n])]

\* The tables, attributes and components metadata points at a series, and what it points at.
Places == UNION {{<<f.table, f.attribute, n>> : n \in DOMAIN f.scale} : f \in ToSet(metadata)}
FramesAt(place) ==
  {f \in ToSet(metadata) : <<f.table, f.attribute>> = <<place[1], place[2]>> /\ place[3] \in DOMAIN f.scale}

\* Two series of one place are one column, of their product: there are no more than two, a
\* component having one series of its own that is read and one column of the companion.
Compounded(frames, n) ==
  LET one    == CHOOSE f \in frames : TRUE
      others == {f \in frames : f.key # one.key}
  IN  IF others = {} THEN Column(one, n)
      ELSE LET other == CHOOSE f \in others : TRUE
           IN  [i \in DOMAIN Column(one, n) |-> Times(Column(one, n)[i], Column(other, n)[i])]

WrittenColumn(place) ==
  [table |-> place[1], attribute |-> place[2], component |-> place[3],
   owners |-> {f.key[1] : f \in FramesAt(place)},
   values |-> Compounded(FramesAt(place), place[3])]

\* The snapshots are those of the first series left; a column of another length ends the run.
BuildNetwork ==
  /\ IF OffTheWindow # {}
     THEN step = "write" /\ step' = "failed" /\ UNCHANGED network
     ELSE /\ Goto("write")
          /\ network' = [snapshots |-> Window, tables |-> tables,
                         columns |-> {WrittenColumn(place) : place \in Places}]
  /\ UNCHANGED <<document, components, associations, left_out, series, tables, metadata, skips, dropped>>

Terminated == step \in {"written", "failed"} /\ UNCHANGED vars

Next ==
  \/ KeepValidRows \/ DropRowsThatReferToNoRow \/ DropAssociationsOfNoOwner \/ StageSeries
  \/ MapBuses \/ MapGenerators \/ MapStorageUnits \/ MapLoads \/ MapLines \/ MapLinks
  \/ DropProfilesOffTheWindow \/ RelateComponents \/ BuildNetwork \/ Terminated

Spec == Init /\ [][Next]_vars

-----------------------------------------------------------------------------
(* Properties                                                              *)

\* The state of the leg stays within its types: every metadata row is of a written
\* component and points at a staged series that holds it.
TypeOK ==
  /\ step \in ToSet(Parts) \cup {"failed"}
  /\ components \subseteq document.rows /\ associations \subseteq document.associations
  /\ left_out \subseteq document.rows \cup document.associations
  /\ \A i \in DOMAIN metadata :
       LET f == metadata[i]
       IN  DOMAIN f.scale # {} =>
           /\ f.key \in DOMAIN series /\ DOMAIN f.scale \subseteq DOMAIN series[f.key]
           /\ DOMAIN f.scale \subseteq {r.name : r \in Rows(f.table)}
  /\ network # None <=> step = "written"

\* What is kept of a document is the largest part of it the SDK accepts in which no row
\* refers to a row that is not there: leaving out a bus leaves out its arcs and then their
\* lines, and leaves out nothing else.
KeptIsTheLargestClosedPart ==
  step = "owners" =>
    components = UNION {part \in SUBSET {r \in document.rows : r.valid} : Dangling(part) = {}}

TableFor(type) ==
  CASE type = "ACBus"                                 -> "buses"
    [] type \in PlantTypes                            -> "generators"
    [] type \in StorageTypes \cup {"HydroDispatch"}   -> "storage_units"
    [] type \in LoadTypes                             -> "loads"
    [] type \in LineTypes                             -> "lines"
    [] type \in LinkTypes                             -> "links"

IsMapped == step \in {"window", "locations", "write", "written"}

\* Once the classes are mapped, each component of the document is left out by the reader,
\* skipped with one event, or one row of one PyPSA table, and only one of these.  Two
\* sub-steps read the generators table, each in the basis of its own types.
EveryComponentHasOneFate ==
  IsMapped => \A r \in document.rows : r.type \in Mapped =>
    Cardinality(left_out \cap {r})
      + Cardinality({s \in skips : s.name = r.name})
      + Cardinality({row \in Rows(TableFor(r.type)) : row.name = r.name}) = 1

WrittenRow(c) == CHOOSE row \in network.tables[c.table] : row.name = c.component

\* A column of p_max_pu is of the capacity written beside it, any other in MW.
WrittenMegawatts(c, i) ==
  Times(c.values[i], IF c.attribute = "p_max_pu" THEN <<WrittenRow(c).p_nom, 1>> ELSE <<1, 1>>)

StoredMegawatts(a, i) ==
  <<IF a.natural THEN a.values[i] ELSE a.values[i] * SeriesCapacity(Owner(a)), 1>>

IsRead(a) ==
  a.name = IF a.type = "HydroDispatch" THEN "hydro_budget" ELSE "max_active_power"

IsWrittenFrom(c, a) == a.type \in c.owners /\ c.component = Owner(a).name

\* A hydro plant with a budget of its own and an inflow beside the sidecar: its one column of
\* inflow is the product of the two, which is neither.
IsCompounded(c) == \E s, t \in c.owners : s # t

\* A column of one series is, with the capacity written beside it, the megawatts stored
\* for its owner, whichever way the array was stored.  Staging divides by one attribute of
\* the owner and the mapping multiplies by another.
ColumnsAreTheStoredMegawatts ==
  step = "written" =>
    \A c \in network.columns, a \in associations :
      /\ c.attribute \in {"p_max_pu", "p_set", "inflow"} /\ IsWrittenFrom(c, a) /\ IsRead(a)
      /\ ~IsCompounded(c) /\ Owner(a).base # 0 /\ SeriesCapacity(Owner(a)) # 0
      => \A i \in DOMAIN a.values : Same(WrittenMegawatts(c, i), StoredMegawatts(a, i))

\* Every profile this leg reads, of a component it wrote, is in one column of the network or
\* is reported: left out by the reader, or off the window.
EveryProfileHasOneFate ==
  step = "written" => \A a \in document.associations :
    LET is(r) == r.type = a.type /\ r.id = a.owner
        mine  == {r \in components : is(r) /\ r.name \in {w.name : w \in Rows(TableFor(r.type))}}
    IN  mine # {} /\ a.type \in GeneratorTypes \cup LoadTypes /\ IsRead(a) /\ a.values # <<>> =>
          LET n == (CHOOSE r \in mine : TRUE).name
          IN  Cardinality(left_out \cap {a})
                + Cardinality({p \in dropped : p.owner = a.type /\ p.series = a.name /\ p.component = n})
                + Cardinality({c \in network.columns : a.type \in c.owners /\ c.component = n}) = 1

\* Neither a component nor a profile of one is lost without a word: both decisions are
\* taken per type in more than one place, the second after the first.  This is of documents
\* whose mapped components have names of their own, across types as well: of two types'
\* namesakes PyPSA keeps one, and DocumentsAssumption leaves them out.
NothingIsLostInSilence == EveryComponentHasOneFate /\ EveryProfileHasOneFate
=============================================================================
