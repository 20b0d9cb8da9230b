--------------------------- MODULE FromSiennaProofs ---------------------------
(***************************************************************************)
(* Theorems about the two legs that read a Sienna document, SiennaToPypsa  *)
(* and SiennaToPowerSimulations, for every document.                       *)
(***************************************************************************)
EXTENDS SiennaToPowerSimulations, FunctionTheorems, FiniteSetTheorems, TLAPS

\* The part of the leg that follows each.
LEMMA PartsInOrder ==
  ASSUME NEW part, Goto(part)
  PROVE  /\ step = part
         /\ part = "validate" => step' = "close"
         /\ part = "close" => step' = "owners"
         /\ part = "owners" => step' = "series"
         /\ part = "series" => step' = "buses"
         /\ part = "buses" => step' = "generators"
         /\ part = "generators" => step' = "storage_units"
         /\ part = "storage_units" => step' = "loads"
         /\ part = "loads" => step' = "lines"
         /\ part = "lines" => step' = "links"
         /\ part = "links" => step' = "window"
         /\ part = "window" => step' = "locations"
         /\ part = "locations" => step' = "write"
         /\ part = "write" => step' = "written"
  BY DEF Goto, Parts

(* ------------------------ what is kept of a document -------------------- *)

ValidRows == {r \in document.rows : r.valid}

\* A part of a document in which no row refers to a row that is not there.
IsClosed(part) == Dangling(part) = {}

\* A row of a closed part refers to rows of any larger one.
LEMMA ClosedPartsAreKept ==
  ASSUME NEW part, NEW rows, part \subseteq rows, IsClosed(part)
  PROVE  part \subseteq rows \ Dangling(rows)
  BY DEF IsClosed, Dangling, RefersToNoRow

\* The rows still there hold every closed part, and once the passes are over are one.
Closing ==
  /\ step # "validate" =>
       /\ components \subseteq ValidRows
       /\ \A part \in SUBSET ValidRows : IsClosed(part) => part \subseteq components
  /\ step \notin {"validate", "close"} => IsClosed(components)

LEMMA ClosingInit == PsInit => Closing
  BY DEF PsInit, Init, Closing

LEMMA ClosingStep == Closing /\ [PsNext]_leg_vars => Closing'
  <1> SUFFICES ASSUME Closing, [PsNext]_leg_vars PROVE Closing'
    OBVIOUS
  <1>1. CASE KeepValidRows
    <2>1. components' = ValidRows' /\ step' = "close"
      BY <1>1 DEF KeepValidRows, ValidRows, Goto, Parts
    <2> QED
      BY <2>1 DEF Closing
  <1>2. CASE DropRowsThatReferToNoRow
    <2>1. /\ step = "close" /\ step' \in {"close", "owners"} /\ document' = document
          /\ components' = components \ Dangling(components)
          /\ step' = "owners" => Dangling(components) = {}
      BY <1>2 DEF DropRowsThatReferToNoRow, Goto, Parts
    <2>2. ASSUME NEW part \in SUBSET ValidRows, IsClosed(part)
          PROVE  part \subseteq components'
      BY <2>1, <2>2, ClosedPartsAreKept DEF Closing
    <2>3. step' = "owners" => components' = components
      BY <2>1
    <2> QED
      BY <2>1, <2>2, <2>3 DEF Closing, ValidRows, IsClosed
  <1>3. ASSUME UNCHANGED <<document, components>>, step \notin {"validate", "close"},
               step' \notin {"validate", "close"}
        PROVE  Closing'
    BY <1>3 DEF Closing, ValidRows, IsClosed
  <1>4. CASE DropAssociationsOfNoOwner \/ StageSeries
    BY <1>3, <1>4, PartsInOrder DEF DropAssociationsOfNoOwner, StageSeries
  <1>5. CASE MapBuses \/ MapGenerators \/ MapStorageUnits \/ MapLoads
    BY <1>3, <1>5, PartsInOrder DEF MapBuses, MapGenerators, MapStorageUnits, MapLoads
  <1>6. CASE MapLines \/ MapLinks
    BY <1>3, <1>6, PartsInOrder DEF MapLines, MapLinks
  <1>7. CASE DropProfilesOffTheWindow \/ RelateComponents \/ BuildNetwork
    BY <1>3, <1>7, PartsInOrder DEF DropProfilesOffTheWindow, RelateComponents, BuildNetwork
  <1>8. CASE FillAvailability \/ AssignUuids \/ MapToPowerSimulations \/ WriteSidecar \/ WriteSystem
    BY <1>3, <1>8 DEF FillAvailability, AssignUuids, MapToPowerSimulations, WriteSidecar, WriteSystem,
                      Read
  <1>9. CASE UNCHANGED vars
    BY <1>9 DEF vars, Closing, ValidRows, IsClosed
  <1> QED
    BY <1>1, <1>2, <1>4, <1>5, <1>6, <1>7, <1>8, <1>9
       DEF PsNext, Next, Terminated, PsTerminated, leg_vars

\* Once the passes over the rows are over, what is kept of a document is its largest part in
\* which no row refers to a row that is not there, whatever refers to what.
THEOREM TheLargestClosedPartIsKept == PsSpec => []KeptIsTheLargestClosedPart
  <1>1. Closing => KeptIsTheLargestClosedPart
    <2> SUFFICES ASSUME Closing, step = "owners"
                 PROVE  components =
                          UNION {part \in SUBSET {r \in document.rows : r.valid} : Dangling(part) = {}}
      BY DEF KeptIsTheLargestClosedPart
    <2>1. components \in SUBSET ValidRows /\ Dangling(components) = {}
      BY DEF Closing, IsClosed
    <2>2. \A part \in SUBSET ValidRows : Dangling(part) = {} => part \subseteq components
      BY DEF Closing, IsClosed
    <2> QED
      BY <2>1, <2>2 DEF ValidRows
  <1> QED
    BY <1>1, ClosingInit, ClosingStep, PTL DEF PsSpec

(* ----------------------- the fate of a component ------------------------ *)

Classes == {"buses", "generators", "storage_units", "loads", "lines", "links"}

\* The parts of the leg before those that map classes, and up to the one of a table.
Reading == {"validate", "close", "owners", "series"}
UpTo(table) ==
  CASE table = "buses"         -> Reading \cup {"buses"}
    [] table = "generators"    -> Reading \cup {"buses", "generators"}
    [] table = "storage_units" -> Reading \cup {"buses", "generators", "storage_units"}
    [] table = "loads"         -> Reading \cup {"buses", "generators", "storage_units", "loads"}
    [] table = "lines"         -> Reading \cup (Classes \ {"links"})
    [] table = "links"         -> Reading \cup Classes

IsPast(table) == step \notin UpTo(table)

LEMMA ClassesInOrder ==
  ASSUME NEW class \in Classes, Goto(class), NEW table \in Classes
  PROVE  IsPast(table)' <=> IsPast(table) \/ table = class
  BY PartsInOrder DEF Classes, IsPast, UpTo, Reading

\* The basis a row of its type is read in.
StatesBasis(r) ==
  CASE r.type \in GeneratorTypes \cup LoadTypes -> r.units = "natural"
    [] r.type \in StorageTypes \cup LineTypes   -> r.units = "component"
    [] OTHER                                    -> TRUE

RowsFor(table) == {r \in OfTypes(Mapped) : TableFor(r.type) = table}
ReadFor(table) == {r \in RowsFor(table) : StatesBasis(r)}

\* Rows that are one for each of some components, by its name.
OneEach(rows, of) ==
  /\ \A row \in rows : \E r \in of : row.name = r.name
  /\ \A r \in of : \E row \in rows : row.name = r.name
  /\ \A row, other \in rows : row.name = other.name => row = other

\* What is left out of a document is what is not kept.
Leaving ==
  /\ document \in Documents
  /\ associations \subseteq document.associations
  /\ step = "validate" => left_out = {}
  /\ step # "validate" =>
       /\ components \subseteq document.rows
       /\ \A r \in document.rows : r \in left_out <=> r \notin components

IsSkipEvent(s) == \E table \in Classes :
  IsPast(table) /\ \E r \in RowsFor(table) \ ReadFor(table) : s = [by |-> table, name |-> r.name]

\* A class is in its table and in the skip events once its part is past, and no sooner.
Sorting ==
  step \in ToSet(Parts) =>
    /\ \A table \in Classes :
         OneEach(Rows(table), IF IsPast(table) THEN ReadFor(table) ELSE {})
    /\ \A s : s \in skips <=> IsSkipEvent(s)

Fates == Leaving /\ Sorting

LEMMA FatesInit == PsInit => Fates
  <1> SUFFICES ASSUME PsInit PROVE Fates
    OBVIOUS
  <1>1. /\ document \in Documents /\ step = "validate" /\ associations = {} /\ left_out = {}
        /\ skips = {} /\ tables = [t \in {} |-> {}]
    BY DEF PsInit, Init
  <1>2. \A table \in Classes : ~IsPast(table) /\ Rows(table) = {}
    BY <1>1 DEF Classes, IsPast, UpTo, Reading, Rows
  <1> QED
    BY <1>1, <1>2 DEF Fates, Leaving, Sorting, OneEach, IsSkipEvent

LEMMA RowsOnceWritten ==
  ASSUME NEW table, NEW rows, Write(table, rows)
  PROVE  /\ Rows(table)' = IF rows = {} THEN Rows(table) ELSE rows
         /\ \A other : other # table => Rows(other)' = Rows(other)
  BY DEF Write, Rows

\* A part that writes its table, and reports the rest of its class, sorts the class.
LEMMA ClassSorted ==
  ASSUME Sorting, NEW class \in Classes, Goto(class),
         UNCHANGED <<document, components>>,
         NEW rows, Write(class, rows), OneEach(rows, ReadFor(class)),
         skips' = skips \cup {[by |-> class, name |-> r.name] : r \in RowsFor(class) \ ReadFor(class)}
  PROVE  Sorting'
  <1> DEFINE Of(table) == IF IsPast(table) THEN ReadFor(table) ELSE {}
  <1>1. \A table : RowsFor(table)' = RowsFor(table) /\ ReadFor(table)' = ReadFor(table)
    BY DEF RowsFor, ReadFor, OfTypes
  <1>2. step \in ToSet(Parts) /\ ~IsPast(class)
    BY DEF Goto, ToSet, Parts, Classes, IsPast, UpTo, Reading
  <1>3. \A table \in Classes : IsPast(table)' <=> IsPast(table) \/ table = class
    BY ClassesInOrder
  <1>4. ASSUME NEW table \in Classes PROVE OneEach(Rows(table), Of(table))'
    <2>1. CASE table # class
      <3>1. Rows(table)' = Rows(table) /\ Of(table)' = Of(table)
        BY <1>1, <1>3, <2>1, RowsOnceWritten
      <3> QED
        BY <1>2, <3>1 DEF Sorting, OneEach
    <2>2. CASE table = class
      <3>1. OneEach(Rows(class), {})
        BY <1>2 DEF Sorting
      <3>2. Rows(class) = {}
        BY <3>1 DEF OneEach
      <3>3. Rows(class)' = rows
        BY <3>2, RowsOnceWritten
      <3> QED
        BY <1>1, <1>3, <2>2, <3>3 DEF OneEach
    <2> QED
      BY <2>1, <2>2
  <1>5. ASSUME NEW s PROVE (s \in skips <=> IsSkipEvent(s))'
    BY <1>1, <1>2, <1>3 DEF Sorting, IsSkipEvent
  <1> QED
    BY <1>4, <1>5 DEF Sorting

\* A part that maps nothing leaves the classes as they are.
LEMMA SortingKept ==
  ASSUME Sorting, UNCHANGED <<document, components, tables, skips>>,
         step' \in ToSet(Parts) => step \in ToSet(Parts),
         \A table \in Classes : step' \in ToSet(Parts) => (IsPast(table)' <=> IsPast(table))
  PROVE  Sorting'
  <1>1. \A table : /\ RowsFor(table)' = RowsFor(table) /\ ReadFor(table)' = ReadFor(table)
                   /\ Rows(table)' = Rows(table)
    BY DEF RowsFor, ReadFor, OfTypes, Rows
  <1> SUFFICES ASSUME step' \in ToSet(Parts) PROVE Sorting'
    BY DEF Sorting
  <1>2. ASSUME NEW table \in Classes
        PROVE  OneEach(Rows(table), IF IsPast(table) THEN ReadFor(table) ELSE {})'
    BY <1>1, <1>2 DEF Sorting, OneEach
  <1>3. ASSUME NEW s PROVE (s \in skips <=> IsSkipEvent(s))'
    BY <1>1 DEF Sorting, IsSkipEvent
  <1> QED
    BY <1>2, <1>3 DEF Sorting

\* Names are their own among mapped rows.
LEMMA NamesAreTheirOwn ==
  ASSUME Leaving, step # "validate"
  PROVE  \A r, q \in OfTypes(Mapped) : r.name = q.name => r = q
  BY DocumentsAssumption DEF Leaving, OfTypes

LEMMA RowsOfAClass ==
  /\ RowsFor("buses") = OfTypes({"ACBus"})
  /\ RowsFor("generators") = OfTypes(PlantTypes)
  /\ RowsFor("storage_units") = OfTypes(StorageTypes \cup {"HydroDispatch"})
  /\ RowsFor("loads") = OfTypes(LoadTypes)
  /\ RowsFor("lines") = OfTypes(LineTypes)
  /\ RowsFor("links") = OfTypes(LinkTypes)
  BY DEF RowsFor, OfTypes, TableFor, Mapped, GeneratorTypes, PlantTypes, StorageTypes, LoadTypes,
         LineTypes, LinkTypes

LEMMA RowsReadOfAClass ==
  /\ ReadFor("buses") = OfTypes({"ACBus"})
  /\ ReadFor("generators") = {r \in OfTypes(PlantTypes) : r.units = "natural"}
  /\ ReadFor("storage_units") = {r \in OfTypes({"HydroDispatch"}) : r.units = "natural"}
                                  \cup {r \in OfTypes(StorageTypes) : r.units = "component"}
  /\ ReadFor("loads") = {r \in OfTypes(LoadTypes) : r.units = "natural"}
  /\ ReadFor("lines") = {r \in OfTypes(LineTypes) : r.units = "component"}
  /\ ReadFor("links") = OfTypes(LinkTypes)
  <1> USE RowsOfAClass DEF ReadFor, OfTypes, StatesBasis, GeneratorTypes, PlantTypes, StorageTypes,
                           LoadTypes, LineTypes, LinkTypes
  <1>1. ReadFor("buses") = OfTypes({"ACBus"}) /\ ReadFor("links") = OfTypes(LinkTypes)
    OBVIOUS
  <1>2. ReadFor("generators") = {r \in OfTypes(PlantTypes) : r.units = "natural"}
    OBVIOUS
  <1>3. ReadFor("storage_units") = {r \in OfTypes({"HydroDispatch"}) : r.units = "natural"}
                                     \cup {r \in OfTypes(StorageTypes) : r.units = "component"}
    OBVIOUS
  <1>4. /\ ReadFor("loads") = {r \in OfTypes(LoadTypes) : r.units = "natural"}
        /\ ReadFor("lines") = {r \in OfTypes(LineTypes) : r.units = "component"}
    OBVIOUS
  <1> QED
    BY <1>1, <1>2, <1>3, <1>4

LEMMA MappingSorts ==
  ASSUME Fates, MapBuses \/ MapGenerators \/ MapStorageUnits \/ MapLoads \/ MapLinks \/ MapLines
  PROVE  Sorting'
  <1> USE DEF Fates
  <1>1. CASE MapBuses
    <2> DEFINE rows == {[name |-> r.name, location |-> None] : r \in OfTypes({"ACBus"})}
    <2>1. Goto("buses") /\ Write("buses", rows) /\ skips' = skips /\ UNCHANGED <<document, components>>
      BY <1>1 DEF MapBuses
    <2>2. step # "validate"
      BY <2>1 DEF Goto
    <2>3. OneEach(rows, ReadFor("buses"))
      <3> DEFINE row == [r \in OfTypes({"ACBus"}) |-> [name |-> r.name, location |-> None]]
      <3>1. OfTypes({"ACBus"}) \subseteq OfTypes(Mapped)
        BY DEF OfTypes, Mapped
      <3>2. \A r \in OfTypes({"ACBus"}) : row[r].name = r.name
        OBVIOUS
      <3>3. rows = {row[r] : r \in OfTypes({"ACBus"})}
        OBVIOUS
      <3> HIDE DEF row, rows
      <3> QED
        BY <2>2, RowsReadOfAClass, <3>1, <3>2, <3>3, NamesAreTheirOwn DEF OneEach
    <2>4. RowsFor("buses") \ ReadFor("buses") = {}
      BY RowsOfAClass, RowsReadOfAClass
    <2> HIDE DEF rows
    <2> QED
      BY <2>1, <2>3, <2>4, ClassSorted DEF Classes
  <1>2. CASE MapGenerators
    <2> DEFINE source == OfTypes(GeneratorTypes)
               mapped == {r \in KeptBy(source, PowerUnitTypes, "natural") : r.type \in PlantTypes}
               rows   == {GeneratorRow(r) : r \in mapped}
    <2>1. /\ Goto("generators") /\ Write("generators", rows) /\ UNCHANGED <<document, components>>
          /\ skips' = skips \cup SkippedBy("generators", source, PowerUnitTypes, "natural")
      BY <1>2 DEF MapGenerators
    <2>2. step # "validate"
      BY <2>1 DEF Goto
    <2>3. mapped = ReadFor("generators")
      BY RowsOfAClass, RowsReadOfAClass DEF KeptBy, OfTypes, GeneratorTypes, PlantTypes, PowerUnitTypes
    <2>4. SkippedBy("generators", source, PowerUnitTypes, "natural")
            = {[by |-> "generators", name |-> r.name] : r \in RowsFor("generators") \ ReadFor("generators")}
      <3>1. source \ KeptBy(source, PowerUnitTypes, "natural")
              = RowsFor("generators") \ ReadFor("generators")
        BY RowsOfAClass, RowsReadOfAClass DEF KeptBy, OfTypes, GeneratorTypes, PlantTypes, PowerUnitTypes
      <3> QED
        BY <3>1 DEF SkippedBy
    <2>5. OneEach(rows, ReadFor("generators"))
      <3> DEFINE row == [r \in mapped |-> GeneratorRow(r)]
      <3>1. mapped \subseteq OfTypes(Mapped)
        BY DEF KeptBy, OfTypes, Mapped
      <3>2. \A r \in mapped : row[r].name = r.name
        BY DEF GeneratorRow
      <3>3. rows = {row[r] : r \in mapped}
        OBVIOUS
      <3> HIDE DEF row, rows, mapped
      <3>4. OneEach(rows, mapped)
        BY <2>2, <3>1, <3>2, <3>3, NamesAreTheirOwn DEF OneEach
      <3> QED
        BY <2>3, <3>4
    <2> HIDE DEF rows, mapped, source
    <2> QED
      BY <2>1, <2>4, <2>5, ClassSorted DEF Classes
  <1>3. CASE MapStorageUnits
    <2> DEFINE plants == OfTypes(GeneratorTypes)
               stores == OfTypes(StorageTypes)
               hydro  == {r \in KeptBy(plants, {"HydroDispatch"}, "natural") : r.type = "HydroDispatch"}
               mapped == hydro \cup KeptBy(stores, StorageTypes, "component")
               rows   == {StorageRow(r) : r \in mapped}
    <2>1. /\ Goto("storage_units") /\ Write("storage_units", rows) /\ UNCHANGED <<document, components>>
          /\ skips' = skips \cup SkippedBy("storage_units", plants, {"HydroDispatch"}, "natural")
                            \cup SkippedBy("storage_units", stores, StorageTypes, "component")
      BY <1>3 DEF MapStorageUnits
    <2>2. step # "validate"
      BY <2>1 DEF Goto
    <2>3. mapped = ReadFor("storage_units")
      BY RowsOfAClass, RowsReadOfAClass DEF KeptBy, OfTypes, GeneratorTypes, PlantTypes, StorageTypes
    <2>4. SkippedBy("storage_units", plants, {"HydroDispatch"}, "natural")
            \cup SkippedBy("storage_units", stores, StorageTypes, "component")
            = {[by |-> "storage_units", name |-> r.name] :
                 r \in RowsFor("storage_units") \ ReadFor("storage_units")}
      <3>1. (plants \ KeptBy(plants, {"HydroDispatch"}, "natural"))
              \cup (stores \ KeptBy(stores, StorageTypes, "component"))
              = RowsFor("storage_units") \ ReadFor("storage_units")
        BY RowsOfAClass, RowsReadOfAClass DEF KeptBy, OfTypes, GeneratorTypes, PlantTypes, StorageTypes
      <3> QED
        BY <3>1 DEF SkippedBy
    <2>5. OneEach(rows, ReadFor("storage_units"))
      <3> DEFINE row == [r \in mapped |-> StorageRow(r)]
      <3>1. mapped \subseteq OfTypes(Mapped)
        BY DEF KeptBy, OfTypes, Mapped
      <3>2. \A r \in mapped : row[r].name = r.name
        BY DEF StorageRow
      <3>3. rows = {row[r] : r \in mapped}
        OBVIOUS
      <3> HIDE DEF row, rows, mapped
      <3>4. OneEach(rows, mapped)
        BY <2>2, <3>1, <3>2, <3>3, NamesAreTheirOwn DEF OneEach
      <3> QED
        BY <2>3, <3>4
    <2> HIDE DEF rows, mapped, plants, stores, hydro
    <2> QED
      BY <2>1, <2>4, <2>5, ClassSorted DEF Classes
  <1>4. CASE MapLoads
    <2> DEFINE source == OfTypes(LoadTypes)
               mapped == KeptBy(source, LoadTypes, "natural")
               rows   == {[name |-> r.name, bus |-> BusOf(r), p_set |-> r.max] : r \in mapped}
    <2>1. /\ Goto("loads") /\ Write("loads", rows) /\ UNCHANGED <<document, components>>
          /\ skips' = skips \cup SkippedBy("loads", source, LoadTypes, "natural")
      BY <1>4 DEF MapLoads
    <2>2. step # "validate"
      BY <2>1 DEF Goto
    <2>3. mapped = ReadFor("loads")
      BY RowsReadOfAClass DEF KeptBy, OfTypes
    <2>4. SkippedBy("loads", source, LoadTypes, "natural")
            = {[by |-> "loads", name |-> r.name] : r \in RowsFor("loads") \ ReadFor("loads")}
      BY <2>3, RowsOfAClass, RowsReadOfAClass DEF SkippedBy
    <2>5. OneEach(rows, ReadFor("loads"))
      <3> DEFINE row == [r \in mapped |-> [name |-> r.name, bus |-> BusOf(r), p_set |-> r.max]]
      <3>1. mapped \subseteq OfTypes(Mapped)
        BY DEF KeptBy, OfTypes, Mapped
      <3>2. \A r \in mapped : row[r].name = r.name
        OBVIOUS
      <3>3. rows = {row[r] : r \in mapped}
        OBVIOUS
      <3> HIDE DEF row, rows, mapped
      <3>4. OneEach(rows, mapped)
        BY <2>2, <3>1, <3>2, <3>3, NamesAreTheirOwn DEF OneEach
      <3> QED
        BY <2>3, <3>4
    <2> HIDE DEF rows, mapped, source
    <2> QED
      BY <2>1, <2>4, <2>5, ClassSorted DEF Classes
  <1>5. CASE MapLines
    <2> DEFINE source == OfTypes(LineTypes)
               mapped == KeptBy(source, LineTypes, "component")
               rows   == {LineRow(r) : r \in mapped}
    <2>1. \/ step' = "failed"
          \/ /\ Goto("lines") /\ Write("lines", rows) /\ UNCHANGED <<document, components>>
             /\ skips' = skips \cup SkippedBy("lines", source, LineTypes, "component")
      BY <1>5 DEF MapLines
    <2>2. CASE step' = "failed"
      BY <2>2 DEF Sorting, ToSet, Parts
    <2> SUFFICES ASSUME step' # "failed" PROVE Sorting'
      BY <2>2
    <2>3. step # "validate"
      BY <2>1 DEF Goto
    <2>4. mapped = ReadFor("lines")
      BY RowsReadOfAClass DEF KeptBy, OfTypes
    <2>5. SkippedBy("lines", source, LineTypes, "component")
            = {[by |-> "lines", name |-> r.name] : r \in RowsFor("lines") \ ReadFor("lines")}
      BY <2>4, RowsOfAClass, RowsReadOfAClass DEF SkippedBy
    <2>6. OneEach(rows, ReadFor("lines"))
      <3> DEFINE row == [r \in mapped |-> LineRow(r)]
      <3>1. mapped \subseteq OfTypes(Mapped)
        BY DEF KeptBy, OfTypes, Mapped
      <3>2. \A r \in mapped : row[r].name = r.name
        BY DEF LineRow
      <3>3. rows = {row[r] : r \in mapped}
        OBVIOUS
      <3> HIDE DEF row, rows, mapped
      <3>4. OneEach(rows, mapped)
        BY <2>3, <3>1, <3>2, <3>3, NamesAreTheirOwn DEF OneEach
      <3> QED
        BY <2>4, <3>4
    <2> HIDE DEF rows, mapped, source
    <2> QED
      BY <2>1, <2>5, <2>6, ClassSorted DEF Classes
  <1>6. CASE MapLinks
    <2> DEFINE rows == {LinkRow(r) : r \in OfTypes(LinkTypes)}
    <2>1. \/ step' = "failed"
          \/ Goto("links") /\ Write("links", rows) /\ skips' = skips /\ UNCHANGED <<document, components>>
      BY <1>6 DEF MapLinks
    <2>2. CASE step' = "failed"
      BY <2>2 DEF Sorting, ToSet, Parts
    <2> SUFFICES ASSUME step' # "failed" PROVE Sorting'
      BY <2>2
    <2>3. step # "validate"
      BY <2>1 DEF Goto
    <2>4. OneEach(rows, ReadFor("links"))
      <3> DEFINE row == [r \in OfTypes(LinkTypes) |-> LinkRow(r)]
      <3>1. OfTypes(LinkTypes) \subseteq OfTypes(Mapped)
        BY DEF OfTypes, Mapped
      <3>2. \A r \in OfTypes(LinkTypes) : row[r].name = r.name
        BY DEF LinkRow
      <3>3. rows = {row[r] : r \in OfTypes(LinkTypes)}
        OBVIOUS
      <3> HIDE DEF row, rows
      <3> QED
        BY <2>3, RowsReadOfAClass, <3>1, <3>2, <3>3, NamesAreTheirOwn DEF OneEach
    <2>5. RowsFor("links") \ ReadFor("links") = {}
      BY RowsOfAClass, RowsReadOfAClass
    <2> HIDE DEF rows
    <2> QED
      BY <2>1, <2>4, <2>5, ClassSorted DEF Classes
  <1> QED
    BY <1>1, <1>2, <1>3, <1>4, <1>5, <1>6

\* Naming the area of each bus keeps its name.
LEMMA LocatingKeeps ==
  ASSUME Fates, RelateComponents
  PROVE  Sorting'
  <1> DEFINE rows == {LocatedRow(b) : b \in Rows("buses")}
  <1>1. /\ step = "locations" /\ step' = "write" /\ Write("buses", rows)
        /\ UNCHANGED <<document, components, skips>>
    BY PartsInOrder DEF RelateComponents
  <1>2. \A table \in Classes : IsPast(table) /\ IsPast(table)'
    BY <1>1 DEF Classes, IsPast, UpTo, Reading
  <1>3. \A table : RowsFor(table)' = RowsFor(table) /\ ReadFor(table)' = ReadFor(table)
    BY <1>1 DEF RowsFor, ReadFor, OfTypes
  <1>4. step \in ToSet(Parts)
    BY <1>1 DEF ToSet, Parts
  <1>5. OneEach(Rows("buses"), ReadFor("buses"))
    BY <1>2, <1>4 DEF Fates, Sorting, Classes
  <1>6. \A b : LocatedRow(b).name = b.name
    BY DEF LocatedRow
  <1>7. OneEach(rows, ReadFor("buses"))
    BY <1>5, <1>6 DEF OneEach
  <1>8. Rows("buses")' = rows
    <2>1. rows = {} => Rows("buses") = {}
      OBVIOUS
    <2> HIDE DEF rows
    <2> QED
      BY <1>1, <2>1, RowsOnceWritten
  <1>9. ASSUME NEW table \in Classes
        PROVE  OneEach(Rows(table), IF IsPast(table) THEN ReadFor(table) ELSE {})'
    <2> HIDE DEF rows
    <2>1. CASE table = "buses"
      BY <1>2, <1>3, <1>7, <1>8, <2>1 DEF OneEach
    <2>2. CASE table # "buses"
      <3>1. Rows(table)' = Rows(table)
        BY <1>1, <2>2, RowsOnceWritten
      <3> QED
        BY <1>2, <1>3, <1>4, <3>1 DEF OneEach, Fates, Sorting
    <2> QED
      BY <2>1, <2>2
  <1>10. ASSUME NEW s PROVE (s \in skips <=> IsSkipEvent(s))'
    BY <1>1, <1>2, <1>3, <1>4 DEF Fates, Sorting, IsSkipEvent
  <1> QED
    BY <1>9, <1>10 DEF Sorting

LEMMA LeavingStep == Leaving /\ [PsNext]_leg_vars => Leaving'
  <1> SUFFICES ASSUME Leaving, [PsNext]_leg_vars PROVE Leaving'
    OBVIOUS
  <1>1. CASE KeepValidRows
    <2>1. /\ step' = "close" /\ document' = document /\ associations' = associations
          /\ components' = {r \in document.rows : r.valid} /\ left_out' = document.rows \ components'
      BY <1>1, PartsInOrder DEF KeepValidRows
    <2> QED
      BY <2>1 DEF Leaving
  <1>2. CASE DropRowsThatReferToNoRow
    <2>1. /\ step = "close" /\ step' # "validate" /\ document' = document
          /\ associations' = associations /\ components' = components \ Dangling(components)
          /\ left_out' = left_out \cup Dangling(components)
          /\ Dangling(components) \subseteq components
      BY <1>2, PartsInOrder DEF DropRowsThatReferToNoRow, Dangling
    <2> QED
      BY <2>1 DEF Leaving
  <1>3. ASSUME step # "validate", step' # "validate", UNCHANGED <<document, components>>,
               associations' \subseteq document.associations,
               left_out' \in {left_out, left_out \cup (document.associations \ associations'),
                              left_out \cup {a \in associations : ~(IsConvertible(a) /\ HasNamedOwner(a))}}
        PROVE  Leaving'
    <2>1. document.rows \cap document.associations = {}
      BY DocumentsAssumption DEF Leaving
    <2>2. \A r \in document.rows : r \in left_out' <=> r \in left_out
      BY <1>3, <2>1 DEF Leaving
    <2> QED
      BY <1>3, <2>2 DEF Leaving
  <1>4. CASE DropAssociationsOfNoOwner
    BY <1>3, <1>4, PartsInOrder DEF DropAssociationsOfNoOwner
  <1>5. CASE StageSeries
    BY <1>3, <1>5, PartsInOrder DEF StageSeries, Leaving
  <1>6. ASSUME UNCHANGED <<document, components, associations, left_out>>,
               step # "validate", step' # "validate"
        PROVE  Leaving'
    BY <1>6 DEF Leaving
  <1>7. CASE MapBuses \/ MapGenerators \/ MapStorageUnits \/ MapLoads
    BY <1>6, <1>7, PartsInOrder DEF MapBuses, MapGenerators, MapStorageUnits, MapLoads
  <1>8. CASE MapLines \/ MapLinks
    BY <1>6, <1>8, PartsInOrder DEF MapLines, MapLinks
  <1>9. CASE DropProfilesOffTheWindow \/ RelateComponents \/ BuildNetwork
    BY <1>6, <1>9, PartsInOrder DEF DropProfilesOffTheWindow, RelateComponents, BuildNetwork
  <1>10. CASE FillAvailability \/ AssignUuids \/ MapToPowerSimulations \/ WriteSidecar \/ WriteSystem
    BY <1>6, <1>10 DEF FillAvailability, AssignUuids, MapToPowerSimulations, WriteSidecar, WriteSystem,
                       Read
  <1>11. CASE UNCHANGED vars
    BY <1>11 DEF vars, Leaving
  <1> QED
    BY <1>1, <1>2, <1>4, <1>5, <1>7, <1>8, <1>9, <1>10, <1>11
       DEF PsNext, Next, Terminated, PsTerminated, leg_vars

LEMMA SortingStep == Fates /\ [PsNext]_leg_vars => Sorting'
  <1> SUFFICES ASSUME Fates, [PsNext]_leg_vars PROVE Sorting'
    OBVIOUS
  <1>1. CASE KeepValidRows \/ DropRowsThatReferToNoRow
    <2>1. /\ step \in {"validate", "close"} /\ step' \in {"close", "owners"}
          /\ UNCHANGED <<tables, skips>>
      BY <1>1, PartsInOrder DEF KeepValidRows, DropRowsThatReferToNoRow
    <2>2. \A table \in Classes : ~IsPast(table) /\ ~IsPast(table)' /\ Rows(table)' = Rows(table)
      BY <2>1 DEF Classes, IsPast, UpTo, Reading, Rows
    <2>3. step \in ToSet(Parts)
      BY <2>1 DEF ToSet, Parts
    <2> QED
      BY <2>1, <2>2, <2>3 DEF Fates, Sorting, OneEach, IsSkipEvent
  <1>2. CASE DropAssociationsOfNoOwner \/ StageSeries
    <2>1. /\ step \in {"owners", "series"} /\ step' \in {"series", "buses"}
          /\ UNCHANGED <<document, components, tables, skips>>
      BY <1>2, PartsInOrder DEF DropAssociationsOfNoOwner, StageSeries
    <2>2. \A table \in Classes : ~IsPast(table) /\ ~IsPast(table)'
      BY <2>1 DEF Classes, IsPast, UpTo, Reading
    <2>3. step \in ToSet(Parts)
      BY <2>1 DEF ToSet, Parts
    <2> QED
      BY <2>1, <2>2, <2>3, SortingKept DEF Fates
  <1>3. CASE DropProfilesOffTheWindow \/ BuildNetwork
    <2>1. /\ step \in {"window", "write"} /\ step' \in {"locations", "written", "failed"}
          /\ UNCHANGED <<document, components, tables, skips>>
      BY <1>3, PartsInOrder DEF DropProfilesOffTheWindow, BuildNetwork
    <2>2. \A table \in Classes : IsPast(table) /\ IsPast(table)'
      BY <2>1 DEF Classes, IsPast, UpTo, Reading
    <2>3. step \in ToSet(Parts)
      BY <2>1 DEF ToSet, Parts
    <2> QED
      BY <2>1, <2>2, <2>3, SortingKept DEF Fates
  <1>4. CASE FillAvailability \/ AssignUuids \/ MapToPowerSimulations \/ WriteSidecar \/ WriteSystem
    <2>1. step' \notin ToSet(Parts)
      BY <1>4 DEF FillAvailability, AssignUuids, MapToPowerSimulations, WriteSidecar, WriteSystem,
                  ToSet, Parts
    <2> QED
      BY <2>1 DEF Sorting
  <1>5. CASE UNCHANGED vars
    <2>1. \A table : IsPast(table)' <=> IsPast(table)
      BY <1>5 DEF vars, IsPast
    <2> QED
      BY <1>5, <2>1, SortingKept DEF Fates, vars
  <1> QED
    BY <1>1, <1>2, <1>3, <1>4, <1>5, MappingSorts, LocatingKeeps
       DEF PsNext, Next, Terminated, PsTerminated, leg_vars

\* Once the classes are mapped, a mapped component is what the reader left out, or in the
\* skip events, or a row of its table, and is there once.
LEMMA OneFateEach ==
  ASSUME Fates, IsMapped, NEW r \in document.rows, r.type \in Mapped
  PROVE  Cardinality(left_out \cap {r})
           + Cardinality({s \in skips : s.name = r.name})
           + Cardinality({row \in Rows(TableFor(r.type)) : row.name = r.name}) = 1
  <1> DEFINE table == TableFor(r.type)
             rows  == {row \in Rows(table) : row.name = r.name}
             mine  == {s \in skips : s.name = r.name}
  <1>1. step # "validate" /\ step \in ToSet(Parts) /\ table \in Classes
    BY DEF IsMapped, ToSet, Parts, Classes, TableFor, Mapped, GeneratorTypes, PlantTypes, StorageTypes,
           LoadTypes, LineTypes, LinkTypes
  <1>2. \A t \in Classes : IsPast(t)
    BY DEF IsMapped, Classes, IsPast, UpTo, Reading
  <1>3. r \in left_out <=> r \notin components
    BY <1>1 DEF Fates, Leaving
  <1>4. \A q \in OfTypes(Mapped) : q.name = r.name => q = r
    BY <1>1, DocumentsAssumption DEF Fates, Leaving, OfTypes
  <1>5. OneEach(Rows(table), ReadFor(table)) /\ \A s : s \in skips <=> IsSkipEvent(s)
    BY <1>1, <1>2 DEF Fates, Sorting
  <1>6. \A s \in mine : /\ s = [by |-> table, name |-> r.name]
                        /\ r \in RowsFor(table) \ ReadFor(table)
    BY <1>4, <1>5 DEF IsSkipEvent, RowsFor
  <1>7. \A row \in rows : r \in ReadFor(table)
    BY <1>4, <1>5 DEF OneEach, ReadFor, RowsFor
  <1>8. \A row, other \in rows : row = other
    BY <1>5 DEF OneEach
  <1>12. Cardinality({}) = 0 /\ \A x : Cardinality({x}) = 1
    BY FS_EmptySet, FS_Singleton
  <1> SUFFICES Cardinality(left_out \cap {r}) + Cardinality(mine) + Cardinality(rows) = 1
    OBVIOUS
  <1> HIDE DEF table, rows, mine
  <1>9. CASE r \notin components
    <2>1. left_out \cap {r} = {r} /\ mine = {} /\ rows = {}
      BY <1>3, <1>6, <1>7, <1>9 DEF RowsFor, ReadFor, OfTypes
    <2>4. /\ Cardinality(left_out \cap {r}) = 1
          /\ Cardinality(mine) = 0 /\ Cardinality(rows) = 0
      BY <1>12, <2>1, Zenon
    <2> QED
      BY <2>4
  <1>10. CASE r \in components /\ r \notin ReadFor(table)
    <2>1. r \in RowsFor(table)
      BY <1>10 DEF RowsFor, OfTypes, table
    <2>2. mine = {[by |-> table, name |-> r.name]}
      <3>1. [by |-> table, name |-> r.name] \in skips
        BY <1>1, <1>2, <1>5, <1>10, <2>1 DEF IsSkipEvent
      <3> QED
        BY <1>6, <3>1 DEF mine
    <2>3. left_out \cap {r} = {} /\ rows = {}
      BY <1>3, <1>7, <1>10
    <2>4. /\ Cardinality(left_out \cap {r}) = 0
          /\ Cardinality(mine) = 1 /\ Cardinality(rows) = 0
      BY <1>12, <2>2, <2>3, Zenon
    <2> QED
      BY <2>4
  <1>11. CASE r \in ReadFor(table)
    <2>1. left_out \cap {r} = {} /\ mine = {}
      BY <1>3, <1>6, <1>11 DEF ReadFor, RowsFor, OfTypes
    <2>2. PICK row \in rows : TRUE
      BY <1>5, <1>11 DEF OneEach, rows
    <2>3. rows = {row}
      BY <1>8, <2>2
    <2>4. /\ Cardinality(left_out \cap {r}) = 0
          /\ Cardinality(mine) = 0 /\ Cardinality(rows) = 1
      BY <1>12, <2>1, <2>3, Zenon
    <2> QED
      BY <2>4
  <1> QED
    BY <1>9, <1>10, <1>11

\* Each component of a mapped type, in any document, is left out by the reader, skipped with
\* one event or one row of one PyPSA table once the classes are mapped, and only one of these.
THEOREM ComponentsHaveOneFate == PsSpec => []EveryComponentHasOneFate
  <1>1. Fates => EveryComponentHasOneFate
    BY OneFateEach DEF EveryComponentHasOneFate
  <1>2. Fates /\ [PsNext]_leg_vars => Fates'
    BY LeavingStep, SortingStep DEF Fates
  <1> QED
    BY <1>1, <1>2, FatesInit, PTL DEF PsSpec

(* ----------------------- the system document ---------------------------- *)

\* A component that one of the two passes gives an UUID of its own.
LEMMA KeptRows ==
  ASSUME Leaving, Closing, step \notin {"validate", "close"}
  PROVE  /\ \A r \in components : RefersAsItsType(r)
         /\ \A r, q \in components : r.type = q.type /\ r.id = q.id => r = q
         /\ \A r, q \in OfTypes(Mapped) : r.name = q.name => r = q
         /\ \A r \in components : \A ref \in r.refs :
              \E q \in components : q.type = ref[1] /\ q.id = ref[2]
         /\ IsFiniteSet(components)
  <1>1. document \in Documents /\ components \subseteq document.rows
    BY DEF Leaving
  <1>2. IsFiniteSet(components)
    BY <1>1, DocumentsAssumption, FS_Subset
  <1>3. \A r \in components : ~RefersToNoRow(r, components)
    BY DEF Closing, IsClosed, Dangling
  <1> QED
    BY <1>1, <1>2, <1>3, DocumentsAssumption DEF OfTypes, RefersToNoRow

\* The bus a row names by its id.
LEMMA BusesAreReached ==
  ASSUME Leaving, Closing, step \notin {"validate", "close"},
         NEW id, NEW r \in components, <<"ACBus", id>> \in r.refs
  PROVE  \E q \in OfTypes({"ACBus"}) : q.id = id /\ BusName(id) = q.name
  <1>1. PICK q \in components : q.type = "ACBus" /\ q.id = id
    BY KeptRows
  <1>2. \A p \in components : p.type = "ACBus" /\ p.id = id => p = q
    BY <1>1, KeptRows
  <1>3. (CHOOSE p \in components : p.type = "ACBus" /\ p.id = id) = q
    BY <1>1, <1>2
  <1> QED
    BY <1>1, <1>3 DEF OfTypes, BusName

LEMMA BusBackedReach ==
  ASSUME Leaving, Closing, step \notin {"validate", "close"}, NEW r \in OfTypes(BusBacked)
  PROVE  \E q \in OfTypes({"ACBus"}) : BusUuid(r) = OwnUuid(q) /\ BusOf(r) = q.name
  <1> DEFINE ref == CHOOSE x \in r.refs : TRUE
  <1>1. r \in components /\ IsOneReference(r.refs, "ACBus")
    BY KeptRows DEF OfTypes, BusBacked, RefersAsItsType
  <1>2. ref \in r.refs /\ ref = <<"ACBus", ref[2]>>
    BY <1>1 DEF IsOneReference
  <1>3. PICK q \in OfTypes({"ACBus"}) : q.id = ref[2] /\ BusName(ref[2]) = q.name
    BY <1>1, <1>2, BusesAreReached
  <1> QED
    BY <1>3 DEF BusUuid, BusOf, OwnUuid, Uuid, OfTypes

LEMMA ArcBackedReach ==
  ASSUME Leaving, Closing, step \notin {"validate", "close"}, NEW r \in OfTypes(ArcBacked)
  PROVE  /\ ArcOf(r) \in components /\ ArcOf(r).type = "Arc"
         /\ \E q \in OfTypes({"ACBus"}) :
              Uuid("ACBus", ArcOf(r).from) = OwnUuid(q) /\ Ends(r).bus0 = q.name
         /\ \E q \in OfTypes({"ACBus"}) :
              Uuid("ACBus", ArcOf(r).to) = OwnUuid(q) /\ Ends(r).bus1 = q.name
  <1>1. r \in components /\ IsOneReference(r.refs, "Arc")
    BY KeptRows DEF OfTypes, ArcBacked, RefersAsItsType
  <1>2. PICK ref \in r.refs : ref = <<"Arc", ref[2]>>
    BY <1>1 DEF IsOneReference
  <1>3. PICK a \in components : a.type = "Arc" /\ a.id = ref[2]
    BY <1>1, <1>2, KeptRows
  <1>4. <<a.type, a.id>> \in r.refs
    BY <1>2, <1>3
  <1>5. ArcOf(r) \in components /\ ArcOf(r).type = "Arc"
    BY <1>3, <1>4 DEF ArcOf
  <1>6. ArcOf(r).refs = {<<"ACBus", ArcOf(r).from>>, <<"ACBus", ArcOf(r).to>>}
    BY <1>5, KeptRows DEF RefersAsItsType
  <1>7. PICK q \in OfTypes({"ACBus"}) : q.id = ArcOf(r).from /\ BusName(ArcOf(r).from) = q.name
    BY <1>5, <1>6, BusesAreReached
  <1>8. PICK p \in OfTypes({"ACBus"}) : p.id = ArcOf(r).to /\ BusName(ArcOf(r).to) = p.name
    BY <1>5, <1>6, BusesAreReached
  <1> QED
    BY <1>5, <1>7, <1>8 DEF OwnUuid, Uuid, OfTypes, Ends

\* Every reference of the second pass has an UUID from the first.
Assigned == OwnUuids(Mapped) \cup {AreaUuid(n) : n \in AreasUsed} \cup {Uuid("Arc", a.id) : a \in ArcsUsed}

LEMMA EveryReferenceIsAssigned ==
  ASSUME Leaving, Closing, step \notin {"validate", "close"}
  PROVE  LookedUp \subseteq Assigned
  <1>1. \A q \in OfTypes({"ACBus"}) : OwnUuid(q) \in OwnUuids(Mapped)
    BY DEF OwnUuids, OfTypes, Mapped
  <1>2. \A r \in OfTypes(BusBacked) : BusUuid(r) \in OwnUuids(Mapped)
    BY <1>1, BusBackedReach
  <1>3. \A r \in OfTypes(ArcBacked) : ArcUuid(r) \in {Uuid("Arc", a.id) : a \in ArcsUsed}
    BY DEF ArcUuid, ArcsUsed
  <1>4. \A a \in ArcsUsed : {Uuid("ACBus", a.from), Uuid("ACBus", a.to)} \subseteq OwnUuids(Mapped)
    BY <1>1, ArcBackedReach DEF ArcsUsed
  <1> QED
    BY <1>2, <1>3, <1>4 DEF LookedUp, Assigned

\* As many as they are made from one by one.
LEMMA OneForOne ==
  ASSUME NEW S, IsFiniteSet(S), NEW T, NEW f \in [S -> T],
         \A x, y \in S : f[x] = f[y] => x = y,
         \A t \in T : \E x \in S : f[x] = t
  PROVE  IsFiniteSet(T) /\ Cardinality(T) = Cardinality(S)
  <1>1. f \in Bijection(S, T)
    BY Fun_IsBij
  <1>2. ExistsBijection(S, T)
    BY <1>1, Fun_ExistsBij
  <1> QED
    BY <1>2, FS_Bijection

\* The component a mapped row becomes.
ComponentOf(r) ==
  IF r.type = "ACBus" THEN BusComponent(r)
  ELSE IF r.type \in BusBacked THEN BusBackedComponent(r) ELSE ArcBackedComponent(r)

OwnComponents  == {ComponentOf(r) : r \in OfTypes(Mapped)}
AreaComponents == {AreaComponent(n) : n \in AreasUsed}
ArcComponents  == {ArcComponent(a) : a \in ArcsUsed}

LEMMA MappedTypes ==
  /\ Mapped = {"ACBus"} \cup BusBacked \cup ArcBacked
  /\ {"ACBus"} \cap BusBacked = {} /\ ArcBacked \cap ({"ACBus"} \cup BusBacked) = {}
  /\ "Area" \notin Mapped /\ "Arc" \notin Mapped
  BY DEF Mapped, BusBacked, ArcBacked, GeneratorTypes, PlantTypes, StorageTypes, LoadTypes, LineTypes,
         LinkTypes

LEMMA BuiltInParts == Built = OwnComponents \cup AreaComponents \cup ArcComponents
  <1>1. OfTypes(Mapped) = OfTypes({"ACBus"}) \cup OfTypes(BusBacked) \cup OfTypes(ArcBacked)
    BY MappedTypes DEF OfTypes
  <1>2. /\ \A r \in OfTypes({"ACBus"}) : ComponentOf(r) = BusComponent(r)
        /\ \A r \in OfTypes(BusBacked) : ComponentOf(r) = BusBackedComponent(r)
        /\ \A r \in OfTypes(ArcBacked) : ComponentOf(r) = ArcBackedComponent(r)
    BY MappedTypes DEF OfTypes, ComponentOf
  <1>3. OwnComponents = {BusComponent(r) : r \in OfTypes({"ACBus"})}
          \cup {BusBackedComponent(r) : r \in OfTypes(BusBacked)}
          \cup {ArcBackedComponent(r) : r \in OfTypes(ArcBacked)}
    BY <1>1, <1>2 DEF OwnComponents
  <1> QED
    BY <1>3 DEF Built, AreaComponents, ArcComponents

LEMMA RowsAreNamed ==
  ASSUME NEW r
  PROVE  ComponentOf(r).type = r.type /\ ComponentOf(r).name = r.name
         /\ ComponentOf(r).uuid = <<r.type, r.id>>
  BY DEF ComponentOf, BusComponent, BusBackedComponent, ArcBackedComponent, OwnUuid, Uuid

LEMMA AreasAreNamed ==
  ASSUME NEW n
  PROVE  AreaComponent(n).type = "Area" /\ AreaComponent(n).uuid = <<"Area", n>>
  BY DEF AreaComponent, AreaUuid

LEMMA ArcsAreNamed ==
  ASSUME NEW a
  PROVE  ArcComponent(a).type = a.type /\ ArcComponent(a).uuid = <<a.type, a.id>>
  BY DEF ArcComponent, OwnUuid, Uuid

\* What a component is made from can be told by its type and its UUID.
LEMMA ComponentsOfBuilt ==
  ASSUME Leaving, Closing, step \notin {"validate", "close"}, NEW c \in Built
  PROVE  \/ /\ c.type \in Mapped
            /\ \E r \in OfTypes(Mapped) : c = ComponentOf(r) /\ c.name = r.name /\ c.type = r.type
                                          /\ c.uuid = <<r.type, r.id>>
         \/ /\ c.type = "Area"
            /\ \E n \in AreasUsed : c = AreaComponent(n) /\ c.uuid = <<"Area", n>>
         \/ /\ c.type = "Arc"
            /\ \E a \in ArcsUsed : c = ArcComponent(a) /\ c.uuid = <<"Arc", a.id>> /\ a.type = "Arc"
  <1>1. CASE c \in OwnComponents
    <2>1. PICK r \in OfTypes(Mapped) : c = ComponentOf(r)
      BY <1>1 DEF OwnComponents
    <2>2. r.type \in Mapped
      BY DEF OfTypes
    <2> QED
      BY <2>1, <2>2, RowsAreNamed
  <1>2. CASE c \in AreaComponents
    <2>1. PICK n \in AreasUsed : c = AreaComponent(n)
      BY <1>2 DEF AreaComponents
    <2> QED
      BY <2>1, AreasAreNamed
  <1>3. CASE c \in ArcComponents
    <2>1. PICK a \in ArcsUsed : c = ArcComponent(a)
      BY <1>3 DEF ArcComponents
    <2>2. a.type = "Arc"
      BY ArcBackedReach DEF ArcsUsed
    <2> QED
      BY <2>1, <2>2, ArcsAreNamed
  <1> QED
    BY <1>1, <1>2, <1>3, BuiltInParts

LEMMA UuidsTellComponentsApart ==
  ASSUME Leaving, Closing, step \notin {"validate", "close"}, NEW c \in Built, NEW d \in Built,
         c.uuid = d.uuid
  PROVE  c = d
  <1>1. \A r, q \in OfTypes(Mapped) : r.type = q.type /\ r.id = q.id => r = q
    BY KeptRows DEF OfTypes
  <1>2. \A a, b \in ArcsUsed : a.type = b.type /\ a.id = b.id => a = b
    BY KeptRows, ArcBackedReach DEF ArcsUsed
  <1>3. \A r \in OfTypes(Mapped) : r.type \in Mapped
    BY DEF OfTypes
  <1>4. ASSUME NEW r \in OfTypes(Mapped), c = ComponentOf(r), c.uuid = <<r.type, r.id>>
        PROVE  c = d
    <2>1. d.uuid = <<r.type, r.id>> /\ r.type \in Mapped
      BY <1>3, <1>4
    <2>2. PICK q \in OfTypes(Mapped) : d = ComponentOf(q) /\ d.uuid = <<q.type, q.id>>
      BY <2>1, ComponentsOfBuilt, MappedTypes
    <2>3. r = q
      BY <1>1, <2>1, <2>2
    <2> QED
      BY <1>4, <2>2, <2>3
  <1>5. ASSUME NEW n \in AreasUsed, c = AreaComponent(n), c.uuid = <<"Area", n>>
        PROVE  c = d
    <2>1. d.uuid = <<"Area", n>>
      BY <1>5
    <2>2. PICK m \in AreasUsed : d = AreaComponent(m) /\ d.uuid = <<"Area", m>>
      BY <1>3, <2>1, ComponentsOfBuilt, MappedTypes
    <2> QED
      BY <1>5, <2>1, <2>2
  <1>6. ASSUME NEW a \in ArcsUsed, c = ArcComponent(a), c.uuid = <<"Arc", a.id>>, a.type = "Arc"
        PROVE  c = d
    <2>1. d.uuid = <<"Arc", a.id>>
      BY <1>6
    <2>2. PICK b \in ArcsUsed : d = ArcComponent(b) /\ d.uuid = <<"Arc", b.id>> /\ b.type = "Arc"
      BY <1>3, <2>1, ComponentsOfBuilt, MappedTypes
    <2> QED
      BY <1>2, <1>6, <2>1, <2>2
  <1> QED
    BY <1>4, <1>5, <1>6, ComponentsOfBuilt

LEMMA RowsAreOneComponent ==
  ASSUME Leaving, Closing, step \notin {"validate", "close"}, NEW r \in OfTypes(Mapped)
  PROVE  {c \in Built : c.type = r.type /\ c.name = r.name} = {ComponentOf(r)}
  <1>1. r.type \in Mapped
    BY DEF OfTypes
  <1>2. ComponentOf(r) \in Built
    BY BuiltInParts DEF OwnComponents
  <1>3. ASSUME NEW c \in Built, c.type = r.type, c.name = r.name
        PROVE  c = ComponentOf(r)
    <2>1. PICK q \in OfTypes(Mapped) : c = ComponentOf(q) /\ c.name = q.name
      BY <1>1, <1>3, ComponentsOfBuilt, MappedTypes
    <2>2. q = r
      BY <1>3, <2>1, KeptRows
    <2> QED
      BY <2>1, <2>2
  <1>4. ComponentOf(r).type = r.type /\ ComponentOf(r).name = r.name
    BY RowsAreNamed
  <1> QED
    BY <1>2, <1>3, <1>4

LEMMA BuiltOneForOne ==
  ASSUME Leaving, Closing, step \notin {"validate", "close"}
  PROVE  Cardinality(Built) = Cardinality(OfTypes(Mapped)) + Cardinality(ArcsUsed) + Cardinality(AreasUsed)
  <1> DEFINE made == [x \in OfTypes(Mapped) |-> ComponentOf(x)]
             area == [n \in AreasUsed |-> AreaComponent(n)]
             arc  == [a \in ArcsUsed |-> ArcComponent(a)]
  <1>1. IsFiniteSet(components)
    BY KeptRows
  <1>2. /\ IsFiniteSet(OfTypes(Mapped)) /\ IsFiniteSet(OfTypes({"ACBus"}))
        /\ IsFiniteSet(OfTypes(ArcBacked)) /\ IsFiniteSet(ArcsUsed)
    <2>1. \A types : OfTypes(types) \in SUBSET components
      BY DEF OfTypes
    <2>2. ArcsUsed \in SUBSET components
      BY ArcBackedReach DEF ArcsUsed
    <2> QED
      BY <1>1, <2>1, <2>2, FS_Subset
  <1>3. IsFiniteSet(AreasUsed)
    <2> DEFINE named == {AreaOf(r) : r \in OfTypes({"ACBus"})}
               of    == [r \in OfTypes({"ACBus"}) |-> AreaOf(r)]
    <2>1. of \in [OfTypes({"ACBus"}) -> named] /\ \A n \in named : \E r \in OfTypes({"ACBus"}) : of[r] = n
      OBVIOUS
    <2>2. of \in Surjection(OfTypes({"ACBus"}), named)
      BY <2>1 DEF Surjection
    <2>3. IsFiniteSet(named)
      BY <1>2, <2>2, FS_Surjection
    <2>4. AreasUsed \in SUBSET named
      BY DEF AreasUsed
    <2> QED
      BY <2>3, <2>4, FS_Subset
  <1>4. IsFiniteSet(OwnComponents) /\ Cardinality(OwnComponents) = Cardinality(OfTypes(Mapped))
    <2>1. made \in [OfTypes(Mapped) -> OwnComponents]
      BY DEF OwnComponents
    <2>2. \A t \in OwnComponents : \E x \in OfTypes(Mapped) : made[x] = t
      BY DEF OwnComponents
    <2>3. ASSUME NEW x \in OfTypes(Mapped), NEW y \in OfTypes(Mapped), made[x] = made[y]
          PROVE  x = y
      <3>1. ComponentOf(x) = ComponentOf(y)
        BY <2>3
      <3>2. x.name = y.name
        BY <3>1, RowsAreNamed
      <3> QED
        BY <3>2, KeptRows
    <2> HIDE DEF made
    <2> QED
      BY <1>2, <2>1, <2>2, <2>3, OneForOne
  <1>5. IsFiniteSet(AreaComponents) /\ Cardinality(AreaComponents) = Cardinality(AreasUsed)
    <2>1. area \in [AreasUsed -> AreaComponents]
      BY DEF AreaComponents
    <2>2. \A t \in AreaComponents : \E n \in AreasUsed : area[n] = t
      BY DEF AreaComponents
    <2>3. ASSUME NEW m \in AreasUsed, NEW n \in AreasUsed, area[m] = area[n]
          PROVE  m = n
      <3>1. AreaComponent(m) = AreaComponent(n)
        BY <2>3
      <3> QED
        BY <3>1 DEF AreaComponent
    <2> HIDE DEF area
    <2> QED
      BY <1>3, <2>1, <2>2, <2>3, OneForOne
  <1>6. IsFiniteSet(ArcComponents) /\ Cardinality(ArcComponents) = Cardinality(ArcsUsed)
    <2>1. arc \in [ArcsUsed -> ArcComponents]
      BY DEF ArcComponents
    <2>2. \A t \in ArcComponents : \E a \in ArcsUsed : arc[a] = t
      BY DEF ArcComponents
    <2>3. ASSUME NEW a \in ArcsUsed, NEW b \in ArcsUsed, arc[a] = arc[b]
          PROVE  a = b
      <3>1. ArcComponent(a) = ArcComponent(b)
        BY <2>3
      <3>2. a.type = b.type /\ a.id = b.id
        BY <3>1, ArcsAreNamed
      <3>3. a \in components /\ b \in components
        BY ArcBackedReach DEF ArcsUsed
      <3> QED
        BY <3>2, <3>3, KeptRows
    <2> HIDE DEF arc
    <2> QED
      BY <1>2, <2>1, <2>2, <2>3, OneForOne
  <1>7. /\ \A c \in OwnComponents : c.type \in Mapped
        /\ \A c \in AreaComponents : c.type = "Area"
        /\ \A c \in ArcComponents : c.type = "Arc"
    <2>1. \A r \in OfTypes(Mapped) : ComponentOf(r).type \in Mapped
      BY RowsAreNamed DEF OfTypes
    <2>2. \A n \in AreasUsed : AreaComponent(n).type = "Area"
      BY AreasAreNamed
    <2>3. \A a \in ArcsUsed : ArcComponent(a).type = "Arc"
      BY ArcsAreNamed, ArcBackedReach DEF ArcsUsed
    <2> QED
      BY <2>1, <2>2, <2>3 DEF OwnComponents, AreaComponents, ArcComponents
  <1>8. /\ OwnComponents \cap AreaComponents = {}
        /\ (OwnComponents \cup AreaComponents) \cap ArcComponents = {}
    BY <1>7, MappedTypes
  <1>9. /\ IsFiniteSet(OwnComponents \cup AreaComponents)
        /\ Cardinality(OwnComponents \cup AreaComponents)
             = Cardinality(OfTypes(Mapped)) + Cardinality(AreasUsed) - 0
    BY <1>4, <1>5, <1>8, FS_Union, FS_EmptySet
  <1>10. Cardinality((OwnComponents \cup AreaComponents) \cup ArcComponents)
           = Cardinality(OwnComponents \cup AreaComponents) + Cardinality(ArcsUsed) - 0
    BY <1>6, <1>8, <1>9, FS_Union, FS_EmptySet
  <1>11. /\ Cardinality(OfTypes(Mapped)) \in Nat /\ Cardinality(AreasUsed) \in Nat
         /\ Cardinality(ArcsUsed) \in Nat
    BY <1>2, <1>3, FS_CardinalityType
  <1> QED
    BY <1>9, <1>10, <1>11, BuiltInParts

LEMMA RowsReferAsTheyDid ==
  ASSUME Leaving, Closing, step \notin {"validate", "close"}, system = Built,
         NEW r \in OfTypes(Mapped)
  PROVE  RefersAs(ComponentOf(r), r)
  <1>1. \A q \in OfTypes({"ACBus"}) : Reaches(OwnUuid(q), "ACBus", q.name)
    <2> SUFFICES ASSUME NEW q \in OfTypes({"ACBus"}) PROVE Reaches(OwnUuid(q), "ACBus", q.name)
      OBVIOUS
    <2>1. q \in OfTypes(Mapped) /\ q.type = "ACBus"
      BY DEF OfTypes, Mapped
    <2>2. ComponentOf(q) \in system
      BY <2>1, BuiltInParts DEF OwnComponents
    <2> QED
      BY <2>1, <2>2, RowsAreNamed DEF Reaches, OwnUuid, Uuid
  <1>2. CASE r.type = "ACBus"
    <2>1. ComponentOf(r).area = IF AreaOf(r) = None THEN None ELSE AreaUuid(AreaOf(r))
      BY <1>2 DEF ComponentOf, BusComponent
    <2>2. ASSUME AreaOf(r) # None PROVE Reaches(AreaUuid(AreaOf(r)), "Area", AreaOf(r))
      <3>1. AreaOf(r) \in AreasUsed
        BY <1>2, <2>2 DEF AreasUsed, OfTypes
      <3>2. AreaComponent(AreaOf(r)) \in system
        BY <3>1, BuiltInParts DEF AreaComponents
      <3> QED
        BY <3>2 DEF Reaches, AreaComponent
    <2>3. \A c : RefersAs(c, r) <=> IF AreaOf(r) = None THEN c.area = None
                                   ELSE Reaches(c.area, "Area", AreaOf(r))
      BY <1>2, MappedTypes DEF RefersAs
    <2>4. CASE AreaOf(r) = None
      BY <2>1, <2>3, <2>4
    <2>5. CASE AreaOf(r) # None
      <3>1. ComponentOf(r).area = AreaUuid(AreaOf(r))
        BY <2>1, <2>5
      <3> QED
        BY <2>2, <2>3, <2>5, <3>1
    <2> QED
      BY <2>4, <2>5
  <1>3. CASE r.type \in BusBacked
    <2>1. r \in OfTypes(BusBacked) /\ r.type # "ACBus"
      BY <1>3, MappedTypes DEF OfTypes
    <2>2. ComponentOf(r).bus = BusUuid(r)
      BY <1>3, <2>1 DEF ComponentOf, BusBackedComponent
    <2>3. Reaches(BusUuid(r), "ACBus", BusOf(r))
      BY <1>1, <2>1, BusBackedReach
    <2>4. r.type \notin ArcBacked
      BY <1>3, MappedTypes
    <2> QED
      BY <1>3, <2>1, <2>2, <2>3, <2>4 DEF RefersAs
  <1>4. CASE r.type \in ArcBacked
    <2>1. r \in OfTypes(ArcBacked) /\ r.type # "ACBus" /\ r.type \notin BusBacked
      BY <1>4, MappedTypes DEF OfTypes
    <2>2. ComponentOf(r).arc = Uuid("Arc", ArcOf(r).id)
      BY <2>1 DEF ComponentOf, ArcBackedComponent, ArcUuid
    <2> DEFINE a == ArcComponent(ArcOf(r))
    <2>3. a \in system
      BY <2>1, BuiltInParts DEF ArcComponents, ArcsUsed
    <2>4. a.uuid = Uuid("Arc", ArcOf(r).id) /\ a.type = "Arc"
      BY <2>1, ArcBackedReach, ArcsAreNamed DEF Uuid
    <2>5. a.from = Uuid("ACBus", ArcOf(r).from) /\ a.to = Uuid("ACBus", ArcOf(r).to)
      BY DEF ArcComponent
    <2>6. Reaches(a.from, "ACBus", Ends(r).bus0) /\ Reaches(a.to, "ACBus", Ends(r).bus1)
      BY <1>1, <2>1, <2>5, ArcBackedReach
    <2> HIDE DEF a
    <2>7. \A c : RefersAs(c, r) <=> \E x \in system :
                                      /\ x.uuid = c.arc /\ x.type = "Arc"
                                      /\ Reaches(x.from, "ACBus", Ends(r).bus0)
                                      /\ Reaches(x.to, "ACBus", Ends(r).bus1)
      BY <1>4, <2>1 DEF RefersAs
    <2>8. a.uuid = ComponentOf(r).arc
      BY <2>2, <2>4
    <2> QED
      BY <2>3, <2>4, <2>6, <2>7, <2>8
  <1> QED
    BY <1>2, <1>3, <1>4, MappedTypes DEF OfTypes

\* How far the target's part of the leg has come with what was kept.
TablesOf(rows) == [t \in {c.type : c \in rows} |-> {c \in rows : c.type = t}]

Refused ==
  \/ \E r \in OfTypes(Mapped) : ~TakesCost(r) \/ ~TakesRow(r)
  \/ \E r \in OfTypes(LinkTypes) : ~HasLinearLoss(r)

Building ==
  /\ step = "ps_map" => registry = Assigned
  /\ step \in {"ps_sidecar", "ps_system"} => ps_tables = TablesOf(Built)
  /\ step = "ps_written" => system = Built
  /\ step = "ps_failed" => Refused

Keeping == Leaving /\ Closing /\ Building

LEMMA BuildingStep == Keeping /\ [PsNext]_leg_vars => Building'
  <1> SUFFICES ASSUME Keeping, [PsNext]_leg_vars PROVE Building'
    OBVIOUS
  <1> USE DEF Keeping
  <1>1. ASSUME UNCHANGED components
        PROVE  Assigned' = Assigned /\ Built' = Built /\ (Refused' <=> Refused)
    BY <1>1 DEF Assigned, Built, Refused, OwnUuids, AreasUsed, ArcsUsed, OfTypes, AreaOf, ArcOf,
                BusComponent, ArcComponent, BusBackedComponent, ArcBackedComponent, ArcUuid, EndLimits,
                FlowBounds, HasLinearLoss
  <1>2. CASE FillAvailability
    BY <1>2 DEF FillAvailability, Building
  <1>3. CASE AssignUuids
    <2>1. step' = "ps_map" /\ UNCHANGED components /\ registry' = Assigned
      BY <1>3 DEF AssignUuids, Assigned, Read
    <2> QED
      BY <1>1, <2>1 DEF Building
  <1>4. CASE MapToPowerSimulations
    <2>1. step = "ps_map" /\ UNCHANGED components /\ step' \in {"ps_sidecar", "ps_failed"}
      BY <1>4 DEF MapToPowerSimulations, Read
    <2>2. LookedUp \subseteq registry
      BY <2>1, EveryReferenceIsAssigned DEF Building
    <2>3. step' = "ps_sidecar" => ps_tables' = TablesOf(Built)
      BY <1>4 DEF MapToPowerSimulations, TablesOf
    <2>4. step' = "ps_failed" => Refused
      BY <1>4, <2>2, MappedTypes DEF MapToPowerSimulations, Refused, OfTypes
    <2> QED
      BY <1>1, <2>1, <2>3, <2>4 DEF Building
  <1>5. CASE WriteSidecar
    <2>1. step = "ps_sidecar" /\ step' = "ps_system" /\ UNCHANGED <<components, ps_tables>>
      BY <1>5 DEF WriteSidecar, Read
    <2>2. TablesOf(Built)' = TablesOf(Built)
      BY <1>1, <2>1 DEF TablesOf
    <2> QED
      BY <2>1, <2>2 DEF Building
  <1>6. CASE WriteSystem
    <2>1. step = "ps_system" /\ UNCHANGED components /\ step' \in {"ps_written", "ps_failed"}
      BY <1>6 DEF WriteSystem, Read
    <2>2. step' = "ps_failed" => Refused
      BY <1>6 DEF WriteSystem, Refused
    <2>3. ASSUME step' = "ps_written" PROVE system' = Built
      <3>1. system' = UNION {ps_tables[t] : t \in DOMAIN ps_tables}
        BY <1>6, <2>3 DEF WriteSystem
      <3>2. DOMAIN ps_tables = {c.type : c \in Built}
            /\ \A t \in DOMAIN ps_tables : ps_tables[t] = {c \in Built : c.type = t}
        BY <2>1 DEF Building, TablesOf
      <3>3. \A x : x \in system' <=> \E t \in DOMAIN ps_tables : x \in ps_tables[t]
        BY <3>1
      <3>4. \A x : x \in system' <=> x \in Built
        BY <3>2, <3>3
      <3> QED
        BY <3>4
    <2> QED
      BY <1>1, <2>1, <2>2, <2>3 DEF Building
  <1>7. CASE Next /\ UNCHANGED ps_vars
    <2>1. step' \notin {"ps_map", "ps_sidecar", "ps_system", "ps_written", "ps_failed"} \/ UNCHANGED vars
      BY <1>7, PartsInOrder
         DEF Next, KeepValidRows, DropRowsThatReferToNoRow, DropAssociationsOfNoOwner, StageSeries,
             MapBuses, MapGenerators, MapStorageUnits, MapLoads, MapLines, MapLinks,
             DropProfilesOffTheWindow, RelateComponents, BuildNetwork, Terminated
    <2>2. CASE UNCHANGED vars
      <3>1. UNCHANGED <<step, components, registry, ps_tables, system>>
        BY <1>7, <2>2 DEF vars, ps_vars
      <3>2. TablesOf(Built)' = TablesOf(Built)
        BY <1>1, <3>1 DEF TablesOf
      <3> QED
        BY <1>1, <3>1, <3>2 DEF Building
    <2> QED
      BY <2>1, <2>2 DEF Building
  <1>8. CASE UNCHANGED leg_vars
    <2>1. UNCHANGED <<step, components, registry, ps_tables, system>>
      BY <1>8 DEF leg_vars, vars, ps_vars
    <2>2. TablesOf(Built)' = TablesOf(Built)
      BY <1>1, <2>1 DEF TablesOf
    <2> QED
      BY <1>1, <2>1, <2>2 DEF Building
  <1> QED
    BY <1>2, <1>3, <1>4, <1>5, <1>6, <1>7, <1>8 DEF PsNext, PsTerminated

\* Any document's system is the part of it that was kept: one component for each row and for
\* each arc and area in use, told apart by their UUIDs, and each reaches by UUID what its row
\* named by id; and only a row the target refuses keeps it from being written.
THEOREM TheKeptPartIsTheSystem == PsSpec => []SystemIsTheKeptPart
  <1>1. ASSUME Keeping, step = "ps_written"
        PROVE  /\ \A c, d \in system : c.uuid = d.uuid => c = d
               /\ \A r \in OfTypes(Mapped) :
                    LET is == {c \in system : c.type = r.type /\ c.name = r.name}
                    IN  Cardinality(is) = 1 /\ \A c \in is : RefersAs(c, r)
               /\ Cardinality(system)
                    = Cardinality(OfTypes(Mapped)) + Cardinality(ArcsUsed) + Cardinality(AreasUsed)
    <2>1. system = Built /\ step \notin {"validate", "close"} /\ Leaving /\ Closing
      BY <1>1 DEF Keeping, Building
    <2>2. \A c, d \in system : c.uuid = d.uuid => c = d
      BY <2>1, UuidsTellComponentsApart
    <2>3. ASSUME NEW r \in OfTypes(Mapped)
          PROVE  LET is == {c \in system : c.type = r.type /\ c.name = r.name}
                 IN  Cardinality(is) = 1 /\ \A c \in is : RefersAs(c, r)
      <3> DEFINE is == {c \in system : c.type = r.type /\ c.name = r.name}
      <3>1. is = {ComponentOf(r)}
        BY <2>1, RowsAreOneComponent, Zenon
      <3>2. RefersAs(ComponentOf(r), r)
        BY <2>1, RowsReferAsTheyDid
      <3>3. Cardinality({ComponentOf(r)}) = 1
        BY FS_Singleton
      <3> HIDE DEF is
      <3>4. Cardinality(is) = 1
        BY <3>1, <3>3, Zenon
      <3>5. \A c \in is : RefersAs(c, r)
        BY <3>1, <3>2
      <3> QED
        BY <3>4, <3>5 DEF is
    <2>4. Cardinality(Built)
            = Cardinality(OfTypes(Mapped)) + Cardinality(ArcsUsed) + Cardinality(AreasUsed)
      BY <2>1, BuiltOneForOne
    <2> QED
      BY <2>1, <2>2, <2>3, <2>4
  <1>2. Keeping => SystemIsTheKeptPart
    BY <1>1 DEF SystemIsTheKeptPart, Keeping, Building, Refused
  <1>3. PsInit => Keeping
    <2>1. PsInit => Leaving
      BY FatesInit DEF Fates
    <2>2. PsInit => Building
      BY DEF PsInit, Init, Building
    <2> QED
      BY <2>1, <2>2, ClosingInit DEF Keeping
  <1>4. Keeping /\ [PsNext]_leg_vars => Keeping'
    BY LeavingStep, ClosingStep, BuildingStep DEF Keeping
  <1> QED
    BY <1>2, <1>3, <1>4, PTL DEF PsSpec

(* --------------------------- the staged series -------------------------- *)

SeriesKey(a) == <<a.type, a.name>>

\* The staged series hold each series kept, in the unit the source stages it in ...
StagesAsStored ==
  \A a \in Staged : a.type \in Mapped =>
    /\ SeriesKey(a) \in DOMAIN series
    /\ Owner(a).name \in DOMAIN series[SeriesKey(a)]
    /\ series[SeriesKey(a)][Owner(a).name] = [at |-> a.at, values |-> PerUnit(a)]

\* ... and, until the target's part of the leg adds flat ones, no other.
StagesNothingElse ==
  \A k \in DOMAIN series : k[1] \in Mapped =>
    \A n \in DOMAIN series[k] : \E a \in Staged : k = SeriesKey(a) /\ n = Owner(a).name

Staging ==
  /\ step \notin {"validate", "close", "owners"} =>
       associations = {a \in document.associations : HasOwner(a)}
  /\ step \notin Reading => StagesAsStored
  /\ step \in ToSet(Parts) \ Reading => StagesNothingElse

LEMMA OwnersAreKept ==
  ASSUME NEW a, HasOwner(a)
  PROVE  Owner(a) \in components /\ Owner(a).type = a.type /\ Owner(a).id = a.owner
  BY DEF HasOwner, Owner

\* A component has one staged series of a name, and no other component has its name.
LEMMA SeriesAreTheirOwn ==
  ASSUME Leaving, step # "validate", associations = {a \in document.associations : HasOwner(a)},
         NEW a \in associations, NEW b \in associations, a.type \in Mapped, b.type \in Mapped,
         Owner(a).name = Owner(b).name
  PROVE  /\ Owner(a) = Owner(b) /\ a.type = b.type
         /\ a.name = b.name => a = b
  <1>1. /\ Owner(a) \in components /\ Owner(a).type = a.type /\ Owner(a).id = a.owner
        /\ Owner(b) \in components /\ Owner(b).type = b.type /\ Owner(b).id = b.owner
    BY OwnersAreKept
  <1>2. Owner(a) = Owner(b)
    BY <1>1, NamesAreTheirOwn DEF OfTypes
  <1> QED
    BY <1>1, <1>2, DocumentsAssumption DEF Leaving

\* What the series of a document depends on.
LEMMA SeriesDependOn ==
  ASSUME UNCHANGED <<document, components, associations>>
  PROVE  /\ \A a : HasOwner(a)' = HasOwner(a) /\ Owner(a)' = Owner(a) /\ PerUnit(a)' = PerUnit(a)
         /\ Staged' = Staged
         /\ {a \in document.associations : HasOwner(a)}' = {a \in document.associations : HasOwner(a)}
  <1>1. \A a : HasOwner(a)' = HasOwner(a) /\ Owner(a)' = Owner(a)
    BY DEF HasOwner, Owner
  <1>2. \A a : PerUnit(a)' = PerUnit(a)
    BY <1>1 DEF PerUnit
  <1>3. Staged' = Staged
    BY <1>1 DEF Staged, IsConvertible, HasNamedOwner
  <1> QED
    BY <1>1, <1>2, <1>3

\* A step that leaves each series of a mapped type as it is keeps what was staged.
LEMMA StagingKept ==
  ASSUME Staging, UNCHANGED <<document, components, associations>>,
         step \notin Reading, step' \notin Reading, step' \in ToSet(Parts) => step \in ToSet(Parts),
         \A k : k[1] \in Mapped =>
           /\ k \in DOMAIN series <=> k \in DOMAIN series'
           /\ k \in DOMAIN series => series'[k] = series[k]
  PROVE  Staging'
  <1>1. StagesAsStored /\ (step' \in ToSet(Parts) => StagesNothingElse)
    BY DEF Staging
  <1>2. step \notin {"validate", "close", "owners"} /\ step' \notin {"validate", "close", "owners"}
    BY DEF Reading
  <1>3. (associations = {a \in document.associations : HasOwner(a)})'
    BY <1>2, SeriesDependOn DEF Staging
  <1>4. \A a : SeriesKey(a)[1] = a.type /\ SeriesKey(a)' = SeriesKey(a)
    BY DEF SeriesKey
  <1>5. StagesAsStored'
    BY <1>1, <1>4, SeriesDependOn DEF StagesAsStored
  <1>6. ASSUME StagesNothingElse PROVE StagesNothingElse'
    BY <1>4, <1>6, SeriesDependOn DEF StagesNothingElse
  <1> QED
    BY <1>1, <1>3, <1>5, <1>6 DEF Staging

LEMMA CompanionJoins ==
  ASSUME NEW columns, NEW k, k[1] \in Mapped
  PROVE  /\ k \in DOMAIN series <=> k \in DOMAIN WithCompanion(columns)
         /\ k \in DOMAIN series => WithCompanion(columns)[k] = series[k]
  <1>1. CompanionOwner \notin Mapped
    BY DEF CompanionOwner, Mapped, GeneratorTypes, PlantTypes, StorageTypes, LoadTypes, LineTypes,
           LinkTypes
  <1>2. \A column : k # Companion(column)
    BY <1>1 DEF Companion
  <1> QED
    BY <1>2 DEF WithCompanion

LEMMA StagingInit == PsInit => Staging
  BY DEF PsInit, Init, Staging, Reading

LEMMA StagingStep == Leaving /\ Staging /\ [PsNext]_leg_vars => Staging'
  <1> SUFFICES ASSUME Leaving, Staging, [PsNext]_leg_vars PROVE Staging'
    OBVIOUS
  <1>1. CASE KeepValidRows \/ DropRowsThatReferToNoRow
    <2>1. step' \in {"close", "owners"}
      BY <1>1, PartsInOrder DEF KeepValidRows, DropRowsThatReferToNoRow
    <2> QED
      BY <2>1 DEF Staging, Reading
  <1>2. CASE DropAssociationsOfNoOwner
    <2>1. /\ step' = "series" /\ UNCHANGED <<document, components>>
          /\ associations' = {a \in document.associations : HasOwner(a)}
      BY <1>2, PartsInOrder DEF DropAssociationsOfNoOwner
    <2>2. \A a : HasOwner(a)' = HasOwner(a)
      BY <2>1 DEF HasOwner
    <2> QED
      BY <2>1, <2>2 DEF Staging, Reading
  <1>3. CASE StageSeries
    <2> DEFINE of(k) == {a \in Staged : SeriesKey(a) = k}
               in(k, n) == CHOOSE b \in of(k) : Owner(b).name = n
    <2>1. step = "series" /\ step' = "buses" /\ UNCHANGED <<document, components, associations>>
      BY <1>3, PartsInOrder DEF StageSeries
    <2>2. associations = {a \in document.associations : HasOwner(a)}
      BY <2>1 DEF Staging
    <2>3. series' = [k \in {SeriesKey(a) : a \in Staged} |->
                       [n \in {Owner(a).name : a \in of(k)} |->
                          [at |-> in(k, n).at, values |-> PerUnit(in(k, n))]]]
      BY <1>3 DEF StageSeries, SeriesKey
    <2>4. ASSUME NEW a \in Staged, a.type \in Mapped
          PROVE  in(SeriesKey(a), Owner(a).name) = a
      <3>1. a \in of(SeriesKey(a))
        OBVIOUS
      <3>2. ASSUME NEW b \in of(SeriesKey(a)), Owner(b).name = Owner(a).name
            PROVE  b = a
        <4>1. b.type = a.type /\ b.name = a.name /\ a \in associations /\ b \in associations
          BY <3>2 DEF SeriesKey, Staged
        <4> QED
          BY <2>1, <2>2, <2>4, <3>2, <4>1, SeriesAreTheirOwn
      <3> QED
        BY <3>1, <3>2
    <2> HIDE DEF in
    <2>5. StagesAsStored'
      BY <2>1, <2>3, <2>4, SeriesDependOn DEF StagesAsStored, SeriesKey
    <2>6. StagesNothingElse'
      BY <2>1, <2>3, SeriesDependOn DEF StagesNothingElse, SeriesKey
    <2> QED
      BY <2>1, <2>2, <2>5, <2>6, SeriesDependOn DEF Staging
  <1>4. ASSUME UNCHANGED <<document, components, associations>>,
               step \in ToSet(Parts) \ Reading, step' \notin Reading,
               series' = series \/ \E columns : series' = WithCompanion(columns)
        PROVE  Staging'
    BY <1>4, CompanionJoins, StagingKept
  <1>5. CASE MapBuses \/ MapLoads \/ MapLines \/ MapLinks
    <2>1. step \in Classes /\ step' \in (Classes \cup {"window", "failed"}) \ {"buses"}
      BY <1>5, PartsInOrder DEF MapBuses, MapLoads, MapLines, MapLinks, Classes
    <2>2. step \in ToSet(Parts) \ Reading /\ step' \notin Reading
      BY <2>1 DEF ToSet, Parts, Classes, Reading
    <2> QED
      BY <1>4, <1>5, <2>2 DEF MapBuses, MapLoads, MapLines, MapLinks
  <1>6. CASE MapGenerators \/ MapStorageUnits
    <2>1. step \in {"generators", "storage_units"} /\ step' \in {"storage_units", "loads"}
      BY <1>6, PartsInOrder DEF MapGenerators, MapStorageUnits
    <2>2. step \in ToSet(Parts) \ Reading /\ step' \notin Reading
      BY <2>1 DEF ToSet, Parts, Reading
    <2>3. series' = series \/ \E columns : series' = WithCompanion(columns)
      BY <1>6 DEF MapGenerators, MapStorageUnits
    <2> QED
      BY <1>4, <1>6, <2>2, <2>3 DEF MapGenerators, MapStorageUnits
  <1>7. CASE DropProfilesOffTheWindow \/ RelateComponents \/ BuildNetwork
    <2>1. /\ step \in {"window", "locations", "write"}
          /\ step' \in {"locations", "write", "written", "failed"}
      BY <1>7, PartsInOrder DEF DropProfilesOffTheWindow, RelateComponents, BuildNetwork
    <2>2. step \in ToSet(Parts) \ Reading /\ step' \notin Reading
      BY <2>1 DEF ToSet, Parts, Reading
    <2> QED
      BY <1>4, <1>7, <2>2 DEF DropProfilesOffTheWindow, RelateComponents, BuildNetwork
  <1>8. CASE FillAvailability
    <2>1. step = "buses" /\ step' = "ps_uuids" /\ UNCHANGED <<document, components, associations>>
      BY <1>8 DEF FillAvailability, Read
    <2>2. step \notin Reading /\ step' \notin Reading /\ step' \notin ToSet(Parts)
      BY <2>1 DEF Reading, ToSet, Parts
    <2>3. ASSUME NEW k \in DOMAIN series, NEW n \in DOMAIN series[k]
          PROVE  k \in DOMAIN series' /\ n \in DOMAIN series'[k] /\ series'[k][n] = series[k][n]
      BY <1>8 DEF FillAvailability
    <2>4. StagesAsStored'
      BY <2>1, <2>2, <2>3, SeriesDependOn DEF Staging, StagesAsStored, SeriesKey
    <2>5. (associations = {a \in document.associations : HasOwner(a)})'
      BY <2>1, SeriesDependOn DEF Staging
    <2> QED
      BY <2>2, <2>4, <2>5 DEF Staging
  <1>9. CASE AssignUuids \/ MapToPowerSimulations \/ WriteSidecar \/ WriteSystem
    <2>1. /\ UNCHANGED <<document, components, associations, series>>
          /\ step \in {"ps_uuids", "ps_map", "ps_sidecar", "ps_system"}
          /\ step' \in {"ps_map", "ps_sidecar", "ps_system", "ps_written", "ps_failed"}
      BY <1>9 DEF AssignUuids, MapToPowerSimulations, WriteSidecar, WriteSystem, Read
    <2>2. step \notin Reading /\ step' \notin Reading /\ step' \notin ToSet(Parts)
      BY <2>1 DEF Reading, ToSet, Parts
    <2> QED
      BY <2>1, <2>2, StagingKept
  <1>10. CASE UNCHANGED vars
    <2>1. UNCHANGED <<step, document, components, associations, series>>
      BY <1>10 DEF vars
    <2>2. CASE step \notin Reading
      BY <2>1, <2>2, StagingKept
    <2>3. CASE step \in Reading
      <3>1. (associations = {a \in document.associations : HasOwner(a)})'
              = (associations = {a \in document.associations : HasOwner(a)})
        BY <2>1, SeriesDependOn
      <3> QED
        BY <2>1, <2>3, <3>1 DEF Staging
    <2> QED
      BY <2>2, <2>3
  <1> QED
    BY <1>1, <1>2, <1>3, <1>5, <1>6, <1>7, <1>8, <1>9, <1>10
       DEF PsNext, Next, Terminated, PsTerminated, leg_vars

(* --------------------------- the sidecar -------------------------------- *)

\* What the sidecar holds of a series that is staged.
Stored(a) ==
  [type |-> a.type, name |-> a.name, owner |-> OwnUuid(Owner(a)), at |-> a.at, values |-> PerUnit(a)]

Storing ==
  step \in {"ps_system", "ps_written"} => \A a \in Staged : a.type \in BusBacked => Stored(a) \in sidecar

Keepings == Keeping /\ Staging /\ Storing

LEMMA StoringStep == Keepings /\ [PsNext]_leg_vars => Storing'
  <1> SUFFICES ASSUME Keepings, [PsNext]_leg_vars PROVE Storing'
    OBVIOUS
  <1> USE DEF Keepings
  <1>1. CASE WriteSidecar
    <2>1. step = "ps_sidecar" /\ UNCHANGED <<document, components, associations>>
      BY <1>1 DEF WriteSidecar, Read
    <2>2. ps_tables = TablesOf(Built)
      BY <2>1 DEF Keeping, Building
    <2>3. StagesAsStored /\ associations = {a \in document.associations : HasOwner(a)}
      BY <2>1 DEF Staging, Reading
    <2>4. ASSUME NEW a \in Staged, a.type \in BusBacked
          PROVE  Stored(a) \in sidecar'
      <3> DEFINE k == SeriesKey(a)
                 c == ComponentOf(Owner(a))
      <3>1. Owner(a) \in OfTypes(Mapped) /\ Owner(a).type = a.type
        BY <2>3, <2>4, OwnersAreKept, MappedTypes DEF Staged, OfTypes
      <3>2. c \in Built /\ c.type = a.type /\ c.name = Owner(a).name /\ c.uuid = OwnUuid(Owner(a))
        BY <3>1, BuiltInParts, RowsAreNamed DEF OwnComponents, OwnUuid, Uuid
      <3>3. /\ k \in DOMAIN series /\ c.name \in DOMAIN series[k]
            /\ series[k][c.name] = [at |-> a.at, values |-> PerUnit(a)]
        BY <2>3, <2>4, <3>2, MappedTypes DEF StagesAsStored
      <3>4. k[1] = a.type /\ k[2] = a.name
        BY DEF SeriesKey
      <3>5. c \in PsRows(k[1])
        BY <2>2, <3>2, <3>4 DEF PsRows, TablesOf
      <3>6. [type |-> k[1], name |-> k[2], owner |-> c.uuid,
             at |-> series[k][c.name].at, values |-> series[k][c.name].values] \in sidecar'
        <4> DEFINE keys    == {key \in DOMAIN series : key[1] \in BusBacked}
                   under(key) == {[type |-> key[1], name |-> key[2], owner |-> d.uuid,
                                   at |-> series[key][d.name].at, values |-> series[key][d.name].values] :
                                  d \in {row \in PsRows(key[1]) : row.name \in DOMAIN series[key]}}
        <4>1. sidecar' = UNION {under(key) : key \in keys}
          BY <1>1 DEF WriteSidecar
        <4>2. k \in keys
          BY <2>4, <3>3, <3>4
        <4>3. [type |-> k[1], name |-> k[2], owner |-> c.uuid,
               at |-> series[k][c.name].at, values |-> series[k][c.name].values] \in under(k)
          BY <3>3, <3>5
        <4> HIDE DEF k, c, keys, under
        <4> QED
          BY <4>1, <4>2, <4>3
      <3> HIDE DEF k, c
      <3> QED
        BY <3>2, <3>3, <3>4, <3>6 DEF Stored
    <2>5. \A a : Stored(a)' = Stored(a)
      BY <2>1, SeriesDependOn DEF Stored, OwnUuid, Uuid
    <2> QED
      BY <2>1, <2>4, <2>5, SeriesDependOn DEF Storing
  <1>2. ASSUME UNCHANGED <<document, components, associations, sidecar>>,
               step' \in {"ps_system", "ps_written"} => step \in {"ps_system", "ps_written"}
        PROVE  Storing'
    <2>1. \A a : Stored(a)' = Stored(a)
      BY <1>2, SeriesDependOn DEF Stored, OwnUuid, Uuid
    <2> QED
      BY <1>2, <2>1, SeriesDependOn DEF Storing
  <1>3. CASE FillAvailability \/ AssignUuids \/ MapToPowerSimulations \/ WriteSystem
    BY <1>2, <1>3 DEF FillAvailability, AssignUuids, MapToPowerSimulations, WriteSystem, Read
  <1>4. CASE Next /\ UNCHANGED ps_vars
    <2>1. step' \notin {"ps_system", "ps_written"} \/ UNCHANGED vars
      BY <1>4, PartsInOrder
         DEF Next, KeepValidRows, DropRowsThatReferToNoRow, DropAssociationsOfNoOwner, StageSeries,
             MapBuses, MapGenerators, MapStorageUnits, MapLoads, MapLines, MapLinks,
             DropProfilesOffTheWindow, RelateComponents, BuildNetwork, Terminated
    <2>2. CASE UNCHANGED vars
      BY <1>2, <1>4, <2>2 DEF vars, ps_vars
    <2> QED
      BY <2>1, <2>2 DEF Storing
  <1>5. CASE UNCHANGED leg_vars
    BY <1>2, <1>5 DEF leg_vars, vars, ps_vars
  <1> QED
    BY <1>1, <1>3, <1>4, <1>5 DEF PsNext, PsTerminated

\* Dividing by the capacity and multiplying by it, with the base divided out and in between,
\* gives back the megawatts, and so does the capacity for a value stored per unit.
LEMMA CapacitiesCancel ==
  ASSUME NEW v \in Int, NEW capacity \in Int, NEW base \in Int
  PROVE  /\ Same(Times(Times(<<v, capacity>>, <<capacity, base>>), <<base, 1>>), <<v, 1>>)
         /\ Same(Times(Times(<<v, 1>>, <<capacity, base>>), <<base, 1>>), <<v * capacity, 1>>)
  <1>1. (v * capacity) * base * 1 = v * (capacity * base * 1)
    OBVIOUS
  <1>2. (v * capacity) * base * 1 = (v * capacity) * (1 * base * 1)
    OBVIOUS
  <1> QED
    BY <1>1, <1>2 DEF Same, Times

\* In any document, a series of the sidecar and the component of the system document it is of
\* state together the megawatts stored: the capacity staging divided by is the one the system
\* states, in whatever base.
THEOREM TheSidecarHoldsTheMegawatts == PsSpec => []SidecarHoldsTheStoredMegawatts
  <1>1. ASSUME Keepings, step = "ps_written", NEW a \in Staged,
               a.name = Availability, a.type \in PlantTypes \cup LoadTypes,
               Owner(a).units = "natural", Owner(a).base # 0, SeriesCapacity(Owner(a)) # 0
        PROVE  \E c \in system, e \in sidecar :
                 /\ c.type = a.type /\ c.name = Owner(a).name /\ e.owner = c.uuid /\ e.name = a.name
                 /\ e.at = a.at /\ DOMAIN e.values = DOMAIN a.values
                 /\ \A i \in DOMAIN a.values : Same(ReadMegawatts(c, e.values[i]), StoredMegawatts(a, i))
    <2> DEFINE r == Owner(a)
               c == ComponentOf(r)
               e == Stored(a)
    <2>1. step \notin {"validate", "close", "owners"} /\ step \notin Reading /\ Leaving /\ Staging
      BY <1>1 DEF Keepings, Keeping, Reading
    <2>2. a.type \in BusBacked /\ a.type \in Mapped /\ a.type # "ACBus" /\ a.type # "HydroDispatch"
          /\ a.type \in GeneratorTypes \cup LoadTypes /\ a.type \notin StorageTypes
      BY <1>1 DEF BusBacked, Mapped, GeneratorTypes, PlantTypes, LoadTypes, StorageTypes
    <2>3. r \in OfTypes(Mapped) /\ r.type = a.type /\ r \in document.rows
      BY <2>1, <2>2, OwnersAreKept DEF Staging, Staged, OfTypes, Leaving
    <2>4. system = Built /\ c \in Built /\ c.type = a.type /\ c.name = r.name /\ c.uuid = OwnUuid(r)
      BY <1>1, <2>3, BuiltInParts, RowsAreNamed
         DEF Keepings, Keeping, Building, OwnComponents, OwnUuid, Uuid
    <2>5. e \in sidecar /\ e.owner = OwnUuid(r) /\ e.name = a.name /\ e.at = a.at /\ e.values = PerUnit(a)
      BY <1>1, <2>2 DEF Keepings, Storing, Stored
    <2>6. DOMAIN PerUnit(a) = DOMAIN a.values
      BY DEF PerUnit
    <2>7. c.base = r.base /\ c.power = PowerOf(r)
      BY <2>2, <2>3 DEF ComponentOf, BusBackedComponent
    <2>8. /\ r.base \in Int /\ r.max \in Int /\ (r.type \in GeneratorTypes => r.rating \in Int)
          /\ a.values \in Seq(Int)
      BY <2>1, <2>2, <2>3, DocumentsAssumption
         DEF HoldsWholeMegawatts, Leaving, Staging, Staged
    <2>9. SeriesCapacity(r) \in Int
          /\ (IF c.type \in Renewables THEN c.power.rating ELSE c.power.max) = <<SeriesCapacity(r), r.base>>
      <3>1. CASE r.type \in Renewables
        <4>1. PowerFields(r.type) = {"rating"} /\ PerUnitFields(r.type) = {"rating"}
          BY <3>1 DEF PowerFields, PerUnitFields, Renewables, LoadTypes, StorageTypes
        <4>2. c.power.rating = <<r.rating, r.base>>
          BY <1>1, <2>7, <4>1 DEF PowerOf
        <4>3. SeriesCapacity(r) = r.rating /\ r.type \in GeneratorTypes
          BY <3>1 DEF SeriesCapacity, Renewables, LoadTypes, GeneratorTypes, PlantTypes
        <4> QED
          BY <2>3, <2>4, <2>8, <3>1, <4>2, <4>3
      <3>2. CASE r.type \notin Renewables
        <4>1. r.type \in {"ThermalStandard"} \cup LoadTypes
          BY <1>1, <2>3, <3>2 DEF Renewables, PlantTypes
        <4>2. "max" \in PowerFields(r.type) /\ "max" \in PerUnitFields(r.type)
          BY <4>1 DEF PowerFields, PerUnitFields, Renewables, LoadTypes, StorageTypes
        <4>3. c.power.max = <<r.max, r.base>>
          BY <1>1, <2>7, <4>2 DEF PowerOf
        <4>4. SeriesCapacity(r) = r.max
          BY <4>1 DEF SeriesCapacity, Renewables, LoadTypes
        <4> QED
          BY <2>3, <2>4, <2>8, <3>2, <4>3, <4>4
      <3> QED
        BY <3>1, <3>2
    <2>10. ASSUME NEW i \in DOMAIN a.values
           PROVE  Same(ReadMegawatts(c, e.values[i]), StoredMegawatts(a, i))
      <3> DEFINE capacity == SeriesCapacity(r)
      <3>1. a.values[i] \in Int
        BY <2>8
      <3>2. ReadMegawatts(c, e.values[i]) =
              Times(Times(PerUnit(a)[i], <<capacity, r.base>>), <<r.base, 1>>)
        BY <2>5, <2>7, <2>9 DEF ReadMegawatts
      <3>3. CASE a.natural
        <4>1. PerUnit(a)[i] = <<a.values[i], capacity>>
          BY <1>1, <3>3 DEF PerUnit
        <4>2. StoredMegawatts(a, i) = <<a.values[i], 1>>
          BY <3>3 DEF StoredMegawatts
        <4> HIDE DEF c, e, r, capacity
        <4> QED
          BY <2>8, <2>9, <3>1, <3>2, <4>1, <4>2, CapacitiesCancel DEF r, capacity
      <3>4. CASE ~a.natural
        <4>1. PerUnit(a)[i] = <<a.values[i], 1>>
          BY <3>4 DEF PerUnit
        <4>2. StoredMegawatts(a, i) = <<a.values[i] * capacity, 1>>
          BY <3>4 DEF StoredMegawatts
        <4> HIDE DEF c, e, r, capacity
        <4> QED
          BY <2>8, <2>9, <3>1, <3>2, <4>1, <4>2, CapacitiesCancel DEF r, capacity
      <3> QED
        BY <3>3, <3>4
    <2> HIDE DEF c, e, r
    <2> QED
      BY <2>4, <2>5, <2>6, <2>10 DEF r
  <1>2. Keepings => SidecarHoldsTheStoredMegawatts
    BY <1>1 DEF SidecarHoldsTheStoredMegawatts
  <1>3. PsInit => Keepings
    <2>1. PsInit => Leaving
      BY FatesInit DEF Fates
    <2>2. PsInit => Building /\ Storing
      BY DEF PsInit, Init, Building, Storing
    <2> QED
      BY <2>1, <2>2, ClosingInit, StagingInit DEF Keepings, Keeping
  <1>4. Keepings /\ [PsNext]_leg_vars => Keepings'
    BY LeavingStep, ClosingStep, BuildingStep, StagingStep, StoringStep DEF Keepings, Keeping
  <1> QED
    BY <1>2, <1>3, <1>4, PTL DEF PsSpec

(* --------------------- the metadata of the series ----------------------- *)

SeriesTypes == GeneratorTypes \cup LoadTypes

AttributeOf(type) ==
  IF type \in PlantTypes THEN "p_max_pu" ELSE IF type = "HydroDispatch" THEN "inflow" ELSE "p_set"
SeriesRead(type) == IF type = "HydroDispatch" THEN "hydro_budget" ELSE "max_active_power"
ScaleFor(r) ==
  IF r.type \in PlantTypes THEN GeneratorScale(r)
  ELSE IF r.type = "HydroDispatch" THEN <<r.base, 1>> ELSE <<r.max, 1>>

IsFrame(f) ==
  f = [table |-> f.table, attribute |-> f.attribute, key |-> f.key, scale |-> f.scale, length |-> f.length]

\* Metadata points components that are read at the staged series their type is read from, or
\* at a column of the companion.
PointsInto(f, all) ==
  \E type \in SeriesTypes :
    /\ f.key = <<type, SeriesRead(type)>> /\ f.table = TableFor(type) /\ f.attribute = AttributeOf(type)
    /\ \A n \in DOMAIN f.scale :
         /\ f.key \in DOMAIN all /\ n \in DOMAIN all[f.key]
         /\ \E r \in ReadFor(f.table) : r.name = n /\ f.scale[n] = ScaleFor(r)
PointsAtCompanion(f) ==
  f.key \in {Companion("marginal_cost"), Companion("inflow_mw"), Companion("rating_pu")}
IsPointer(f) == IsFrame(f) /\ (PointsInto(f, series) \/ PointsAtCompanion(f))

Profile(a) == [owner |-> a.type, series |-> a.name, component |-> Owner(a).name]
IsPointedAt(a) == \E f \in ToSet(metadata) : f.key = SeriesKey(a) /\ Owner(a).name \in DOMAIN f.scale
IsMappedSeries(a) ==
  /\ a.type \in SeriesTypes /\ IsRead(a)
  /\ IsPast(TableFor(a.type)) /\ Owner(a) \in ReadFor(TableFor(a.type))

\* A staged series of a component that is mapped is pointed at or is reported off the window.
Pointing ==
  step \in ToSet(Parts) =>
    /\ metadata \in Seq(ToSet(metadata))
    /\ step \in Reading => metadata = << >>
    /\ \A f \in ToSet(metadata) : IsPointer(f)
    /\ step \notin {"locations", "write", "written"} => dropped = {}
    /\ \A p \in dropped : p.owner \in SeriesTypes => \E a \in Staged : p = Profile(a)
    /\ \A a \in Staged : IsMappedSeries(a) => (IsPointedAt(a) <=> Profile(a) \notin dropped)

LEMMA TablesOfSeries ==
  ASSUME NEW type \in SeriesTypes
  PROVE  /\ type \in Mapped /\ type # CompanionOwner /\ TableFor(type) \in Classes
         /\ TableFor(type) \in {"generators", "storage_units", "loads"}
         /\ type \in PlantTypes <=> TableFor(type) = "generators"
         /\ type = "HydroDispatch" <=> TableFor(type) = "storage_units"
         /\ type \in LoadTypes <=> TableFor(type) = "loads"
  BY DEF SeriesTypes, Mapped, TableFor, Classes, GeneratorTypes, PlantTypes, StorageTypes, LoadTypes,
         LineTypes, LinkTypes, CompanionOwner

LEMMA SeriesReadOfATable ==
  ASSUME NEW type \in SeriesTypes
  PROVE  /\ TableFor(type) = "generators" =>
              type \in PlantTypes /\ AttributeOf(type) = "p_max_pu" /\ SeriesRead(type) = "max_active_power"
         /\ TableFor(type) = "storage_units" =>
              type = "HydroDispatch" /\ AttributeOf(type) = "inflow" /\ SeriesRead(type) = "hydro_budget"
         /\ TableFor(type) = "loads" =>
              type \in LoadTypes /\ AttributeOf(type) = "p_set" /\ SeriesRead(type) = "max_active_power"
  <1>1. type # "HydroDispatch" => SeriesRead(type) = "max_active_power"
    BY DEF SeriesRead
  <1>2. type \in PlantTypes \/ type \in LoadTypes => type # "HydroDispatch"
    BY DEF PlantTypes, LoadTypes
  <1>3. type \in LoadTypes \/ type = "HydroDispatch" => type \notin PlantTypes
    BY DEF PlantTypes, LoadTypes
  <1> QED
    BY <1>1, <1>2, <1>3, TablesOfSeries DEF AttributeOf, SeriesRead

\* What a metadata row says depends on.
LEMMA PointersDependOn ==
  ASSUME UNCHANGED <<document, components, associations>>,
         \A k : k[1] \in Mapped =>
           /\ k \in DOMAIN series <=> k \in DOMAIN series'
           /\ k \in DOMAIN series => series'[k] = series[k]
  PROVE  /\ \A table : ReadFor(table)' = ReadFor(table)
         /\ \A f : IsPointer(f) => IsPointer(f)'
         /\ \A a : Profile(a)' = Profile(a) /\ SeriesKey(a)' = SeriesKey(a) /\ (IsRead(a)' <=> IsRead(a))
  <1>1. \A table : ReadFor(table)' = ReadFor(table)
    BY DEF ReadFor, RowsFor, OfTypes
  <1>2. \A f : PointsInto(f, series) => PointsInto(f, series)'
    <2> SUFFICES ASSUME NEW f, PointsInto(f, series) PROVE PointsInto(f, series)'
      OBVIOUS
    <2>1. PICK type \in SeriesTypes :
            /\ f.key = <<type, SeriesRead(type)>> /\ f.table = TableFor(type)
            /\ f.attribute = AttributeOf(type)
            /\ \A n \in DOMAIN f.scale :
                 /\ f.key \in DOMAIN series /\ n \in DOMAIN series[f.key]
                 /\ \E r \in ReadFor(f.table) : r.name = n /\ f.scale[n] = ScaleFor(r)
      BY DEF PointsInto
    <2>2. f.key[1] \in Mapped
      BY <2>1, TablesOfSeries
    <2>3. \A n \in DOMAIN f.scale : f.key \in DOMAIN series' /\ n \in DOMAIN series'[f.key]
      BY <2>1, <2>2
    <2> QED
      BY <1>1, <2>1, <2>3 DEF PointsInto
  <1>3. \A a : Profile(a)' = Profile(a)
    BY SeriesDependOn DEF Profile
  <1> QED
    BY <1>1, <1>2, <1>3 DEF IsPointer, PointsAtCompanion, SeriesKey, IsRead

\* A step that maps no class with series, or none, leaves what points at series.
LEMMA PointingKept ==
  ASSUME Pointing, UNCHANGED <<document, components, associations, series, metadata, dropped>>,
         step' \in ToSet(Parts) => step \in ToSet(Parts),
         step' \in Reading => step \in Reading,
         step' \notin {"locations", "write", "written"} => step \notin {"locations", "write", "written"},
         \A table \in {"generators", "storage_units", "loads"} :
           step' \in ToSet(Parts) => (IsPast(table)' <=> IsPast(table))
  PROVE  Pointing'
  <1> SUFFICES ASSUME step' \in ToSet(Parts) PROVE Pointing'
    BY DEF Pointing
  <1>1. /\ \A f : IsPointer(f) => IsPointer(f)'
        /\ \A table : ReadFor(table)' = ReadFor(table)
        /\ \A a : Profile(a)' = Profile(a) /\ SeriesKey(a)' = SeriesKey(a) /\ (IsRead(a)' <=> IsRead(a))
    BY PointersDependOn
  <1>2. Staged' = Staged /\ \A a : Owner(a)' = Owner(a)
    BY SeriesDependOn
  <1>3. \A a : IsPointedAt(a)' <=> IsPointedAt(a)
    BY <1>1, <1>2 DEF IsPointedAt
  <1>4. ASSUME NEW a, IsMappedSeries(a)' PROVE IsMappedSeries(a)
    <2>1. a.type \in SeriesTypes
      BY <1>4 DEF IsMappedSeries
    <2>2. PICK table \in {"generators", "storage_units", "loads"} : table = TableFor(a.type)
      BY <2>1, TablesOfSeries
    <2>3. IsRead(a)' /\ IsPast(table)' /\ Owner(a)' \in ReadFor(table)'
      BY <1>4, <2>2 DEF IsMappedSeries
    <2>4. IsPast(table) /\ IsRead(a) /\ Owner(a) \in ReadFor(table)
      BY <1>1, <1>2, <2>3
    <2> QED
      BY <2>1, <2>2, <2>4 DEF IsMappedSeries
  <1> QED
    BY <1>1, <1>2, <1>3, <1>4 DEF Pointing

LEMMA FramesAppended ==
  ASSUME NEW s, s \in Seq(ToSet(s)), NEW t, t \in Seq(ToSet(t))
  PROVE  s \o t \in Seq(ToSet(s \o t)) /\ ToSet(s \o t) = ToSet(s) \cup ToSet(t)
  <1>1. s \o t \in Seq(ToSet(s) \cup ToSet(t))
    OBVIOUS
  <1>2. /\ Len(s \o t) = Len(s) + Len(t) /\ Len(s) \in Nat /\ Len(t) \in Nat
        /\ \A i \in 1..Len(s) + Len(t) : (s \o t)[i] = IF i <= Len(s) THEN s[i] ELSE t[i - Len(s)]
    OBVIOUS
  <1>3. DOMAIN s = 1..Len(s) /\ DOMAIN t = 1..Len(t) /\ DOMAIN (s \o t) = 1..Len(s \o t)
    BY <1>1
  <1>4. ToSet(s) \subseteq ToSet(s \o t)
    BY <1>2, <1>3 DEF ToSet
  <1>5. ASSUME NEW i \in DOMAIN t PROVE t[i] \in ToSet(s \o t)
    <2>1. i + Len(s) \in DOMAIN (s \o t) /\ (s \o t)[i + Len(s)] = t[i]
      BY <1>2, <1>3
    <2> QED
      BY <2>1 DEF ToSet
  <1>6. ToSet(s \o t) \subseteq ToSet(s) \cup ToSet(t)
    BY <1>2, <1>3 DEF ToSet
  <1>7. ToSet(s \o t) = ToSet(s) \cup ToSet(t)
    BY <1>4, <1>5, <1>6 DEF ToSet
  <1> QED
    BY <1>1, <1>7

LEMMA PointIsAFrame ==
  ASSUME NEW f, NEW table, NEW attribute, NEW key, NEW all, NEW scale,
         f = Point(table, attribute, key, all, scale)
  PROVE  /\ IsFrame(f) /\ f.table = table /\ f.attribute = attribute /\ f.key = key
         /\ \A n : n \in DOMAIN f.scale <=> key \in DOMAIN all /\ n \in DOMAIN all[key] /\ n \in DOMAIN scale
         /\ \A n \in DOMAIN f.scale : f.scale[n] = scale[n]
  BY DEF Point, IsFrame

\* The metadata rows of one type's series, for the components a mapping scales.
LEMMA PointsWhereItScales ==
  ASSUME NEW type \in SeriesTypes, NEW all, NEW scale, NEW f,
         f = Point(TableFor(type), AttributeOf(type), <<type, SeriesRead(type)>>, all, scale),
         \A n \in DOMAIN scale : \E r \in ReadFor(TableFor(type)) : r.name = n /\ scale[n] = ScaleFor(r)
  PROVE  IsFrame(f) /\ PointsInto(f, all)
  <1>1. /\ IsFrame(f) /\ f.table = TableFor(type) /\ f.attribute = AttributeOf(type)
        /\ f.key = <<type, SeriesRead(type)>>
        /\ \A n \in DOMAIN f.scale :
             /\ f.key \in DOMAIN all /\ n \in DOMAIN all[f.key] /\ n \in DOMAIN scale /\ f.scale[n] = scale[n]
    BY PointIsAFrame
  <1> QED
    BY <1>1 DEF PointsInto

LEMMA ReadSeriesAreFound ==
  ASSUME StagesAsStored, NEW all, NEW scale, NEW f, NEW a \in Staged, a.type \in SeriesTypes, IsRead(a),
         \A k : k[1] \in Mapped =>
           /\ k \in DOMAIN series <=> k \in DOMAIN all
           /\ k \in DOMAIN series => all[k] = series[k],
         Owner(a).name \in DOMAIN scale,
         f = Point(TableFor(a.type), AttributeOf(a.type), <<a.type, SeriesRead(a.type)>>, all, scale)
  PROVE  f.key = SeriesKey(a) /\ Owner(a).name \in DOMAIN f.scale
  <1> DEFINE k == SeriesKey(a)
  <1>1. k = <<a.type, SeriesRead(a.type)>> /\ k[1] = a.type /\ a.type \in Mapped
    BY TablesOfSeries DEF SeriesKey, IsRead, SeriesRead
  <1>2. k \in DOMAIN series /\ Owner(a).name \in DOMAIN series[k]
    BY <1>1 DEF StagesAsStored
  <1>3. k \in DOMAIN all /\ all[k] = series[k]
    BY <1>1, <1>2
  <1> HIDE DEF k
  <1> QED
    BY <1>1, <1>2, <1>3, PointIsAFrame DEF k

\* A part that appends the metadata of its class points at every series read for it.
LEMMA PointingAppended ==
  ASSUME Pointing, NEW class \in {"generators", "storage_units", "loads"}, Goto(class),
         UNCHANGED <<document, components, associations, dropped>>,
         \A k : k[1] \in Mapped =>
           /\ k \in DOMAIN series <=> k \in DOMAIN series'
           /\ k \in DOMAIN series => series'[k] = series[k],
         NEW t, t \in Seq(ToSet(t)), metadata' = metadata \o t,
         \A f \in ToSet(t) : IsFrame(f) /\ (PointsInto(f, series') \/ PointsAtCompanion(f)),
         \A a \in Staged :
           a.type \in SeriesTypes /\ IsRead(a) /\ TableFor(a.type) = class /\ Owner(a) \in ReadFor(class)
           => \E f \in ToSet(t) : f.key = SeriesKey(a) /\ Owner(a).name \in DOMAIN f.scale
  PROVE  Pointing'
  <1>1. /\ step \in ToSet(Parts) /\ step \notin {"locations", "write", "written"}
        /\ step' \notin Reading /\ step' \notin {"locations", "write", "written"}
    <2>1. step = class /\ step' \in {"storage_units", "loads", "lines"}
      BY PartsInOrder
    <2> QED
      BY <2>1 DEF ToSet, Parts, Reading
  <1>2. /\ metadata \in Seq(ToSet(metadata)) /\ dropped = {}
        /\ \A f \in ToSet(metadata) : IsPointer(f)
        /\ \A a \in Staged : IsMappedSeries(a) => (IsPointedAt(a) <=> Profile(a) \notin dropped)
    BY <1>1 DEF Pointing
  <1>3. metadata' \in Seq(ToSet(metadata')) /\ ToSet(metadata') = ToSet(metadata) \cup ToSet(t)
    BY <1>2, FramesAppended
  <1>4. /\ \A f : IsPointer(f) => IsPointer(f)'
        /\ \A table : ReadFor(table)' = ReadFor(table)
        /\ \A a : SeriesKey(a)' = SeriesKey(a) /\ (IsRead(a)' <=> IsRead(a))
    BY PointersDependOn
  <1>5. Staged' = Staged /\ \A a : Owner(a)' = Owner(a)
    BY SeriesDependOn
  <1>6. ASSUME NEW f \in ToSet(metadata') PROVE IsPointer(f)'
    <2>1. CASE f \in ToSet(metadata)
      BY <1>2, <1>4, <2>1
    <2>2. CASE f \in ToSet(t)
      <3>1. IsFrame(f) /\ (PointsInto(f, series') \/ PointsAtCompanion(f))
        BY <2>2
      <3>2. PointsInto(f, series') => PointsInto(f, series)'
        BY <1>4 DEF PointsInto
      <3> QED
        BY <3>1, <3>2 DEF IsPointer, IsFrame, PointsAtCompanion
    <2> QED
      BY <1>3, <2>1, <2>2
  <1>7. ASSUME NEW a \in Staged, IsMappedSeries(a)' PROVE IsPointedAt(a)'
    <2>1. PICK table \in {"generators", "storage_units", "loads"} : table = TableFor(a.type)
      BY <1>7, TablesOfSeries DEF IsMappedSeries
    <2>2. a.type \in SeriesTypes /\ IsRead(a)' /\ IsPast(table)' /\ Owner(a)' \in ReadFor(table)'
      BY <1>7, <2>1 DEF IsMappedSeries
    <2>3. IsRead(a) /\ Owner(a) \in ReadFor(table)
      BY <1>4, <1>5, <2>2
    <2>4. IsPast(table) \/ table = class
      BY <2>2, ClassesInOrder DEF Classes
    <2>5. CASE table = class
      <3>1. \E f \in ToSet(t) : f.key = SeriesKey(a) /\ Owner(a).name \in DOMAIN f.scale
        BY <2>1, <2>2, <2>3, <2>5
      <3> QED
        BY <1>3, <1>4, <1>5, <3>1 DEF IsPointedAt
    <2>6. CASE IsPast(table)
      <3>1. IsPointedAt(a)
        BY <1>2, <2>1, <2>2, <2>3, <2>6 DEF IsMappedSeries
      <3> QED
        BY <1>3, <1>4, <1>5, <3>1 DEF IsPointedAt
    <2> QED
      BY <2>4, <2>5, <2>6
  <1>8. dropped' = {}
    BY <1>2
  <1> QED
    BY <1>1, <1>3, <1>5, <1>6, <1>7, <1>8 DEF Pointing

LEMMA FourFrames ==
  ASSUME NEW a, NEW b, NEW c, NEW d
  PROVE  <<a, b, c, d>> \in Seq(ToSet(<<a, b, c, d>>)) /\ ToSet(<<a, b, c, d>>) = {a, b, c, d}
  <1>1. ToSet(<<a, b, c, d>>) = {a, b, c, d}
    BY DEF ToSet
  <1> QED
    BY <1>1

LEMMA ThreeFrames ==
  ASSUME NEW a, NEW b, NEW c
  PROVE  <<a, b, c>> \in Seq(ToSet(<<a, b, c>>)) /\ ToSet(<<a, b, c>>) = {a, b, c}
  <1>1. ToSet(<<a, b, c>>) = {a, b, c}
    BY DEF ToSet
  <1> QED
    BY <1>1

LEMMA TwoFrames ==
  ASSUME NEW a, NEW b
  PROVE  <<a, b>> \in Seq(ToSet(<<a, b>>)) /\ ToSet(<<a, b>>) = {a, b}
  <1>1. ToSet(<<a, b>>) = {a, b}
    BY DEF ToSet
  <1> QED
    BY <1>1

\* A mapping with no rows to map leaves the metadata as it is.
LEMMA NothingAppended ==
  ASSUME Pointing, NEW class \in {"generators", "storage_units", "loads"}, Goto(class),
         UNCHANGED <<document, components, associations, dropped, series, metadata>>,
         ReadFor(class) = {}
  PROVE  Pointing'
  <1>1. step \in ToSet(Parts)
    BY PartsInOrder DEF ToSet, Parts
  <1>2. metadata \in Seq(ToSet(metadata))
    BY <1>1 DEF Pointing
  <1>3. metadata' = metadata \o << >> /\ << >> \in Seq(ToSet(<< >>)) /\ ToSet(<< >>) = {}
    BY <1>2 DEF ToSet
  <1> QED
    BY <1>3, PointingAppended

LEMMA GeneratorsPoint ==
  ASSUME Fates, Staging, Pointing, MapGenerators
  PROVE  Pointing'
  <1> DEFINE source == OfTypes(GeneratorTypes)
             mapped == {r \in KeptBy(source, PowerUnitTypes, "natural") : r.type \in PlantTypes}
             scale  == ScaleOf(mapped, GeneratorScale)
             all    == WithCompanion({"marginal_cost"})
             Peaks(type) == Point("generators", "p_max_pu", <<type, "max_active_power">>, all, scale)
             costs  == Point("generators", "marginal_cost", Companion("marginal_cost"), all,
                             Unscaled(DOMAIN scale))
             t      == <<Peaks("RenewableDispatch"), Peaks("RenewableNonDispatch"),
                         Peaks("ThermalStandard"), costs>>
  <1>1. /\ Goto("generators") /\ UNCHANGED <<document, components, associations, dropped>>
        /\ IF mapped = {} THEN UNCHANGED <<series, metadata>>
           ELSE series' = all /\ metadata' = metadata \o t
    BY DEF MapGenerators
  <1>2. mapped = ReadFor("generators")
    BY RowsOfAClass, RowsReadOfAClass DEF KeptBy, OfTypes, GeneratorTypes, PlantTypes, PowerUnitTypes
  <1>3. CASE mapped = {}
    BY <1>1, <1>2, <1>3, NothingAppended
  <1>4. CASE mapped # {}
    <2>1. DOMAIN scale = {r.name : r \in mapped}
      BY DEF ScaleOf
    <2>2. ASSUME NEW n \in DOMAIN scale
          PROVE  \E r \in mapped : r.name = n /\ scale[n] = ScaleFor(r)
      <3>1. PICK q \in mapped : q.name = n
        BY <2>1
      <3>2. scale[n] = GeneratorScale(CHOOSE r \in mapped : r.name = n)
        BY <2>1 DEF ScaleOf
      <3> QED
        BY <3>1, <3>2 DEF ScaleFor
    <2>3. /\ step \notin Reading /\ StagesAsStored
          /\ associations = {a \in document.associations : HasOwner(a)}
      BY <1>1 DEF Goto, Reading, Staging
    <2>4. \A k : k[1] \in Mapped =>
            /\ k \in DOMAIN series <=> k \in DOMAIN all
            /\ k \in DOMAIN series => all[k] = series[k]
      BY CompanionJoins
    <2>5. ASSUME NEW type \in PlantTypes
          PROVE  /\ type \in SeriesTypes
                 /\ Peaks(type) = Point(TableFor(type), AttributeOf(type), <<type, SeriesRead(type)>>, all, scale)
                 /\ TableFor(type) = "generators"
      <3>1. type \in SeriesTypes
        BY DEF SeriesTypes, GeneratorTypes
      <3>2. TableFor(type) = "generators"
        BY <3>1, TablesOfSeries
      <3>3. AttributeOf(type) = "p_max_pu" /\ SeriesRead(type) = "max_active_power"
        BY <3>1, <3>2, SeriesReadOfATable
      <3> HIDE DEF scale, all
      <3> QED
        BY <3>1, <3>2, <3>3
    <2> HIDE DEF mapped, scale, all, Peaks
    <2>6. ASSUME NEW type \in PlantTypes
          PROVE  IsFrame(Peaks(type)) /\ PointsInto(Peaks(type), all)
      <3> DEFINE f == Peaks(type)
      <3>1. /\ f = Point(TableFor(type), AttributeOf(type), <<type, SeriesRead(type)>>, all, scale)
            /\ type \in SeriesTypes
        BY <2>5
      <3>2. \A n \in DOMAIN scale : \E r \in ReadFor(TableFor(type)) : r.name = n /\ scale[n] = ScaleFor(r)
        BY <1>2, <2>2, <2>5
      <3> HIDE DEF f
      <3>3. IsFrame(f) /\ PointsInto(f, all)
        BY <3>1, <3>2, PointsWhereItScales
      <3> QED
        BY <3>3 DEF f
    <2>7. IsFrame(costs) /\ PointsAtCompanion(costs)
      <3>1. \E scaled : costs = Point("generators", "marginal_cost", Companion("marginal_cost"), all, scaled)
        OBVIOUS
      <3> HIDE DEF costs
      <3>2. IsFrame(costs) /\ costs.key = Companion("marginal_cost")
        BY <3>1, PointIsAFrame
      <3> QED
        BY <3>2 DEF PointsAtCompanion
    <2> HIDE DEF costs
    <2>8. t \in Seq(ToSet(t)) /\ ToSet(t) = {Peaks(type) : type \in PlantTypes} \cup {costs}
      BY FourFrames DEF PlantTypes
    <2>9. ASSUME NEW a \in Staged, a.type \in SeriesTypes, IsRead(a), TableFor(a.type) = "generators",
                 Owner(a) \in ReadFor("generators")
          PROVE  \E f \in ToSet(t) : f.key = SeriesKey(a) /\ Owner(a).name \in DOMAIN f.scale
      <3>1. a.type \in PlantTypes
        BY <2>9, TablesOfSeries
      <3>2. Owner(a).name \in DOMAIN scale
        BY <1>2, <2>1, <2>9
      <3> DEFINE f == Peaks(a.type)
      <3>3. f = Point(TableFor(a.type), AttributeOf(a.type), <<a.type, SeriesRead(a.type)>>, all, scale)
        BY <2>5, <3>1
      <3> HIDE DEF f
      <3>4. f.key = SeriesKey(a) /\ Owner(a).name \in DOMAIN f.scale
        BY <2>3, <2>4, <2>9, <3>2, <3>3, ReadSeriesAreFound
      <3> QED
        BY <2>8, <3>1, <3>4 DEF f
    <2>10. series' = all /\ metadata' = metadata \o t
      BY <1>1, <1>4
    <2> HIDE DEF t
    <2> QED
      BY <1>1, <2>4, <2>6, <2>7, <2>8, <2>9, <2>10, PointingAppended
  <1> QED
    BY <1>3, <1>4

LEMMA StorageUnitsPoint ==
  ASSUME Fates, Staging, Pointing, MapStorageUnits
  PROVE  Pointing'
  <1> DEFINE plants == OfTypes(GeneratorTypes)
             hydro  == {r \in KeptBy(plants, {"HydroDispatch"}, "natural") : r.type = "HydroDispatch"}
             stores == OfTypes(StorageTypes)
             mapped == hydro \cup KeptBy(stores, StorageTypes, "component")
             all    == WithCompanion({"inflow_mw", "rating_pu"})
             scale  == ScaleOf(hydro, LAMBDA r : <<r.base, 1>>)
             budget == Point("storage_units", "inflow", <<"HydroDispatch", "hydro_budget">>, all, scale)
             inflow == Point("storage_units", "inflow", Companion("inflow_mw"), all,
                             Unscaled({r.name : r \in mapped}))
             rating == Point("storage_units", "p_max_pu", Companion("rating_pu"), all,
                             Unscaled({r.name : r \in mapped}))
             t      == <<budget, inflow, rating>>
  <1>1. /\ Goto("storage_units") /\ UNCHANGED <<document, components, associations, dropped>>
        /\ IF mapped = {} THEN UNCHANGED <<series, metadata>>
           ELSE series' = all /\ metadata' = metadata \o t
    BY DEF MapStorageUnits
  <1>2. mapped = ReadFor("storage_units")
    BY RowsOfAClass, RowsReadOfAClass DEF KeptBy, OfTypes, GeneratorTypes, PlantTypes, StorageTypes
  <1>3. CASE mapped = {}
    BY <1>1, <1>2, <1>3, NothingAppended
  <1>4. CASE mapped # {}
    <2>1. DOMAIN scale = {r.name : r \in hydro}
      BY DEF ScaleOf
    <2>2. ASSUME NEW n \in DOMAIN scale
          PROVE  \E r \in mapped : r.name = n /\ scale[n] = ScaleFor(r)
      <3>1. PICK q \in hydro : q.name = n
        BY <2>1
      <3>2. scale[n] = <<(CHOOSE r \in hydro : r.name = n).base, 1>>
        BY <2>1 DEF ScaleOf
      <3>3. PICK r \in hydro : r.name = n /\ scale[n] = <<r.base, 1>>
        BY <3>1, <3>2
      <3>4. ScaleFor(r) = <<r.base, 1>>
        BY DEF ScaleFor, PlantTypes
      <3> QED
        BY <3>3, <3>4
    <2>3. /\ step \notin Reading /\ StagesAsStored
          /\ associations = {a \in document.associations : HasOwner(a)}
      BY <1>1 DEF Goto, Reading, Staging
    <2>4. \A k : k[1] \in Mapped =>
            /\ k \in DOMAIN series <=> k \in DOMAIN all
            /\ k \in DOMAIN series => all[k] = series[k]
      BY CompanionJoins
    <2>5. /\ "HydroDispatch" \in SeriesTypes /\ TableFor("HydroDispatch") = "storage_units"
          /\ AttributeOf("HydroDispatch") = "inflow" /\ SeriesRead("HydroDispatch") = "hydro_budget"
      <3>1. "HydroDispatch" \in SeriesTypes
        BY DEF SeriesTypes, GeneratorTypes
      <3> QED
        BY <3>1, TablesOfSeries, SeriesReadOfATable
    <2>6. ASSUME NEW r \in ReadFor("storage_units"), r.type = "HydroDispatch"
          PROVE  r.name \in DOMAIN scale
      <3>1. r \in mapped /\ r.type \notin StorageTypes
        BY <1>2, <2>6 DEF StorageTypes
      <3>2. r \in hydro
        BY <3>1 DEF KeptBy, OfTypes
      <3> HIDE DEF hydro
      <3> QED
        BY <2>1, <3>2
    <2> HIDE DEF mapped, hydro, scale, all
    <2> DEFINE type == "HydroDispatch"
    <2>12. budget = Point(TableFor(type), AttributeOf(type), <<type, SeriesRead(type)>>, all, scale)
      BY <2>5
    <2>13. /\ \E scaled : inflow = Point("storage_units", "inflow", Companion("inflow_mw"), all, scaled)
           /\ \E scaled : rating = Point("storage_units", "p_max_pu", Companion("rating_pu"), all, scaled)
      OBVIOUS
    <2> HIDE DEF budget, inflow, rating
    <2>7. IsFrame(budget) /\ PointsInto(budget, all)
      <3>1. \A n \in DOMAIN scale : \E r \in ReadFor(TableFor(type)) : r.name = n /\ scale[n] = ScaleFor(r)
        BY <1>2, <2>2, <2>5
      <3>2. type \in SeriesTypes
        BY <2>5
      <3> HIDE DEF type
      <3> QED
        BY <2>12, <3>1, <3>2, PointsWhereItScales
    <2>8. IsFrame(inflow) /\ PointsAtCompanion(inflow) /\ IsFrame(rating) /\ PointsAtCompanion(rating)
      <3>1. /\ IsFrame(inflow) /\ inflow.key = Companion("inflow_mw")
            /\ IsFrame(rating) /\ rating.key = Companion("rating_pu")
        BY <2>13, PointIsAFrame
      <3> QED
        BY <3>1 DEF PointsAtCompanion
    <2>9. ASSUME NEW a \in Staged, a.type \in SeriesTypes, IsRead(a), TableFor(a.type) = "storage_units",
                 Owner(a) \in ReadFor("storage_units")
          PROVE  budget.key = SeriesKey(a) /\ Owner(a).name \in DOMAIN budget.scale
      <3>1. a.type = "HydroDispatch"
        BY <2>9, TablesOfSeries
      <3>2. Owner(a).type = a.type
        BY <2>3, OwnersAreKept DEF Staged
      <3>3. Owner(a).name \in DOMAIN scale
        BY <2>6, <2>9, <3>1, <3>2
      <3>4. budget = Point(TableFor(a.type), AttributeOf(a.type), <<a.type, SeriesRead(a.type)>>, all, scale)
        BY <2>12, <3>1
      <3> QED
        BY <2>3, <2>4, <2>9, <3>3, <3>4, ReadSeriesAreFound
    <2>10. t \in Seq(ToSet(t)) /\ ToSet(t) = {budget, inflow, rating}
      BY ThreeFrames
    <2>11. series' = all /\ metadata' = metadata \o t
      BY <1>1, <1>4
    <2> HIDE DEF t
    <2> QED
      BY <1>1, <2>4, <2>7, <2>8, <2>9, <2>10, <2>11, PointingAppended
  <1> QED
    BY <1>3, <1>4

LEMMA LoadsPoint ==
  ASSUME Fates, Staging, Pointing, MapLoads
  PROVE  Pointing'
  <1> DEFINE source == OfTypes(LoadTypes)
             mapped == KeptBy(source, LoadTypes, "natural")
             scale  == ScaleOf(mapped, LAMBDA r : <<r.max, 1>>)
             Demand(type) == Point("loads", "p_set", <<type, "max_active_power">>, series, scale)
             t      == [i \in DOMAIN LoadSeriesTypes |-> Demand(LoadSeriesTypes[i])]
  <1>1. /\ Goto("loads") /\ UNCHANGED <<document, components, associations, dropped, series>>
        /\ metadata' = metadata \o t
    BY DEF MapLoads
  <1>2. mapped = ReadFor("loads")
    BY RowsReadOfAClass DEF KeptBy, OfTypes
  <1>3. DOMAIN scale = {r.name : r \in mapped}
    BY DEF ScaleOf
  <1>4. ASSUME NEW n \in DOMAIN scale
        PROVE  \E r \in mapped : r.name = n /\ scale[n] = ScaleFor(r)
    <2>1. PICK q \in mapped : q.name = n
      BY <1>3
    <2>2. scale[n] = <<(CHOOSE r \in mapped : r.name = n).max, 1>>
      BY <1>3 DEF ScaleOf
    <2>3. PICK r \in mapped : r.name = n /\ scale[n] = <<r.max, 1>>
      BY <2>1, <2>2
    <2>4. r.type \in LoadTypes
      BY DEF KeptBy, OfTypes
    <2>5. ScaleFor(r) = <<r.max, 1>>
      BY <2>4 DEF ScaleFor, PlantTypes, LoadTypes
    <2> QED
      BY <2>3, <2>5
  <1>5. /\ step \notin Reading /\ StagesAsStored
        /\ associations = {a \in document.associations : HasOwner(a)}
    BY <1>1 DEF Goto, Reading, Staging
  <1>6. ASSUME NEW type \in LoadTypes
        PROVE  /\ type \in SeriesTypes
               /\ Demand(type) = Point(TableFor(type), AttributeOf(type), <<type, SeriesRead(type)>>, series, scale)
               /\ TableFor(type) = "loads"
    <2>1. type \in SeriesTypes
      BY DEF SeriesTypes
    <2>2. TableFor(type) = "loads"
      BY <2>1, TablesOfSeries
    <2>3. AttributeOf(type) = "p_set" /\ SeriesRead(type) = "max_active_power"
      BY <2>1, <2>2, SeriesReadOfATable
    <2> HIDE DEF scale
    <2> QED
      BY <2>1, <2>2, <2>3
  <1>7. LoadSeriesTypes \in Seq(LoadTypes) /\ DOMAIN LoadSeriesTypes = 1..2
        /\ LoadTypes = {LoadSeriesTypes[1], LoadSeriesTypes[2]}
    BY DEF LoadSeriesTypes, LoadTypes
  <1> HIDE DEF mapped, scale, Demand
  <1>8. t \in Seq(ToSet(t)) /\ ToSet(t) = {Demand(type) : type \in LoadTypes}
    <2>1. ToSet(t) = {Demand(type) : type \in LoadTypes}
      BY <1>7 DEF ToSet
    <2>2. t = <<Demand(LoadSeriesTypes[1]), Demand(LoadSeriesTypes[2])>>
      BY <1>7
    <2> QED
      BY <2>1, <2>2, TwoFrames
  <1>9. ASSUME NEW type \in LoadTypes
        PROVE  IsFrame(Demand(type)) /\ PointsInto(Demand(type), series)
    <2> DEFINE f == Demand(type)
    <2>1. /\ f = Point(TableFor(type), AttributeOf(type), <<type, SeriesRead(type)>>, series, scale)
          /\ type \in SeriesTypes
      BY <1>6
    <2>2. \A n \in DOMAIN scale : \E r \in ReadFor(TableFor(type)) : r.name = n /\ scale[n] = ScaleFor(r)
      BY <1>2, <1>4, <1>6
    <2> HIDE DEF f
    <2>3. IsFrame(f) /\ PointsInto(f, series)
      BY <2>1, <2>2, PointsWhereItScales
    <2> QED
      BY <2>3 DEF f
  <1>10. ASSUME NEW a \in Staged, a.type \in SeriesTypes, IsRead(a), TableFor(a.type) = "loads",
                Owner(a) \in ReadFor("loads")
         PROVE  \E f \in ToSet(t) : f.key = SeriesKey(a) /\ Owner(a).name \in DOMAIN f.scale
    <2>1. a.type \in LoadTypes
      BY <1>10, TablesOfSeries
    <2>2. Owner(a).name \in DOMAIN scale
      BY <1>2, <1>3, <1>10
    <2> DEFINE f == Demand(a.type)
    <2>3. f = Point(TableFor(a.type), AttributeOf(a.type), <<a.type, SeriesRead(a.type)>>, series, scale)
      BY <1>6, <2>1
    <2> HIDE DEF f
    <2>4. f.key = SeriesKey(a) /\ Owner(a).name \in DOMAIN f.scale
      BY <1>5, <1>10, <2>2, <2>3, ReadSeriesAreFound
    <2> QED
      BY <1>8, <2>1, <2>4 DEF f
  <1>11. \A f \in ToSet(t) : IsFrame(f) /\ PointsInto(f, series)
    BY <1>8, <1>9
  <1>12. series' = series
    BY <1>1
  <1> HIDE DEF t
  <1> QED
    BY <1>1, <1>8, <1>10, <1>11, <1>12, PointingAppended

\* A metadata row that points a component at a series of its type is of one staged series.
LEMMA PointedAtOneSeries ==
  ASSUME StagesNothingElse, NEW f, IsPointer(f), ~PointsAtCompanion(f), NEW n \in DOMAIN f.scale
  PROVE  \E a \in Staged :
           /\ a.type \in SeriesTypes /\ IsRead(a) /\ f.key = SeriesKey(a) /\ n = Owner(a).name
           /\ f.table = TableFor(a.type) /\ f.attribute = AttributeOf(a.type)
           /\ \E r \in ReadFor(TableFor(a.type)) : r.name = n /\ f.scale[n] = ScaleFor(r)
  <1>1. PICK type \in SeriesTypes :
          /\ f.key = <<type, SeriesRead(type)>> /\ f.table = TableFor(type) /\ f.attribute = AttributeOf(type)
          /\ f.key \in DOMAIN series /\ n \in DOMAIN series[f.key]
          /\ \E r \in ReadFor(f.table) : r.name = n /\ f.scale[n] = ScaleFor(r)
    BY DEF IsPointer, PointsInto
  <1>2. f.key[1] = type /\ f.key[2] = SeriesRead(type) /\ type \in Mapped
    BY <1>1, TablesOfSeries
  <1>3. PICK a \in Staged : f.key = SeriesKey(a) /\ n = Owner(a).name
    BY <1>1, <1>2 DEF StagesNothingElse
  <1>4. a.type = type /\ a.name = SeriesRead(type)
    BY <1>2, <1>3 DEF SeriesKey
  <1>5. IsRead(a)
    BY <1>4 DEF IsRead, SeriesRead
  <1> QED
    BY <1>1, <1>3, <1>4, <1>5

LEMMA CompanionIsNoSeries ==
  ASSUME NEW f, PointsAtCompanion(f)
  PROVE  f.key[1] \notin SeriesTypes /\ f.key[2] \notin {"max_active_power", "hydro_budget"}
  BY DEF PointsAtCompanion, Companion, CompanionOwner, SeriesTypes, GeneratorTypes, PlantTypes, LoadTypes

LEMMA FramesMapped ==
  ASSUME NEW s, s \in Seq(ToSet(s)), NEW t, DOMAIN t = DOMAIN s, t = [i \in DOMAIN t |-> t[i]]
  PROVE  t \in Seq(ToSet(t))
  <1>1. DOMAIN t = 1..Len(s) /\ Len(s) \in Nat
    OBVIOUS
  <1>2. \A i \in 1..Len(s) : t[i] \in ToSet(t)
    BY <1>1 DEF ToSet
  <1> QED
    BY <1>1, <1>2

LEMMA WithoutSomeProfiles ==
  ASSUME NEW f, IsFrame(f), NEW profiles, NEW g, g = WithoutProfiles(f, profiles)
  PROVE  /\ IsFrame(g) /\ g.table = f.table /\ g.attribute = f.attribute /\ g.key = f.key
         /\ \A n : n \in DOMAIN g.scale <=> n \in DOMAIN f.scale /\ ~IsDropped(f, n, profiles)
         /\ \A n \in DOMAIN g.scale : g.scale[n] = f.scale[n]
  <1>1. PICK t, a, k, s, l : f = [table |-> t, attribute |-> a, key |-> k, scale |-> s, length |-> l]
    BY DEF IsFrame
  <1>2. g = [table |-> t, attribute |-> a, key |-> k, length |-> l,
             scale |-> [n \in {m \in DOMAIN s : ~IsDropped(f, m, profiles)} |-> s[n]]]
    BY <1>1 DEF WithoutProfiles
  <1> QED
    BY <1>1, <1>2 DEF IsFrame

\* The profiles off the window are those staged for some component, and dropping the rows of
\* a component and a series drops no other's: a name is one component's.
LEMMA OffTheWindowAreStaged ==
  ASSUME Leaving, Staging, Pointing, step \in {"window", "locations", "write"}, NEW p \in OffTheWindow,
         p.owner \in SeriesTypes \/ p.series \in {"max_active_power", "hydro_budget"}
  PROVE  \E a \in Staged : /\ a.type \in SeriesTypes /\ IsRead(a) /\ p = Profile(a)
                           /\ Len(series[SeriesKey(a)][Owner(a).name].values) # Window
  <1>1. /\ \A f \in ToSet(metadata) : IsPointer(f)
        /\ StagesNothingElse
    BY DEF Pointing, Staging, ToSet, Parts, Reading
  <1>2. PICK f \in ToSet(metadata) : \E n \in DOMAIN f.scale :
          /\ p = [owner |-> f.key[1], series |-> f.key[2], component |-> n]
          /\ Held(f, n) # Window
    BY DEF OffTheWindow
  <1>3. PICK n \in DOMAIN f.scale :
          /\ p = [owner |-> f.key[1], series |-> f.key[2], component |-> n]
          /\ Held(f, n) # Window
    BY <1>2
  <1>4. ~PointsAtCompanion(f)
    BY <1>3, CompanionIsNoSeries
  <1>5. PICK a \in Staged : /\ a.type \in SeriesTypes /\ IsRead(a) /\ f.key = SeriesKey(a)
                            /\ n = Owner(a).name
    BY <1>1, <1>4, PointedAtOneSeries
  <1>6. f.key[1] = a.type /\ f.key[2] = a.name
    BY <1>5 DEF SeriesKey
  <1>7. p = Profile(a) /\ Len(series[SeriesKey(a)][Owner(a).name].values) # Window
    BY <1>5, <1>6, <1>3 DEF Profile, Held
  <1> QED
    BY <1>5, <1>7

\* What the rows of a profile hold decides whether it is off the window, and its rows go with it.
LEMMA RowsGoWithTheirProfile ==
  ASSUME Leaving, Staging, Pointing, step = "window",
         NEW a \in Staged, a.type \in SeriesTypes, IsRead(a),
         NEW f \in ToSet(metadata), f.key = SeriesKey(a)
  PROVE  IsDropped(f, Owner(a).name, OffTheWindow) <=> Profile(a) \in OffTheWindow
  <1>1. f.key[1] = a.type /\ f.key[2] = a.name /\ a.name \in {"max_active_power", "hydro_budget"}
    BY DEF SeriesKey, IsRead
  <1>2. ASSUME Profile(a) \in OffTheWindow PROVE IsDropped(f, Owner(a).name, OffTheWindow)
    BY <1>1, <1>2 DEF IsDropped, Profile
  <1>3. ASSUME IsDropped(f, Owner(a).name, OffTheWindow) PROVE Profile(a) \in OffTheWindow
    <2>1. PICK p \in OffTheWindow : p.series = a.name /\ p.component = Owner(a).name
      BY <1>1, <1>3 DEF IsDropped
    <2>2. PICK b \in Staged : b.type \in SeriesTypes /\ p = Profile(b)
      BY <1>1, <2>1, OffTheWindowAreStaged
    <2>3. b.name = a.name /\ Owner(b).name = Owner(a).name
      BY <2>1, <2>2 DEF Profile
    <2>4. /\ step # "validate" /\ associations = {x \in document.associations : HasOwner(x)}
          /\ a \in associations /\ b \in associations /\ a.type \in Mapped /\ b.type \in Mapped
      BY <2>2, TablesOfSeries DEF Staging, Staged
    <2>5. a = b
      BY <2>3, <2>4, SeriesAreTheirOwn
    <2> QED
      BY <2>2, <2>5
  <1> QED
    BY <1>2, <1>3

LEMMA DroppingPoints ==
  ASSUME Leaving, Staging, Pointing, DropProfilesOffTheWindow
  PROVE  Pointing'
  <1>1. /\ step = "window" /\ step' = "locations" /\ UNCHANGED <<document, components, associations, series>>
        /\ dropped' = OffTheWindow
        /\ metadata' = [i \in DOMAIN metadata |-> WithoutProfiles(metadata[i], OffTheWindow)]
    BY PartsInOrder DEF DropProfilesOffTheWindow
  <1>2. /\ metadata \in Seq(ToSet(metadata)) /\ dropped = {} /\ StagesNothingElse
        /\ \A f \in ToSet(metadata) : IsPointer(f)
        /\ \A a \in Staged : IsMappedSeries(a) => (IsPointedAt(a) <=> Profile(a) \notin dropped)
    BY <1>1 DEF Pointing, Staging, ToSet, Parts, Reading
  <1>3. metadata' \in Seq(ToSet(metadata'))
    BY <1>1, <1>2, FramesMapped
  <1>4. /\ \A f : IsPointer(f) => IsPointer(f)'
        /\ \A table : ReadFor(table)' = ReadFor(table)
        /\ \A a : Profile(a)' = Profile(a) /\ SeriesKey(a)' = SeriesKey(a) /\ (IsRead(a)' <=> IsRead(a))
    BY <1>1, PointersDependOn
  <1>5. Staged' = Staged /\ \A a : Owner(a)' = Owner(a)
    BY <1>1, SeriesDependOn
  <1>6. /\ \A g \in ToSet(metadata') : \E f \in ToSet(metadata) : g = WithoutProfiles(f, OffTheWindow)
        /\ \A f \in ToSet(metadata) : WithoutProfiles(f, OffTheWindow) \in ToSet(metadata')
    BY <1>1 DEF ToSet
  <1>7. ASSUME NEW g \in ToSet(metadata') PROVE IsPointer(g)'
    <2>1. PICK f \in ToSet(metadata) : g = WithoutProfiles(f, OffTheWindow)
      BY <1>6
    <2>2. IsPointer(f)
      BY <1>2
    <2>3. /\ IsFrame(g) /\ g.table = f.table /\ g.attribute = f.attribute /\ g.key = f.key
          /\ \A n \in DOMAIN g.scale : n \in DOMAIN f.scale /\ g.scale[n] = f.scale[n]
      BY <2>1, <2>2, WithoutSomeProfiles DEF IsPointer
    <2>4. PointsInto(f, series) => PointsInto(g, series)
      BY <2>3 DEF PointsInto
    <2>5. IsPointer(g)
      BY <2>2, <2>3, <2>4 DEF IsPointer, PointsAtCompanion
    <2> QED
      BY <1>4, <2>5
  <1>8. ASSUME NEW p \in OffTheWindow, p.owner \in SeriesTypes
        PROVE  \E a \in Staged : p = Profile(a)
    BY <1>1, <1>8, OffTheWindowAreStaged
  <1>9. ASSUME NEW a \in Staged, IsMappedSeries(a)'
        PROVE  IsPointedAt(a)' <=> Profile(a) \notin OffTheWindow
    <2>1. a.type \in SeriesTypes /\ IsRead(a) /\ Owner(a) \in ReadFor(TableFor(a.type))
      BY <1>4, <1>5, <1>9 DEF IsMappedSeries
    <2>2. IsPast(TableFor(a.type))
      BY <1>1, <2>1, TablesOfSeries DEF IsPast, UpTo, Reading, Classes
    <2>3. PICK f \in ToSet(metadata) : f.key = SeriesKey(a) /\ Owner(a).name \in DOMAIN f.scale
      BY <1>2, <2>1, <2>2 DEF IsMappedSeries, IsPointedAt
    <2>4. ASSUME Profile(a) \notin OffTheWindow PROVE IsPointedAt(a)'
      <3> DEFINE g == WithoutProfiles(f, OffTheWindow)
      <3>1. ~IsDropped(f, Owner(a).name, OffTheWindow)
        BY <1>1, <2>1, <2>3, <2>4, RowsGoWithTheirProfile
      <3>2. g \in ToSet(metadata') /\ IsFrame(f)
        BY <1>2, <1>6 DEF IsPointer
      <3>3. g.key = SeriesKey(a) /\ Owner(a).name \in DOMAIN g.scale
        BY <2>3, <3>1, <3>2, WithoutSomeProfiles
      <3> HIDE DEF g
      <3> QED
        BY <1>4, <1>5, <3>2, <3>3 DEF IsPointedAt
    <2>5. ASSUME IsPointedAt(a)' PROVE Profile(a) \notin OffTheWindow
      <3>1. PICK g \in ToSet(metadata') : g.key = SeriesKey(a) /\ Owner(a).name \in DOMAIN g.scale
        BY <1>4, <1>5, <2>5 DEF IsPointedAt
      <3>2. PICK h \in ToSet(metadata) : g = WithoutProfiles(h, OffTheWindow)
        BY <1>6, <3>1
      <3>3. h.key = SeriesKey(a) /\ ~IsDropped(h, Owner(a).name, OffTheWindow)
        BY <1>2, <3>1, <3>2, WithoutSomeProfiles DEF IsPointer
      <3> QED
        BY <1>1, <2>1, <3>3, RowsGoWithTheirProfile
    <2> QED
      BY <2>4, <2>5
  <1>10. step' \in ToSet(Parts) /\ step' \notin Reading
    BY <1>1 DEF ToSet, Parts, Reading
  <1> QED
    BY <1>1, <1>3, <1>4, <1>5, <1>7, <1>8, <1>9, <1>10 DEF Pointing

LEMMA PointingInit == PsInit => Pointing
  BY DEF PsInit, Init, Pointing, ToSet, Reading, Staged

\* Before the first class with series is mapped, nothing points at series.
LEMMA NothingPointsYet ==
  ASSUME metadata' = << >>, dropped' = {}, step' \in Reading \cup {"buses"}
  PROVE  Pointing'
  <1>1. \A table \in {"generators", "storage_units", "loads"} : ~IsPast(table)'
    BY DEF IsPast, UpTo, Reading, Classes
  <1>2. ASSUME NEW a PROVE ~IsMappedSeries(a)'
    BY <1>1, TablesOfSeries DEF IsMappedSeries
  <1>3. ToSet(metadata') = {} /\ metadata' \in Seq(ToSet(metadata'))
    BY DEF ToSet
  <1>4. step' \notin {"locations", "write", "written"}
    BY DEF Reading
  <1> QED
    BY <1>2, <1>3, <1>4 DEF Pointing

LEMMA PointingStep == Fates /\ Staging /\ Pointing /\ [PsNext]_leg_vars => Pointing'
  <1> SUFFICES ASSUME Fates, Staging, Pointing, [PsNext]_leg_vars PROVE Pointing'
    OBVIOUS
  <1>1. CASE KeepValidRows \/ DropRowsThatReferToNoRow \/ DropAssociationsOfNoOwner \/ StageSeries
    <2>1. /\ step \in Reading \cap ToSet(Parts) /\ step' \in Reading \cup {"buses"}
          /\ UNCHANGED <<metadata, dropped>>
      BY <1>1, PartsInOrder
         DEF KeepValidRows, DropRowsThatReferToNoRow, DropAssociationsOfNoOwner, StageSeries, Reading,
             ToSet, Parts
    <2>2. metadata = << >> /\ dropped = {}
      BY <2>1 DEF Pointing, Reading
    <2> QED
      BY <2>1, <2>2, NothingPointsYet
  <1>2. CASE MapBuses
    <2>1. Goto("buses") /\ UNCHANGED <<document, components, associations, series, metadata, dropped>>
      BY <1>2 DEF MapBuses
    <2>2. step = "buses" /\ step' = "generators"
      BY <2>1, PartsInOrder
    <2>3. \A table \in {"generators", "storage_units", "loads"} : IsPast(table)' <=> IsPast(table)
      BY <2>1, ClassesInOrder DEF Classes
    <2> QED
      BY <2>1, <2>2, <2>3, PointingKept DEF ToSet, Parts, Reading
  <1>3. CASE MapLines \/ MapLinks
    <2>1. /\ step \in {"lines", "links"} /\ step' \in {"links", "window", "failed"}
          /\ UNCHANGED <<document, components, associations, series, metadata, dropped>>
      BY <1>3, PartsInOrder DEF MapLines, MapLinks
    <2>2. \A table \in {"generators", "storage_units", "loads"} : IsPast(table) /\ IsPast(table)'
      BY <2>1 DEF IsPast, UpTo, Reading, Classes
    <2> QED
      BY <2>1, <2>2, PointingKept DEF ToSet, Parts, Reading
  <1>4. CASE RelateComponents \/ BuildNetwork
    <2>1. /\ step \in {"locations", "write"} /\ step' \in {"write", "written", "failed"}
          /\ UNCHANGED <<document, components, associations, series, metadata, dropped>>
      BY <1>4, PartsInOrder DEF RelateComponents, BuildNetwork
    <2>2. \A table \in {"generators", "storage_units", "loads"} : IsPast(table) /\ IsPast(table)'
      BY <2>1 DEF IsPast, UpTo, Reading, Classes
    <2>3. CASE step' = "failed"
      BY <2>3 DEF Pointing, ToSet, Parts
    <2>4. CASE step' # "failed"
      BY <2>1, <2>2, <2>4, PointingKept DEF ToSet, Parts, Reading
    <2> QED
      BY <2>3, <2>4
  <1>5. CASE MapGenerators
    BY <1>5, GeneratorsPoint
  <1>6. CASE MapStorageUnits
    BY <1>6, StorageUnitsPoint
  <1>7. CASE MapLoads
    BY <1>7, LoadsPoint
  <1>8. CASE DropProfilesOffTheWindow
    BY <1>8, DroppingPoints DEF Fates
  <1>9. CASE FillAvailability \/ AssignUuids \/ MapToPowerSimulations \/ WriteSidecar \/ WriteSystem
    <2>1. step' \in {"ps_uuids", "ps_map", "ps_sidecar", "ps_system", "ps_written", "ps_failed"}
      BY <1>9 DEF FillAvailability, AssignUuids, MapToPowerSimulations, WriteSidecar, WriteSystem, Read
    <2> QED
      BY <2>1 DEF Pointing, ToSet, Parts
  <1>10. CASE UNCHANGED vars
    <2>1. UNCHANGED <<step, document, components, associations, series, metadata, dropped>>
      BY <1>10 DEF vars
    <2>2. \A table : IsPast(table)' <=> IsPast(table)
      BY <2>1 DEF IsPast, UpTo
    <2> QED
      BY <2>1, <2>2, PointingKept
  <1> QED
    BY <1>1, <1>2, <1>3, <1>4, <1>5, <1>6, <1>7, <1>8, <1>9, <1>10
       DEF PsNext, Next, Terminated, PsTerminated, leg_vars

(* ------------------------- what the network holds ----------------------- *)

WrittenColumns == {WrittenColumn(place) : place \in Places}

\* Series the source cannot stage are left out when it stages, those of no owner before.
Leftover(a) == a \in associations /\ step # "series" /\ ~(IsConvertible(a) /\ HasNamedOwner(a))

\* The generators are rows of their own, the series left out are those not staged, and what is
\* written is what the tables and the metadata say.
Tabling ==
  /\ step \in ToSet(Parts) =>
       /\ IsPast("generators") => \A r \in ReadFor("generators") : GeneratorRow(r) \in Rows("generators")
       /\ step \in {"validate", "close", "owners"} => left_out \cap document.associations = {}
       /\ step \notin {"validate", "close", "owners"} =>
            \A a \in document.associations : a \in left_out <=> a \notin associations \/ Leftover(a)
  /\ step = "written" =>
       network = [snapshots |-> Window, tables |-> tables, columns |-> WrittenColumns]

LEMMA WhatTheNetworkHoldsDependsOn ==
  ASSUME UNCHANGED <<series, metadata, tables>>
  PROVE  WrittenColumns' = WrittenColumns /\ Window' = Window
  <1>1. \A f : \A n : Column(f, n)' = Column(f, n)
    BY DEF Column
  <1>2. /\ Places' = Places /\ \A place : FramesAt(place)' = FramesAt(place)
        /\ \A frames, n : Compounded(frames, n)' = Compounded(frames, n)
    BY <1>1 DEF Places, FramesAt, Compounded
  <1>4. \A place : WrittenColumn(place)' = WrittenColumn(place)
    BY <1>2 DEF WrittenColumn
  <1>5. WrittenColumns' = WrittenColumns
    BY <1>2, <1>4 DEF WrittenColumns
  <1>3. Window' = Window
    BY DEF Window, InUse
  <1> QED
    BY <1>3, <1>5

LEMMA TablingInit == PsInit => Tabling
  BY DEF PsInit, Init, Tabling, IsPast, UpTo, Reading

\* A step that maps no generators and stages nothing leaves what is written so.
LEMMA TablingKept ==
  ASSUME Leaving, Tabling, UNCHANGED <<document, components, associations, left_out>>,
         step' # "written", step' \in ToSet(Parts) => step \in ToSet(Parts) \ {"series"},
         step' \in {"validate", "close", "owners"} <=> step \in {"validate", "close", "owners"},
         step' \in ToSet(Parts) =>
           /\ IsPast("generators")' <=> IsPast("generators")
           /\ Rows("generators")' = Rows("generators"),
         step' # "series"
  PROVE  Tabling'
  <1> SUFFICES ASSUME step' \in ToSet(Parts) PROVE Tabling'
    BY DEF Tabling
  <1>1. ReadFor("generators")' = ReadFor("generators")
    BY DEF ReadFor, RowsFor, OfTypes
  <1>2. \A r : GeneratorRow(r)' = GeneratorRow(r)
    BY DEF GeneratorRow, BusOf, BusName
  <1>3. \A a : Leftover(a)' <=> Leftover(a)
    BY DEF Leftover, IsConvertible, HasNamedOwner, Owner
  <1>4. IsPast("generators")' => \A r \in ReadFor("generators")' : GeneratorRow(r)' \in Rows("generators")'
    BY <1>1, <1>2 DEF Tabling
  <1>5. /\ step' \in {"validate", "close", "owners"} => left_out' \cap document'.associations = {}
        /\ step' \notin {"validate", "close", "owners"} =>
             \A a \in document'.associations : a \in left_out' <=> a \notin associations' \/ Leftover(a)'
    BY <1>3 DEF Tabling
  <1> QED
    BY <1>4, <1>5 DEF Tabling

LEMMA TablingStep == Fates /\ Staging /\ Tabling /\ [PsNext]_leg_vars => Tabling'
  <1> SUFFICES ASSUME Fates, Staging, Tabling, [PsNext]_leg_vars PROVE Tabling'
    OBVIOUS
  <1>1. CASE KeepValidRows \/ DropRowsThatReferToNoRow
    <2>1. /\ step \in {"validate", "close"} /\ step' \in {"close", "owners"} /\ document' = document
          /\ \A r \in left_out' : r \in left_out \/ r \in document.rows \/ r \in components
          /\ step = "validate" => left_out = {} /\ left_out' \subseteq document.rows
          /\ step = "close" => components \subseteq document.rows
      BY <1>1, PartsInOrder DEF KeepValidRows, DropRowsThatReferToNoRow, Dangling, Fates, Leaving
    <2>2. document.rows \cap document.associations = {}
      BY DocumentsAssumption DEF Fates, Leaving
    <2>3. left_out \cap document.associations = {}
      BY <2>1 DEF Tabling, ToSet, Parts
    <2>4. left_out' \cap document'.associations = {}
      BY <2>1, <2>2, <2>3
    <2> QED
      BY <2>1, <2>4 DEF Tabling, IsPast, UpTo, Reading
  <1>2. CASE DropAssociationsOfNoOwner
    <2>1. /\ step = "owners" /\ step' = "series" /\ document' = document
          /\ left_out' = left_out \cup (document.associations \ associations')
      BY <1>2, PartsInOrder DEF DropAssociationsOfNoOwner
    <2>2. left_out \cap document.associations = {}
      BY <2>1 DEF Tabling, ToSet, Parts
    <2> QED
      BY <2>1, <2>2 DEF Tabling, Leftover, IsPast, UpTo, Reading
  <1>3. CASE StageSeries
    <2>1. /\ step = "series" /\ step' = "buses" /\ UNCHANGED <<document, components, associations>>
          /\ left_out' = left_out \cup {a \in associations : ~(IsConvertible(a) /\ HasNamedOwner(a))}
      BY <1>3, PartsInOrder DEF StageSeries
    <2>2. \A a \in document.associations : a \in left_out <=> a \notin associations
      BY <2>1 DEF Tabling, Leftover, ToSet, Parts
    <2>3. \A a : Leftover(a)' <=> a \in associations /\ ~(IsConvertible(a) /\ HasNamedOwner(a))
      BY <2>1 DEF Leftover, IsConvertible, HasNamedOwner, Owner
    <2> QED
      BY <2>1, <2>2, <2>3 DEF Tabling, IsPast, UpTo, Reading
  <1>4. CASE MapGenerators
    <2> DEFINE mapped == {r \in KeptBy(OfTypes(GeneratorTypes), PowerUnitTypes, "natural") : r.type \in PlantTypes}
               rows   == {GeneratorRow(r) : r \in mapped}
    <2>1. /\ Goto("generators") /\ UNCHANGED <<document, components, associations, left_out>>
          /\ Write("generators", rows)
      BY <1>4 DEF MapGenerators
    <2>2. step = "generators" /\ step' = "storage_units"
      BY <2>1, PartsInOrder
    <2>3. mapped = ReadFor("generators")
      BY RowsOfAClass, RowsReadOfAClass DEF KeptBy, OfTypes, GeneratorTypes, PlantTypes, PowerUnitTypes
    <2>4. ReadFor("generators")' = ReadFor("generators") /\ \A r : GeneratorRow(r)' = GeneratorRow(r)
      BY <2>1 DEF ReadFor, RowsFor, OfTypes, GeneratorRow, BusOf, BusName
    <2>5. \A r \in ReadFor("generators") : GeneratorRow(r) \in Rows("generators")'
      BY <2>1, <2>3, RowsOnceWritten
    <2>6. \A a : Leftover(a)' <=> Leftover(a)
      BY <2>1, <2>2 DEF Leftover, IsConvertible, HasNamedOwner, Owner
    <2>7. \A a \in document.associations : a \in left_out <=> a \notin associations \/ Leftover(a)
      BY <2>2 DEF Tabling, ToSet, Parts
    <2> QED
      BY <2>1, <2>2, <2>4, <2>5, <2>6, <2>7 DEF Tabling
  <1>5. ASSUME NEW class \in Classes \ {"generators"}, NEW rows, Write(class, rows),
               step \in Classes \ {"generators"}, step' \in Classes \cup {"window"},
               UNCHANGED <<document, components, associations, left_out>>,
               IsPast("generators")' <=> IsPast("generators")
        PROVE  Tabling'
    <2>1. Rows("generators")' = Rows("generators")
      BY <1>5, RowsOnceWritten
    <2>2. step \in ToSet(Parts) \ {"series"} /\ step' \notin {"series", "written", "validate", "close", "owners"}
          /\ step \notin {"validate", "close", "owners"}
      BY <1>5 DEF Classes, ToSet, Parts
    <2> QED
      BY <1>5, <2>1, <2>2, TablingKept DEF Fates
  <1>6. CASE MapBuses
    <2>1. Goto("buses") /\ UNCHANGED <<document, components, associations, left_out>>
          /\ \E rows : Write("buses", rows)
      BY <1>6 DEF MapBuses
    <2>2. step = "buses" /\ step' = "generators" /\ (IsPast("generators")' <=> IsPast("generators"))
      BY <2>1, PartsInOrder, ClassesInOrder DEF Classes
    <2> QED
      BY <1>5, <2>1, <2>2 DEF Classes
  <1>7. CASE MapStorageUnits
    <2>1. Goto("storage_units") /\ UNCHANGED <<document, components, associations, left_out>>
          /\ \E rows : Write("storage_units", rows)
      BY <1>7 DEF MapStorageUnits
    <2>2. /\ step = "storage_units" /\ step' = "loads" /\ (IsPast("generators")' <=> IsPast("generators"))
      BY <2>1, PartsInOrder, ClassesInOrder DEF Classes
    <2> QED
      BY <1>5, <2>1, <2>2 DEF Classes
  <1>8. CASE MapLoads
    <2>1. Goto("loads") /\ UNCHANGED <<document, components, associations, left_out>>
          /\ \E rows : Write("loads", rows)
      BY <1>8 DEF MapLoads
    <2>2. /\ step = "loads" /\ step' = "lines" /\ (IsPast("generators")' <=> IsPast("generators"))
      BY <2>1, PartsInOrder, ClassesInOrder DEF Classes
    <2> QED
      BY <1>5, <2>1, <2>2 DEF Classes
  <1>9. CASE MapLines \/ MapLinks
    <2>1. CASE step' = "failed"
      BY <2>1 DEF Tabling, ToSet, Parts
    <2>2. CASE step' # "failed"
      <3>1. \E class \in {"lines", "links"} :
              /\ Goto(class) /\ UNCHANGED <<document, components, associations, left_out>>
              /\ \E rows : Write(class, rows)
        BY <1>9, <2>2 DEF MapLines, MapLinks
      <3>2. PICK class \in {"lines", "links"} :
              /\ Goto(class) /\ UNCHANGED <<document, components, associations, left_out>>
              /\ \E rows : Write(class, rows)
        BY <3>1
      <3>3. PICK rows : Write(class, rows)
        BY <3>2
      <3>4. /\ step = class /\ step' \in {"links", "window"} /\ (IsPast("generators")' <=> IsPast("generators"))
        BY <3>2, PartsInOrder, ClassesInOrder DEF Classes
      <3> QED
        BY <1>5, <3>2, <3>3, <3>4 DEF Classes
    <2> QED
      BY <2>1, <2>2
  <1>10. CASE DropProfilesOffTheWindow \/ RelateComponents
    <2>1. /\ step \in {"window", "locations"} /\ step' \in {"locations", "write"}
          /\ UNCHANGED <<document, components, associations, left_out>>
          /\ UNCHANGED tables \/ \E rows : Write("buses", rows)
      BY <1>10, PartsInOrder DEF DropProfilesOffTheWindow, RelateComponents
    <2>2. Rows("generators")' = Rows("generators")
      BY <2>1, RowsOnceWritten DEF Rows
    <2>3. IsPast("generators") /\ IsPast("generators")'
      BY <2>1 DEF IsPast, UpTo, Reading
    <2>4. step \in ToSet(Parts) \ {"series"}
      BY <2>1 DEF ToSet, Parts
    <2> QED
      BY <2>1, <2>2, <2>3, <2>4, TablingKept DEF Fates
  <1>11. CASE BuildNetwork
    <2>1. CASE step' = "failed"
      BY <2>1 DEF Tabling, ToSet, Parts
    <2>2. CASE step' # "failed"
      <3>1. /\ step = "write" /\ step' = "written"
            /\ UNCHANGED <<document, components, associations, left_out, series, tables, metadata>>
            /\ network' = [snapshots |-> Window, tables |-> tables, columns |-> WrittenColumns]
        BY <1>11, <2>2, PartsInOrder DEF BuildNetwork, WrittenColumns
      <3>2. /\ \A r \in ReadFor("generators") : GeneratorRow(r) \in Rows("generators")
            /\ \A a \in document.associations : a \in left_out <=> a \notin associations \/ Leftover(a)
        BY <3>1 DEF Tabling, IsPast, UpTo, Reading, ToSet, Parts
      <3>3. ReadFor("generators")' = ReadFor("generators") /\ \A r : GeneratorRow(r)' = GeneratorRow(r)
        BY <3>1 DEF ReadFor, RowsFor, OfTypes, GeneratorRow, BusOf, BusName
      <3>4. \A a : Leftover(a)' <=> Leftover(a)
        BY <3>1 DEF Leftover, IsConvertible, HasNamedOwner, Owner
      <3>5. Rows("generators")' = Rows("generators")
        BY <3>1 DEF Rows
      <3>6. network' = [snapshots |-> Window', tables |-> tables', columns |-> WrittenColumns']
        BY <3>1, WhatTheNetworkHoldsDependsOn
      <3> QED
        BY <3>1, <3>2, <3>3, <3>4, <3>5, <3>6 DEF Tabling
    <2> QED
      BY <2>1, <2>2
  <1>12. CASE FillAvailability \/ AssignUuids \/ MapToPowerSimulations \/ WriteSidecar \/ WriteSystem
    <2>1. step' \in {"ps_uuids", "ps_map", "ps_sidecar", "ps_system", "ps_written", "ps_failed"}
      BY <1>12 DEF FillAvailability, AssignUuids, MapToPowerSimulations, WriteSidecar, WriteSystem, Read
    <2> QED
      BY <2>1 DEF Tabling, ToSet, Parts
  <1>13. CASE UNCHANGED vars
    <2>1. UNCHANGED <<step, document, components, associations, left_out, series, metadata, tables, network>>
      BY <1>13 DEF vars
    <2>2. /\ ReadFor("generators")' = ReadFor("generators") /\ Rows("generators")' = Rows("generators")
          /\ \A r : GeneratorRow(r)' = GeneratorRow(r)
      BY <2>1 DEF ReadFor, RowsFor, OfTypes, GeneratorRow, BusOf, BusName, Rows
    <2>3. \A a : Leftover(a)' <=> Leftover(a)
      BY <2>1 DEF Leftover, IsConvertible, HasNamedOwner, Owner
    <2>4. IsPast("generators")' <=> IsPast("generators")
      BY <2>1 DEF IsPast, UpTo
    <2>5. WrittenColumns' = WrittenColumns /\ Window' = Window
      BY <2>1, WhatTheNetworkHoldsDependsOn
    <2> QED
      BY <2>1, <2>2, <2>3, <2>4, <2>5 DEF Tabling
  <1> QED
    BY <1>1, <1>2, <1>3, <1>4, <1>6, <1>7, <1>8, <1>9, <1>10, <1>11, <1>12, <1>13
       DEF PsNext, Next, Terminated, PsTerminated, leg_vars

Columns == Fates /\ Staging /\ Pointing /\ Tabling

LEMMA ColumnsInit == PsInit => Columns
  BY FatesInit, StagingInit, PointingInit, TablingInit DEF Columns

LEMMA ColumnsStep == Columns /\ [PsNext]_leg_vars => Columns'
  BY LeavingStep, SortingStep, StagingStep, PointingStep, TablingStep DEF Columns, Fates

\* A staged series times the factor its owner is mapped with.
Scaled(a) == [i \in DOMAIN PerUnit(a) |-> Times(PerUnit(a)[i], ScaleFor(Owner(a)))]

\* What a metadata row of a type's series points a component at is one staged series, and the
\* component is its owner.
LEMMA SeriesOfAFrame ==
  ASSUME Columns, step = "written", NEW f \in ToSet(metadata), f.key[1] \in SeriesTypes,
         NEW n \in DOMAIN f.scale
  PROVE  \E a \in Staged :
           /\ a.type = f.key[1] /\ IsRead(a) /\ f.key = SeriesKey(a) /\ n = Owner(a).name
           /\ f.table = TableFor(a.type) /\ f.attribute = AttributeOf(a.type)
           /\ Owner(a) \in ReadFor(TableFor(a.type)) /\ IsPointedAt(a)
           /\ Column(f, n) = Scaled(a)
  <1>1. /\ IsPointer(f)
        /\ StagesNothingElse /\ StagesAsStored /\ Leaving /\ step # "validate"
        /\ associations = {a \in document.associations : HasOwner(a)}
    BY DEF Columns, Fates, Pointing, Staging, Tabling, ToSet, Parts, Reading
  <1>2. ~PointsAtCompanion(f)
    BY CompanionIsNoSeries
  <1>3. PICK a \in Staged :
          /\ a.type \in SeriesTypes /\ IsRead(a) /\ f.key = SeriesKey(a) /\ n = Owner(a).name
          /\ f.table = TableFor(a.type) /\ f.attribute = AttributeOf(a.type)
          /\ \E r \in ReadFor(TableFor(a.type)) : r.name = n /\ f.scale[n] = ScaleFor(r)
    BY <1>1, <1>2, PointedAtOneSeries
  <1>4. PICK r \in ReadFor(TableFor(a.type)) : r.name = n /\ f.scale[n] = ScaleFor(r)
    BY <1>3
  <1>5. a.type \in Mapped
    BY <1>3, TablesOfSeries
  <1>6. r = Owner(a)
    <2>1. Owner(a) \in OfTypes(Mapped)
      BY <1>1, <1>5, OwnersAreKept DEF Staged, OfTypes
    <2>2. r \in OfTypes(Mapped)
      BY <1>4 DEF ReadFor, RowsFor
    <2> QED
      BY <1>1, <1>3, <1>4, <2>1, <2>2, NamesAreTheirOwn
  <1>7. f.key[1] = a.type /\ series[f.key][n] = [at |-> a.at, values |-> PerUnit(a)]
    BY <1>1, <1>3, <1>5 DEF StagesAsStored, SeriesKey
  <1>8. Column(f, n) = Scaled(a)
    BY <1>4, <1>6, <1>7 DEF Column, Scaled
  <1>9. IsPointedAt(a)
    BY <1>3 DEF IsPointedAt
  <1> QED
    BY <1>3, <1>4, <1>6, <1>7, <1>8, <1>9

\* Where a column that holds a type's series stands, and what it holds if it holds no other.
LEMMA ColumnOfOneSeries ==
  ASSUME Columns, step = "written", NEW c \in network.columns, NEW type \in SeriesTypes, type \in c.owners
  PROVE  \E a \in Staged :
           /\ a.type = type /\ IsRead(a) /\ c.component = Owner(a).name
           /\ Owner(a) \in ReadFor(TableFor(type)) /\ IsPointedAt(a)
           /\ c = WrittenColumn(<<TableFor(type), AttributeOf(type), Owner(a).name>>)
           /\ ~IsCompounded(c) => c.values = Scaled(a)
  <1>1. network.columns = WrittenColumns
    BY DEF Columns, Tabling
  <1>2. PICK place \in Places : c = WrittenColumn(place)
    BY <1>1 DEF WrittenColumns
  <1> DEFINE n      == place[3]
             frames == FramesAt(place)
             one    == CHOOSE f \in frames : TRUE
  <1>3. /\ c.component = n /\ c.owners = {f.key[1] : f \in frames}
        /\ c.values = Compounded(frames, n)
    BY <1>2 DEF WrittenColumn
  <1>4. place = <<place[1], place[2], n>>
    BY <1>2 DEF Places
  <1>5. \A f \in frames : f \in ToSet(metadata) /\ n \in DOMAIN f.scale
                          /\ f.table = place[1] /\ f.attribute = place[2]
    BY DEF FramesAt
  <1>6. PICK f \in frames : f.key[1] = type
    BY <1>3
  <1>7. PICK a \in Staged :
          /\ a.type = f.key[1] /\ IsRead(a) /\ f.key = SeriesKey(a) /\ n = Owner(a).name
          /\ f.table = TableFor(a.type) /\ f.attribute = AttributeOf(a.type)
          /\ Owner(a) \in ReadFor(TableFor(a.type)) /\ IsPointedAt(a)
    BY <1>5, <1>6, SeriesOfAFrame
  <1>8. place = <<TableFor(type), AttributeOf(type), Owner(a).name>>
    BY <1>4, <1>5, <1>6, <1>7
  <1>9. ASSUME ~IsCompounded(c)
        PROVE  c.values = Scaled(a)
    <2>1. \A g \in frames : g.key[1] = type
      BY <1>3, <1>9 DEF IsCompounded
    <2>2. one \in frames
      BY <1>6
    <2>3. \A g \in frames : g.key = <<type, SeriesRead(type)>>
      <3> SUFFICES ASSUME NEW g \in frames PROVE g.key = <<type, SeriesRead(type)>>
        OBVIOUS
      <3>1. PICK b \in Staged : b.type = type /\ IsRead(b) /\ g.key = SeriesKey(b)
        BY <1>5, <2>1, SeriesOfAFrame
      <3> QED
        BY <3>1 DEF SeriesKey, IsRead, SeriesRead
    <2>4. {g \in frames : g.key # one.key} = {}
      BY <2>2, <2>3
    <2>5. c.values = Column(one, n)
      BY <1>3, <2>4 DEF Compounded
    <2>6. PICK b \in Staged :
            /\ b.type = type /\ IsRead(b) /\ n = Owner(b).name
            /\ Column(one, n) = Scaled(b)
      <3>1. one \in ToSet(metadata) /\ one.key[1] \in SeriesTypes /\ n \in DOMAIN one.scale /\ one.key[1] = type
        BY <1>5, <2>1, <2>2
      <3> HIDE DEF one, n
      <3> QED
        BY <3>1, SeriesOfAFrame
    <2>7. b = a
      <3>1. /\ Leaving /\ step # "validate"
            /\ associations = {x \in document.associations : HasOwner(x)}
        BY DEF Columns, Fates, Staging
      <3>2. a.name = b.name /\ a.type \in Mapped /\ b.type \in Mapped /\ Owner(a).name = Owner(b).name
        BY <1>6, <1>7, <2>6, TablesOfSeries DEF IsRead
      <3> QED
        BY <3>1, <3>2, SeriesAreTheirOwn DEF Staged
    <2> QED
      BY <2>5, <2>6, <2>7
  <1> QED
    BY <1>2, <1>3, <1>6, <1>7, <1>8, <1>9

\* In any document whose mapped components have names of their own, what a column of one series
\* holds is, with the capacity written beside it, the megawatts
\* stored for its owner: the attribute staging divides by and the one the mapping multiplies
\* by are one, type by type.
THEOREM ColumnsHoldTheMegawatts == PsSpec => []ColumnsAreTheStoredMegawatts
  <1>1. ASSUME Columns, step = "written", NEW c \in network.columns, NEW a \in associations,
               c.attribute \in {"p_max_pu", "p_set", "inflow"}, IsWrittenFrom(c, a), IsRead(a),
               ~IsCompounded(c), Owner(a).base # 0, SeriesCapacity(Owner(a)) # 0, NEW i \in DOMAIN a.values
        PROVE  Same(WrittenMegawatts(c, i), StoredMegawatts(a, i))
    <2> DEFINE r        == Owner(a)
               capacity == SeriesCapacity(r)
    <2>1. /\ Leaving /\ step # "validate" /\ a \in document.associations
          /\ associations = {x \in document.associations : HasOwner(x)}
      BY <1>1 DEF Columns, Fates, Staging
    <2>2. r \in components /\ r.type = a.type /\ r \in document.rows
      BY <1>1, <2>1, OwnersAreKept DEF Leaving
    <2>3. /\ a.values \in Seq(Int) /\ a.type # CompanionOwner
          /\ r.type \in GeneratorTypes \cup LoadTypes => r.base \in Int /\ r.max \in Int
          /\ r.type \in GeneratorTypes => r.rating \in Int
      BY <2>1, <2>2, DocumentsAssumption DEF HoldsWholeMegawatts, Leaving
    <2>4. a.type \in c.owners /\ c.component = r.name
      BY <1>1 DEF IsWrittenFrom
    <2>5. a.type \in SeriesTypes
      <3>1. /\ \A f \in ToSet(metadata) : IsPointer(f)
            /\ c \in WrittenColumns
        BY <1>1 DEF Columns, Pointing, Tabling, ToSet, Parts
      <3>2. PICK place \in Places : c = WrittenColumn(place)
        BY <3>1 DEF WrittenColumns
      <3>3. PICK f \in FramesAt(place) : f.key[1] = a.type
        BY <2>4, <3>2 DEF WrittenColumn
      <3>4. f \in ToSet(metadata) /\ ~PointsAtCompanion(f)
        BY <2>3, <3>3 DEF FramesAt, PointsAtCompanion, Companion
      <3>5. PICK type \in SeriesTypes : f.key = <<type, SeriesRead(type)>>
        BY <3>1, <3>4 DEF IsPointer, PointsInto
      <3> QED
        BY <3>3, <3>5
    <2>6. /\ c.table = TableFor(a.type) /\ c.attribute = AttributeOf(a.type)
          /\ c.values = Scaled(a)
          /\ r \in ReadFor(TableFor(a.type))
      <3>1. PICK b \in Staged :
              /\ b.type = a.type /\ IsRead(b) /\ c.component = Owner(b).name
              /\ Owner(b) \in ReadFor(TableFor(a.type))
              /\ c = WrittenColumn(<<TableFor(a.type), AttributeOf(a.type), Owner(b).name>>)
              /\ c.values = Scaled(b)
        BY <1>1, <2>4, <2>5, ColumnOfOneSeries
      <3>2. a.name = b.name
        BY <1>1, <3>1 DEF IsRead
      <3>3. b \in associations /\ a.type \in Mapped /\ b.type \in Mapped /\ Owner(a).name = Owner(b).name
        BY <2>4, <2>5, <3>1, TablesOfSeries DEF Staged
      <3>4. a = b
        BY <1>1, <2>1, <3>2, <3>3, SeriesAreTheirOwn
      <3>5. c.table = TableFor(a.type) /\ c.attribute = AttributeOf(a.type)
        BY <3>1 DEF WrittenColumn
      <3> QED
        BY <3>1, <3>4, <3>5
    <2>7. a.type \in SeriesTypes /\ r.base \in Int /\ capacity \in Int /\ a.values[i] \in Int
      <3>1. a.type \in SeriesTypes /\ r.type \in GeneratorTypes \cup LoadTypes
        BY <2>2, <2>4, <2>5 DEF SeriesTypes
      <3>2. SeriesCapacity(r) \in {r.max, r.base} \/ (SeriesCapacity(r) = r.rating /\ r.type \in GeneratorTypes)
        BY DEF SeriesCapacity, GeneratorTypes, PlantTypes
      <3> QED
        BY <1>1, <2>3, <3>1, <3>2
    <2>8. c.values[i] = Times(PerUnit(a)[i], ScaleFor(r))
      BY <1>1, <2>6 DEF PerUnit, Scaled
    <2>9. \E scale \in Int, nom \in Int :
            /\ ScaleFor(r) = <<capacity, scale>>
            /\ WrittenMegawatts(c, i) = Times(c.values[i], <<nom, 1>>)
            /\ scale = nom
      <3>1. CASE a.type \in PlantTypes
        <4>1. c.table = "generators" /\ c.attribute = "p_max_pu" /\ r \in ReadFor("generators")
          BY <2>6, <2>7, <3>1, TablesOfSeries, SeriesReadOfATable
        <4>2. IsPast("generators")
          BY <1>1 DEF IsPast, UpTo, Reading
        <4>3. GeneratorRow(r) \in Rows("generators") /\ OneEach(Rows("generators"), ReadFor("generators"))
          BY <1>1, <4>1, <4>2 DEF Columns, Fates, Sorting, Tabling, ToSet, Parts, Classes
        <4>4. network.tables = tables /\ network.tables[c.table] = Rows("generators")
          <5>1. network.tables = tables
            BY <1>1 DEF Columns, Tabling
          <5>2. "generators" \in DOMAIN tables
            BY <4>3 DEF Rows
          <5> QED
            BY <4>1, <5>1, <5>2 DEF Rows
        <4>5. GeneratorRow(r).name = r.name /\ GeneratorRow(r).p_nom = r.base
          BY DEF GeneratorRow
        <4>6. WrittenRow(c) = GeneratorRow(r)
          <5>1. \A row \in Rows("generators") : row.name = r.name => row = GeneratorRow(r)
            BY <4>3, <4>5 DEF OneEach
          <5>2. WrittenRow(c) = CHOOSE row \in Rows("generators") : row.name = r.name
            BY <2>4, <4>4 DEF WrittenRow
          <5> QED
            BY <4>3, <4>5, <5>1, <5>2
        <4>7. WrittenMegawatts(c, i) = Times(c.values[i], <<r.base, 1>>)
          BY <4>1, <4>5, <4>6 DEF WrittenMegawatts
        <4>8. ScaleFor(r) = <<capacity, r.base>>
          BY <1>1, <2>2, <3>1
             DEF ScaleFor, GeneratorScale, PerUnitOf, RatedPerUnit, SeriesCapacity, PlantTypes, LoadTypes
        <4> QED
          BY <2>7, <4>7, <4>8
      <3>2. CASE a.type \notin PlantTypes
        <4>1. c.attribute # "p_max_pu"
          BY <2>6, <3>2 DEF AttributeOf
        <4>2. WrittenMegawatts(c, i) = Times(c.values[i], <<1, 1>>)
          BY <4>1 DEF WrittenMegawatts
        <4>3. ScaleFor(r) = <<capacity, 1>>
          BY <2>2, <2>7, <3>2
             DEF ScaleFor, SeriesCapacity, SeriesTypes, GeneratorTypes, PlantTypes, LoadTypes
        <4> QED
          BY <4>2, <4>3
      <3> QED
        BY <3>1, <3>2
    <2>10. PICK nom \in Int :
             /\ ScaleFor(r) = <<capacity, nom>>
             /\ WrittenMegawatts(c, i) = Times(c.values[i], <<nom, 1>>)
      BY <2>9
    <2>11. WrittenMegawatts(c, i) = Times(Times(PerUnit(a)[i], <<capacity, nom>>), <<nom, 1>>)
      BY <2>8, <2>10
    <2>12. CASE a.natural
      <3>1. PerUnit(a)[i] = <<a.values[i], capacity>> /\ StoredMegawatts(a, i) = <<a.values[i], 1>>
        BY <1>1, <2>12 DEF PerUnit, StoredMegawatts
      <3> HIDE DEF r, capacity
      <3> QED
        BY <2>7, <2>11, <3>1, CapacitiesCancel
    <2>13. CASE ~a.natural
      <3>1. PerUnit(a)[i] = <<a.values[i], 1>> /\ StoredMegawatts(a, i) = <<a.values[i] * capacity, 1>>
        BY <2>13 DEF PerUnit, StoredMegawatts
      <3> HIDE DEF r, capacity
      <3> QED
        BY <2>7, <2>11, <3>1, CapacitiesCancel
    <2> QED
      BY <2>12, <2>13
  <1>2. Columns => ColumnsAreTheStoredMegawatts
    BY <1>1 DEF ColumnsAreTheStoredMegawatts
  <1> QED
    BY <1>2, ColumnsInit, ColumnsStep, PTL DEF PsSpec

\* A profile of a component that is written is left out, off the window or one column.
LEMMA OneFateOfAProfile ==
  ASSUME Columns, step = "written", NEW a \in document.associations, a.type \in SeriesTypes,
         IsRead(a), a.values # << >>, HasOwner(a), Owner(a) \in ReadFor(TableFor(a.type))
  PROVE  LET n == Owner(a).name
         IN  Cardinality(left_out \cap {a})
               + Cardinality({p \in dropped : p.owner = a.type /\ p.series = a.name /\ p.component = n})
               + Cardinality({c \in network.columns : a.type \in c.owners /\ c.component = n}) = 1
  <1> DEFINE n    == Owner(a).name
             out  == left_out \cap {a}
             off  == {p \in dropped : p.owner = a.type /\ p.series = a.name /\ p.component = n}
             cols == {c \in network.columns : a.type \in c.owners /\ c.component = n}
             col  == WrittenColumn(<<TableFor(a.type), AttributeOf(a.type), n>>)
  <1>1. /\ Leaving /\ step # "validate" /\ a.type \in Mapped
        /\ associations = {b \in document.associations : HasOwner(b)} /\ a \in associations
        /\ network.columns = WrittenColumns
    BY TablesOfSeries DEF Columns, Fates, Staging, Tabling
  <1>2. a \in left_out <=> a \notin Staged
    BY <1>1 DEF Columns, Tabling, Leftover, Staged, ToSet, Parts
  <1>3. ASSUME NEW b \in Staged, b.type \in SeriesTypes, b.name = a.name, Owner(b).name = n
        PROVE  b = a
    BY <1>1, <1>3, TablesOfSeries, SeriesAreTheirOwn DEF Staged
  <1>4. a \in Staged => (IsPointedAt(a) <=> Profile(a) \notin dropped)
    <2>1. IsPast(TableFor(a.type))
      BY TablesOfSeries DEF IsPast, UpTo, Reading, Classes
    <2> QED
      BY <2>1 DEF Columns, Pointing, IsMappedSeries, ToSet, Parts
  <1>5. ASSUME NEW p \in off PROVE a \in Staged /\ p = Profile(a)
    <2>1. PICK b \in Staged : p = Profile(b)
      BY DEF Columns, Pointing, ToSet, Parts
    <2>2. b.type = a.type /\ b.name = a.name /\ Owner(b).name = n
      BY <2>1 DEF Profile
    <2>3. b = a
      BY <1>3, <2>2
    <2> QED
      BY <2>1, <2>3
  <1>6. ASSUME NEW c \in cols PROVE a \in Staged /\ IsPointedAt(a) /\ c = col
    <2>1. PICK b \in Staged :
            /\ b.type = a.type /\ IsRead(b) /\ c.component = Owner(b).name
            /\ IsPointedAt(b)
            /\ c = WrittenColumn(<<TableFor(a.type), AttributeOf(a.type), Owner(b).name>>)
      <3> DEFINE type == a.type
      <3>1. c \in network.columns /\ type \in SeriesTypes /\ type \in c.owners
        OBVIOUS
      <3> HIDE DEF cols, col, out, off, type
      <3>2. \E b \in Staged :
              /\ b.type = type /\ IsRead(b) /\ c.component = Owner(b).name
              /\ Owner(b) \in ReadFor(TableFor(type)) /\ IsPointedAt(b)
              /\ c = WrittenColumn(<<TableFor(type), AttributeOf(type), Owner(b).name>>)
        BY <3>1, ColumnOfOneSeries
      <3> QED
        BY <3>2 DEF type
    <2>2. b.type = a.type /\ Owner(b).name = n
      BY <2>1
    <2>3. b.name = a.name
      BY <2>1, <2>2 DEF IsRead
    <2>4. b = a
      BY <1>3, <2>1, <2>2, <2>3
    <2> QED
      BY <2>1, <2>4
  <1>7. ASSUME IsPointedAt(a) PROVE cols # {}
    <2>1. PICK f \in ToSet(metadata) : f.key = SeriesKey(a) /\ n \in DOMAIN f.scale
      BY <1>7 DEF IsPointedAt
    <2> DEFINE place == <<f.table, f.attribute, n>>
               c     == WrittenColumn(place)
    <2>2. place \in Places /\ f \in FramesAt(place)
      BY <2>1 DEF Places, FramesAt
    <2>3. c \in network.columns
      BY <1>1, <2>2 DEF WrittenColumns
    <2>4. f.key[1] = a.type
      BY <2>1 DEF SeriesKey
    <2>5. a.type \in c.owners /\ c.component = n
      BY <2>2, <2>4 DEF WrittenColumn
    <2> QED
      BY <2>3, <2>5
  <1>8. Cardinality({}) = 0 /\ \A x : Cardinality({x}) = 1
    BY FS_EmptySet, FS_Singleton
  <1>9. Profile(a) \in dropped => Profile(a) \in off
    BY DEF Profile
  <1> SUFFICES Cardinality(out) + Cardinality(off) + Cardinality(cols) = 1
    OBVIOUS
  <1>10. out = IF a \in left_out THEN {a} ELSE {}
    OBVIOUS
  <1> HIDE DEF out, off, cols, col
  <1>11. CASE a \notin Staged
    <2>1. out = {a} /\ off = {} /\ cols = {}
      BY <1>2, <1>5, <1>6, <1>10, <1>11
    <2>2. Cardinality(out) = 1 /\ Cardinality(off) = 0 /\ Cardinality(cols) = 0
      BY <1>8, <2>1, Zenon
    <2> QED
      BY <2>2
  <1>12. CASE a \in Staged /\ Profile(a) \in dropped
    <2>1. out = {} /\ off = {Profile(a)} /\ cols = {}
      BY <1>2, <1>4, <1>5, <1>6, <1>9, <1>10, <1>12
    <2>2. Cardinality(out) = 0 /\ Cardinality(off) = 1 /\ Cardinality(cols) = 0
      BY <1>8, <2>1, Zenon
    <2> QED
      BY <2>2
  <1>13. CASE a \in Staged /\ Profile(a) \notin dropped
    <2>1. off = {}
      <3>1. \A p \in off : p \in dropped
        BY DEF off
      <3> QED
        BY <1>5, <1>13, <3>1
    <2>2. out = {} /\ cols = {col}
      BY <1>2, <1>4, <1>6, <1>7, <1>10, <1>13
    <2>3. Cardinality(out) = 0 /\ Cardinality(off) = 0 /\ Cardinality(cols) = 1
      BY <1>8, <2>1, <2>2, Zenon
    <2> QED
      BY <2>3
  <1> QED
    BY <1>11, <1>12, <1>13

\* In any document whose mapped components have names of their own (DocumentsAssumption) no
\* component and no profile of a written component is lost without a word:
\* what a part of the leg leaves out, it says, and what it does not leave out is written once.
THEOREM NothingIsLost == PsSpec => []NothingIsLostInSilence
  <1>1. ASSUME Columns PROVE EveryProfileHasOneFate
    <2> SUFFICES ASSUME step = "written", NEW a \in document.associations
                 PROVE  LET is(r) == r.type = a.type /\ r.id = a.owner
                            mine  == {r \in components :
                                        is(r) /\ r.name \in {w.name : w \in Rows(TableFor(r.type))}}
                        IN  mine # {} /\ a.type \in GeneratorTypes \cup LoadTypes /\ IsRead(a) /\ a.values # <<>> =>
                              LET n == (CHOOSE r \in mine : TRUE).name
                              IN  Cardinality(left_out \cap {a})
                                    + Cardinality({p \in dropped : p.owner = a.type /\ p.series = a.name
                                                                   /\ p.component = n})
                                    + Cardinality({c \in network.columns : a.type \in c.owners
                                                                           /\ c.component = n}) = 1
      BY DEF EveryProfileHasOneFate
    <2> DEFINE mine == {r \in components :
                          /\ r.type = a.type /\ r.id = a.owner
                          /\ r.name \in {w.name : w \in Rows(TableFor(r.type))}}
    <2> SUFFICES ASSUME mine # {}, a.type \in SeriesTypes, IsRead(a), a.values # <<>>
                 PROVE  LET n == (CHOOSE r \in mine : TRUE).name
                        IN  Cardinality(left_out \cap {a})
                              + Cardinality({p \in dropped : p.owner = a.type /\ p.series = a.name
                                                             /\ p.component = n})
                              + Cardinality({c \in network.columns : a.type \in c.owners
                                                                     /\ c.component = n}) = 1
      BY DEF SeriesTypes
    <2>1. Leaving /\ components \subseteq document.rows
      BY <1>1 DEF Columns, Fates, Leaving
    <2>2. PICK r \in components : /\ r.type = a.type /\ r.id = a.owner
                                  /\ \E w \in Rows(TableFor(r.type)) : w.name = r.name
      OBVIOUS
    <2>3. \A q \in components : q.type = a.type /\ q.id = a.owner => q = r
      BY <2>1, <2>2, DocumentsAssumption DEF Leaving
    <2>4. HasOwner(a) /\ Owner(a) = r
      BY <2>2, <2>3 DEF HasOwner, Owner
    <2>5. (CHOOSE q \in mine : TRUE) = r
      BY <2>3
    <2>6. r \in ReadFor(TableFor(a.type))
      <3>1. IsPast(TableFor(a.type)) /\ TableFor(a.type) \in Classes /\ a.type \in Mapped
        BY TablesOfSeries DEF IsPast, UpTo, Reading, Classes
      <3>2. OneEach(Rows(TableFor(a.type)), ReadFor(TableFor(a.type)))
        BY <1>1, <3>1 DEF Columns, Fates, Sorting, ToSet, Parts
      <3>3. PICK q \in ReadFor(TableFor(a.type)) : q.name = r.name
        BY <2>2, <3>2 DEF OneEach
      <3>4. q \in OfTypes(Mapped) /\ r \in OfTypes(Mapped)
        BY <2>2, <3>1, <3>3 DEF ReadFor, RowsFor, OfTypes
      <3> QED
        BY <2>1, <3>3, <3>4, NamesAreTheirOwn
    <2> HIDE DEF mine
    <2> QED
      BY <1>1, <2>4, <2>5, <2>6, OneFateOfAProfile
  <1>2. Columns => EveryComponentHasOneFate
    BY OneFateEach DEF Columns, EveryComponentHasOneFate
  <1>3. Columns => NothingIsLostInSilence
    BY <1>1, <1>2 DEF NothingIsLostInSilence
  <1> QED
    BY <1>3, ColumnsInit, ColumnsStep, PTL DEF PsSpec
=============================================================================
