--------------------------- MODULE OsemosysCanonical ---------------------------
(***************************************************************************)
(* The source of the two legs into the canonical OSeMOSYS stage and their  *)
(* sink: a model is read into raw tables, cleaned, mapped to the canonical *)
(* schema by name and by the rows of the user mappings, given defaults and *)
(* annotations, and written.                                               *)
(*                                                                         *)
(* A source is an otoole config and directory, or a TZ document.  A row of *)
(* `parameters:` is [tables, canonical, rename, named, remove, repeat,     *)
(* factor]: the groups its pattern captures in each table it matches, Null *)
(* as canonical where it says ignore, and its operations.  A row of        *)
(* `objects:` is [of, gives, location]: the members it matches, what it    *)
(* gives them, and its location filled for each <<region, member>>, Null   *)
(* where the match captures nothing.  Units and the version are left out.  *)
(***************************************************************************)
EXTENDS OtooleFiles, TzModel

CONSTANTS
  Inputs,        \* the <<source, mappings>> a run may be given
  ModeNumber,    \* [mode -> its number], -1 for a mode that is none
  TextOrder      \* [mode or location -> its place in code-point order], from 1

VARIABLES source, mappings, step, raw, sets, plan, tables, events, output
vars == <<source, mappings, step, raw, sets, plan, tables, events, output>>

Nothing == << >>
Init ==
  /\ \E input \in Inputs : source = input[1] /\ mappings = input[2]
  /\ step = "read" /\ raw = Nothing /\ sets = Nothing /\ plan = Nothing
  /\ tables = Nothing /\ events = {} /\ output = Nothing

Goes(from, to) == step = from /\ step' = to
Reports(found) == events' = events \cup found

(* -------------------------------- the source ------------------------------ *)

ReadOtoole ==
  /\ source.format = "otoole"
  /\ LET files == CsvFiles(source.config, source.dir) IN
     IF HoldsNoDeclaredFile(files)
     THEN Goes("read", "refused") /\ UNCHANGED <<raw, events>>
     ELSE Goes("read", "normalise") /\ raw' = OtooleTables(source.config, files)
          /\ Reports(OtooleEvents(source.config, files))
  /\ UNCHANGED <<source, mappings, sets, plan, tables, output>>

ReadTz ==
  /\ source.format = "tz"
  /\ Goes("read", "normalise")
  /\ raw' = TzTables(source.document)
  /\ Reports(TzEvents(source.document))
  /\ UNCHANGED <<source, mappings, sets, plan, tables, output>>

NormaliseRaw ==
  /\ Goes("normalise", "sets")
  /\ raw' = Normalise(raw)
  /\ Reports(RepeatedKeys(raw))
  /\ UNCHANGED <<source, mappings, sets, plan, tables, output>>

(* ---------------------------------- sets ---------------------------------- *)

SetTarget(name) ==
  IF name \in DOMAIN mappings.sets THEN {mappings.sets[name]} ELSE FindSet(name)
MappedTo(set) == {s \in DOMAIN raw.sets : SetTarget(s) = {set}}
UnmappedSets == {s \in DOMAIN raw.sets : SetTarget(s) = {}}

\* _build_union: a canonical set that several raw sets map to holds the members of each.
CanonicalSet(set) == LET found == SetToSeq(MappedTo(set))
                     IN  Unique(FlattenSeq([i \in DOMAIN found |-> raw.sets[found[i]]]))

MapSets ==
  /\ Goes("sets", "plan")
  /\ sets' = [s \in UNION {SetTarget(n) : n \in DOMAIN raw.sets} |-> CanonicalSet(s)]
  /\ tables' = [k \in {<<"extension", s>> : s \in UnmappedSets} |-> raw.sets[k[2]]]
  /\ Reports({NotMapped(<<"set", s>>, "no canonical set") : s \in UnmappedSets}
             \cup {Event("VALUE_DERIVED", <<"set", s>>, CHOOSE c \in SetTarget(s) : TRUE) : s \in DOMAIN raw.sets \ UnmappedSets})
  /\ UNCHANGED <<source, mappings, raw, plan, output>>

MembersOf(set) == IF set \in DOMAIN sets THEN sets[set] ELSE << >>

(* --------------------------------- columns -------------------------------- *)

CanonicalColumn(column) ==
  IF column = SecondRegion THEN "end_region"
  ELSE IF FindSet(column) = {} THEN column ELSE CHOOSE s \in FindSet(column) : TRUE
FromStart(column) == IF column = "region" THEN "start_region" ELSE column

ParameterColumn(p, column) ==
  IF "start_region" \in Columns(p) THEN FromStart(CanonicalColumn(column)) ELSE CanonicalColumn(column)
ExtensionColumn(key, column) ==
  IF Contains(key, SecondRegion) THEN FromStart(CanonicalColumn(column)) ELSE CanonicalColumn(column)

Renamed(rows, Name(_)) ==
  LET NewAt(at) == [c \in {Name(old) : old \in DOMAIN at} |-> at[CHOOSE old \in DOMAIN at : Name(old) = c]]
  IN  [i \in DOMAIN rows |-> [rows[i] EXCEPT !.at = NewAt(@)]]

(* ------------------------------ rows and tables --------------------------- *)

Matching(t) == {i \in DOMAIN mappings.parameters : t \in DOMAIN mappings.parameters[i].tables}
\* find_row_match: the first row that matches wins.
RowOf(t) == mappings.parameters[Min(Matching(t))]
Declaration(t) == raw.declarations[t]
RawTables == DOMAIN raw.parameters

Group(p) == {t \in RawTables : Matching(t) # {} /\ RowOf(t).canonical = p}
Grouped == {p \in DOMAIN Parameter : Group(p) # {}}
ConvertDefault(row, default) == IF default = Null \/ row.factor = Null THEN default ELSE default * row.factor
DefaultOf(t) == ConvertDefault(RowOf(t), Declaration(t).default)
HasDifferentDefaults(p) == Cardinality({DefaultOf(t) : t \in Group(p)}) > 1

RawKey(t, p) == LET key == Declaration(t).key IN [i \in DOMAIN key |-> ParameterColumn(p, key[i])]
NewName(row, column) == IF column \in DOMAIN row.rename THEN row.rename[column] ELSE column
NamedKey(row, key) == [i \in DOMAIN key |-> NewName(row, key[i])] \o SetToSeq(Range(row.named))
Removes(row, column) == row.remove # Null /\ row.remove.column = column
KeptKey(row, key) == SelectSeq(NamedKey(row, key), LAMBDA c : ~Removes(row, c))

\* reject_wrong_key
HasWrongKey(t) ==
  LET row == RowOf(t)
      p == row.canonical
      key == RawKey(t, p)
      derived == KeptKey(row, key) \o SetToSeq(row.repeat)
  IN  \/ ~ DOMAIN row.rename \subseteq ToSet(key)
      \/ row.remove # Null /\ ~Contains(NamedKey(row, key), row.remove.column)
      \/ ~ (IsInjective(derived) /\ ToSet(derived) = Columns(p))

\* _reshape_named_columns, after the columns have their canonical names.
NamedRows(t) ==
  LET row == RowOf(t)
      rows == Renamed(Renamed(raw.parameters[t], LAMBDA c : ParameterColumn(row.canonical, c)), LAMBDA c : NewName(row, c))
      groups == [c \in Range(row.named) |-> row.tables[t][CHOOSE g \in DOMAIN row.named : row.named[g] = c]]
  IN  [i \in DOMAIN rows |-> [rows[i] EXCEPT !.at = groups @@ @]]

Total(values) == FoldLeft(LAMBDA sum, v : sum + v, 0, values)
Aggregate(rule, values) ==
  CASE rule = "sum" -> Total(values)
    [] values = << >> -> Null
    [] rule = "mean" -> Total(values) \div Len(values)
    [] rule = "min" -> Min(ToSet(values))
    [] rule = "max" -> Max(ToSet(values))

At(row, columns) == [c \in columns |-> row.at[c]]
Chosen(rows, remove) ==
  LET found == SelectSeq(rows, LAMBDA r : r.at[remove.column] = remove.member)
  IN  [i \in DOMAIN found |-> [found[i] EXCEPT !.at = [c \in DOMAIN @ \ {remove.column} |-> @[c]]]]
\* Without a column left to group by, the aggregate of a table is one row, an empty table's too.
Combined(rows, rule, columns) ==
  LET keys == IF columns = {} THEN << << >> >> ELSE Unique([i \in DOMAIN rows |-> At(rows[i], columns)])
      ValuesAt(key) == LET found == SelectSeq(rows, LAMBDA r : At(r, columns) = key)
                       IN  [i \in DOMAIN found |-> found[i].value]
  IN  [i \in DOMAIN keys |-> [at |-> keys[i], value |-> Aggregate(rule, ValuesAt(keys[i]))]]
WithoutColumn(t) ==
  LET row == RowOf(t)
  IN  IF row.remove = Null THEN NamedRows(t)
      ELSE IF row.remove.rule = "choose" THEN Chosen(NamedRows(t), row.remove)
      ELSE Combined(NamedRows(t), row.remove.rule, ToSet(KeptKey(row, RawKey(t, row.canonical))))

\* _reshape_for_all_members
RepeatedFor(rows, column, members) ==
  FlattenSeq([i \in DOMAIN rows |->
    [j \in DOMAIN members |-> [rows[i] EXCEPT !.at = column :> members[j] @@ @]]])
ColumnMembers(p, column) == MembersOf(Parameter[p].columns[column])
RowTable(t) ==
  LET row == RowOf(t)
      repeated == FoldLeft(LAMBDA rows, c : RepeatedFor(rows, c, ColumnMembers(row.canonical, c)),
                           WithoutColumn(t), SetToSeq(row.repeat))
      Converted(v) == IF row.factor = Null \/ v = Null THEN v ELSE v * row.factor
  IN  [i \in DOMAIN repeated |-> [at |-> repeated[i].at, value |-> Converted(repeated[i].value), from |-> t]]

(* ----------------------------------- plan --------------------------------- *)

AutomaticMatch(t) == {p \in FindParameter(t) : LET key == Declaration(t).key
                                               IN  IsInjective(key) /\ ToSet(key) = OsemosysColumns(p)}
AutomaticOutcome(t) ==
  IF AutomaticMatch(t) = {} THEN "unmatched" ELSE IF AutomaticMatch(t) \subseteq Grouped THEN "overridden" ELSE "automatic"
RowOutcome(t) ==
  LET p == RowOf(t).canonical IN
  IF p = Null THEN "ignored" ELSE IF HasDifferentDefaults(p) THEN "different defaults" ELSE "row"
OutcomeOf(t) == IF Matching(t) = {} THEN AutomaticOutcome(t) ELSE RowOutcome(t)
TargetOf(t) ==
  IF Matching(t) # {} THEN RowOf(t).canonical
  ELSE IF AutomaticMatch(t) = {} THEN Null ELSE CHOOSE p \in AutomaticMatch(t) : TRUE

\* A canonical row of a raw table that matches by name and key.
AutomaticTable(t) ==
  LET rows == Renamed(raw.parameters[t], LAMBDA c : CHOOSE k \in Columns(TargetOf(t)) : OsemosysColumn(TargetOf(t), k) = c)
  IN  [i \in DOMAIN rows |-> [at |-> rows[i].at, value |-> rows[i].value, from |-> t]]
GroupTable(p) == LET found == SetToSeq(Group(p)) IN FlattenSeq([i \in DOMAIN found |-> RowTable(found[i])])

Mapped(outcome) == outcome \in {"automatic", "row"}
Claims(outcomes) == {TargetOf(t) : t \in {t \in RawTables : Mapped(outcomes[t])}}
Planned(outcomes) ==
  [p \in Claims(outcomes) |->
     IF p \in Grouped THEN GroupTable(p)
     ELSE AutomaticTable(CHOOSE t \in RawTables : outcomes[t] = "automatic" /\ TargetOf(t) = p)]

\* has_absent_choice
HasAbsentChoice(t) ==
  LET remove == RowOf(t).remove IN
  /\ remove # Null /\ remove.rule = "choose"
  /\ NamedRows(t) # << >> /\ Chosen(NamedRows(t), remove) = << >>
\* A faulty variant looks for a set that is missing, not for one that is empty.
HasMissingRepeat(t) ==
  /\ raw.parameters[t] # << >>
  /\ \E c \in RowOf(t).repeat : Parameter[RowOf(t).canonical].columns[c] \notin DOMAIN sets
HasEmptyRepeat(t) ==
  /\ raw.parameters[t] # << >>
  /\ \E c \in RowOf(t).repeat : ColumnMembers(RowOf(t).canonical, c) = << >>
EmptyRowTables ==
  LET sources == UNION {Group(p) : p \in {p \in Grouped : ~HasDifferentDefaults(p)}}
  IN  {NotMapped(<<"parameter", t>>, "absent choice") : t \in {t \in sources : HasAbsentChoice(t)}}
      \cup {NotMapped(<<"parameter", t>>, "empty repeat") : t \in {t \in sources : HasEmptyRepeat(t)}}

PlanParameters ==
  /\ step = "plan"
  /\ IF \E p \in Grouped : \E t \in Group(p) : HasWrongKey(t)
     THEN Goes("plan", "refused") /\ UNCHANGED <<plan, events>>
     ELSE LET outcomes == [t \in RawTables |-> OutcomeOf(t)] IN
          /\ Goes("plan", "map")
          /\ plan' = [outcomes |-> outcomes, planned |-> Planned(outcomes)]
          /\ Reports(EmptyRowTables)
  /\ UNCHANGED <<source, mappings, raw, sets, tables, output>>

(* -------------------------------- parameters ------------------------------ *)

\* find_overlap, of the groups of two raw tables and more.
Overlaps(p) ==
  /\ Cardinality(Group(p)) > 1
  /\ \E r, s \in ToSet(plan.planned[p]) : r.from # s.from /\ r.at = s.at
FinalOutcome(t) ==
  IF plan.outcomes[t] = "row" /\ Overlaps(TargetOf(t)) THEN "overlap" ELSE plan.outcomes[t]

IsKnown(p, row) == \A c \in Columns(p) : Contains(ColumnMembers(p, c), row.at[c])
Known(p) == LET found == SelectSeq(plan.planned[p], LAMBDA r : IsKnown(p, r))
            IN  [i \in DOMAIN found |-> [at |-> found[i].at, value |-> found[i].value]]
HasAbsentMembers(p) == \E row \in ToSet(plan.planned[p]) : ~IsKnown(p, row)

ExtensionTable(t) == Renamed(raw.parameters[t], LAMBDA c : ExtensionColumn(Declaration(t).key, c))

OutcomeEvent(t, outcome) ==
  IF Mapped(outcome) THEN Event("VALUE_DERIVED", <<"parameter", t>>, TargetOf(t))
  ELSE IF outcome = "ignored" THEN Skipped(<<"parameter", t>>, outcome) ELSE NotMapped(<<"parameter", t>>, outcome)

MapParameters ==
  LET final == [t \in RawTables |-> FinalOutcome(t)]
      extensions == {t \in RawTables : ~Mapped(final[t]) /\ final[t] # "ignored"}
  IN  /\ Goes("map", "metadata")
      /\ plan' = [plan EXCEPT !.outcomes = final]
      /\ tables' = [k \in {<<"set", s>> : s \in DOMAIN sets} |-> sets[k[2]]]
                   @@ [k \in {<<"parameter", p>> : p \in Claims(final)} |-> Known(k[2])]
                   @@ [k \in {<<"extension", t>> : t \in extensions} |-> ExtensionTable(k[2])] @@ tables
      /\ Reports({OutcomeEvent(t, final[t]) : t \in RawTables}
                 \cup {Skipped(<<"canonical", p>>, "absent members") : p \in {p \in Claims(final) : HasAbsentMembers(p)}})
      /\ UNCHANGED <<source, mappings, raw, sets, output>>

(* --------------------------------- metadata ------------------------------- *)

Claimants(p) == {t \in RawTables : Mapped(plan.outcomes[t]) /\ TargetOf(t) = p}
DeclaredDefault(p) ==
  LET t == CHOOSE t \in Claimants(p) : TRUE
  IN  IF Claimants(p) = {} THEN Null ELSE IF p \in Grouped THEN DefaultOf(t) ELSE Declaration(t).default
\* _choose_default: declared, of the schema, or of another parameter.
DefaultRow(default, from) == [default |-> default, from |-> from]
CanonicalDefault(p) ==
  IF DeclaredDefault(p) # Null THEN DefaultRow(DeclaredDefault(p), Null)
  ELSE IF Parameter[p].default # Null THEN DefaultRow(Parameter[p].default, Null)
  ELSE DefaultRow(Null, Parameter[p].from)
IsInferred(p) == DeclaredDefault(p) = Null /\ CanonicalDefault(p) # DefaultRow(Null, Null)
Extensions == {t \in RawTables : <<"extension", t>> \in DOMAIN tables}

MapMetadata ==
  /\ Goes("metadata", "annotate")
  /\ tables' = <<"metadata", "defaults">> :>
                 ([k \in {<<"parameter", p>> : p \in DOMAIN Parameter} |-> CanonicalDefault(k[2])]
                  @@ [k \in {<<"extension", t>> : t \in Extensions} |-> DefaultRow(Declaration(k[2]).default, Null)])
               @@ tables
  /\ Reports({Event("TRANSLATOR_DEFAULT_APPLIED", <<"canonical", p>>, "no default declared") :
                p \in {p \in DOMAIN Parameter : IsInferred(p)}})
  /\ UNCHANGED <<source, mappings, raw, sets, plan, output>>

(* -------------------------------- annotations ----------------------------- *)

PartSet == [regions |-> "region", fuels |-> "fuel", storages |-> "storage", technologies |-> "technology"]
Regions == ToSet(MembersOf("region"))
MemberKeys(part) ==
  IF part = "regions" THEN {<<r, r>> : r \in Regions} ELSE Regions \X ToSet(MembersOf(PartSet[part]))

\* find_row_annotations: the first row that matches the member.
ObjectRow(part, key) ==
  LET rows == SelectSeq(mappings.objects[part], LAMBDA row : key[2] \in row.of)
  IN  IF rows = << >> THEN [of |-> {}, gives |-> << >>, location |-> Null] ELSE rows[1]
StatesLocation(part, key) == ObjectRow(part, key).location # Null
RowLocation(part, key) == IF StatesLocation(part, key) THEN ObjectRow(part, key).location[key] ELSE Null
Given(part, key) ==
  (IF RowLocation(part, key) = Null THEN << >> ELSE [location |-> RowLocation(part, key)])
  @@ ObjectRow(part, key).gives
IsElectricity(region, fuel) == LET given == Given("fuels", <<region, fuel>>)
                               IN  "carrier" \in DOMAIN given /\ given.carrier = "electricity"

PositiveRows(p) ==
  IF <<"parameter", p>> \in DOMAIN tables THEN SelectSeq(tables[<<"parameter", p>>], LAMBDA r : r.value # Null /\ r.value > 0)
  ELSE << >>
Flow(row, isInput) ==
  [region |-> row.at.region, technology |-> row.at.technology, fuel |-> row.at.fuel,
   mode |-> row.at.operating_mode, isInput |-> isInput]
Flows(p, isInput) == {Flow(row, isInput) : row \in ToSet(PositiveRows(p))}
FlowsOf(key, flows) == SelectSeq(flows, LAMBDA f : <<f.region, f.technology>> = key)
HasStorage(key) ==
  \E p \in {"technology_to_storage", "technology_from_storage"} :
    \E row \in ToSet(PositiveRows(p)) : <<row.at.region, row.at.technology>> = key

\* build_technology_location: by mode, inputs first, then by the text of the location.
FuelLocation(flow) == RowLocation("fuels", <<flow.region, flow.fuel>>)
\* A faulty variant leaves flows of one mode and direction in the order they come.
PlaceOfMode(flow) == <<ModeNumber[flow.mode], TextOrder[flow.mode], IF flow.isInput THEN 0 ELSE 1>>
Place(flow) ==
  <<ModeNumber[flow.mode], TextOrder[flow.mode], IF flow.isInput THEN 0 ELSE 1,
    IF FuelLocation(flow) = Null THEN 0 ELSE TextOrder[FuelLocation(flow)]>>
IsBefore(a, b) == \E i \in DOMAIN a : a[i] < b[i] /\ \A j \in 1 .. i - 1 : a[j] = b[j]
RowLocations(flows) ==
  LET found == SelectSeq(flows, LAMBDA f : FuelLocation(f) # Null)
  IN  Unique([i \in DOMAIN found |-> FuelLocation(found[i])])
TechnologyLocation(key, flows) ==
  LET locations == RowLocations(SortSeq(flows, LAMBDA f, g : IsBefore(Place(f), Place(g))))
  IN  IF locations = << >> THEN <<key[1]>> ELSE locations

\* choose_kind: the first rule that fits.
ChooseKind(key, flows) ==
  LET ins == {f \in ToSet(flows) : f.isInput}
      outs == ToSet(flows) \ ins
      Electric(fs) == {f \in fs : IsElectricity(f.region, f.fuel)}
      Locations(fs) == {FuelLocation(f) : f \in fs} \ {Null}
  IN  CASE HasStorage(key) -> "StorageTechnology"
        [] /\ Electric(ins) # {} /\ Electric(outs) # {}
           /\ Cardinality(Locations(Electric(ins \cup outs))) > 1 -> "AggregateTransportTechnology"
        [] Electric(outs) # {} /\ Electric(ins) = {} -> "SupplyTechnology"
        [] outs # Electric(outs) /\ ins = {} -> "fuel_supply"
        [] ins # {} /\ outs = {} -> "export"
        [] ins # {} /\ outs # {} /\ Cardinality(Locations(ins \cup outs)) <= 1 -> "conversion"
        [] OTHER -> Null

Inferred(part, key, flows) ==
  IF part # "technologies" THEN [location |-> <<key[1]>>]
  ELSE LET kind == ChooseKind(key, flows)
       IN  (IF kind = Null THEN << >> ELSE [kind |-> kind]) @@ [location |-> TechnologyLocation(key, flows)]
\* What no row states: a location its row cannot fill stays empty.
Unstated(part, key, inferred) ==
  LET stated == DOMAIN Given(part, key) \cup (IF StatesLocation(part, key) THEN {"location"} ELSE {})
  IN  [c \in DOMAIN inferred \ stated |-> inferred[c]]
Annotation(part, key, flows) ==
  Given(part, key) @@ Unstated(part, key, Inferred(part, key, FlowsOf(key, flows)))

AnnotationEvents(part, key, annotation) ==
  {Event("USER_CONFIG_DEFAULT_APPLIED", <<PartSet[part], key>>, "row") : x \in {x \in {1} : Given(part, key) # << >>}}
  \cup {Event("VALUE_DERIVED", <<PartSet[part], key>>, "inferred") : x \in {x \in {1} : annotation # Given(part, key)}}
  \cup {NotMapped(<<PartSet[part], key>>, "no kind") :
          x \in {x \in {1} : part = "technologies" /\ "kind" \notin DOMAIN annotation}}
  \cup {NotMapped(<<PartSet[part], key>>, "no location") :
          x \in {x \in {1} : StatesLocation(part, key) /\ RowLocation(part, key) = Null}}

\* The distinct rows of each flow parameter come in any order.
MapAnnotations ==
  \E ins \in SetToSeqs(Flows("input_activity_ratio", TRUE)), outs \in SetToSeqs(Flows("output_activity_ratio", FALSE)) :
    LET parts == DOMAIN PartSet
        table == [part \in parts |-> [key \in MemberKeys(part) |-> Annotation(part, key, ins \o outs)]]
    IN  /\ Goes("annotate", "write")
        /\ tables' = [k \in {<<"annotation", PartSet[part]>> : part \in parts} |->
                        table[CHOOSE part \in parts : PartSet[part] = k[2]]] @@ tables
        /\ Reports(UNION {UNION {AnnotationEvents(part, key, table[part][key]) : key \in MemberKeys(part)} : part \in parts})
        /\ UNCHANGED <<source, mappings, raw, sets, plan, output>>

(* ---------------------------------- sink ---------------------------------- *)

WriteTables ==
  /\ Goes("write", "written")
  /\ output' = tables
  /\ UNCHANGED <<source, mappings, raw, sets, plan, tables, events>>

Done == step \in {"written", "refused"} /\ UNCHANGED vars
Next ==
  \/ ReadOtoole \/ ReadTz \/ NormaliseRaw \/ MapSets \/ PlanParameters \/ MapParameters
  \/ MapMetadata \/ MapAnnotations \/ WriteTables \/ Done
Spec == Init /\ [][Next]_vars

(* -------------------------------- properties ------------------------------ *)

IsWritten == step = "written"
DefaultIn(document, kind, name) == document[<<"metadata", "defaults">>][<<kind, name>>]

\* What a row does to the tables it matches; a table that matches by name has no row.
NoOperations == [rename |-> << >>, named |-> << >>, remove |-> Null, repeat |-> {}, factor |-> Null]
Operations(t) == IF Matching(t) # {} THEN RowOf(t) ELSE NoOperations
Factor(t) == IF Operations(t).factor = Null THEN 1 ELSE Operations(t).factor
Answers(t, at, key) ==
  LET row == Operations(t)
      Agrees(column, member) ==
        IF ~Removes(row, column) THEN key[column] = member
        ELSE row.remove.rule = "choose" => member = row.remove.member
  IN  /\ \A c \in DOMAIN at : Agrees(NewName(row, ParameterColumn(TargetOf(t), c)), at[c])
      /\ \A g \in DOMAIN row.named : Agrees(row.named[g], row.tables[t][g])

\* The keys and values the file or the document states: its first readable row of a key.
ReadTables == IF source.format = "otoole" THEN OtooleTables(source.config, CsvFiles(source.config, source.dir))
              ELSE TzTables(source.document)
StatedValues(rows) ==
  LET KeyOf(row) == [c \in DOMAIN row.at |-> StripCell(row.at[c])]
  IN  [key \in {KeyOf(row) : row \in ToSet(rows)} |-> rows[Min({i \in DOMAIN rows : KeyOf(rows[i]) = key})].value]

IsCombined(rule, value, factor, keys, values) ==
  CASE rule = "mean" -> value * Cardinality(keys) = factor * MapThenSumSet(LAMBDA k : values[k], keys)
    [] rule = "min" -> value \in {factor * values[k] : k \in keys} /\ \A k \in keys : value <= factor * values[k]
    [] rule = "max" -> value \in {factor * values[k] : k \in keys} /\ \A k \in keys : value >= factor * values[k]
    [] OTHER -> value = factor * MapThenSumSet(LAMBDA k : values[k], keys)
KnownKeys(p) ==
  FoldSet(LAMBDA c, keys : {(c :> m) @@ key : m \in ToSet(ColumnMembers(p, c)), key \in keys}, {<< >>}, Columns(p))
\* An empty table combined into no key at all states one row, whatever its default.
IsCombinedFromNothing(t) ==
  /\ Operations(t).remove # Null /\ raw.parameters[t] = << >>
  /\ Operations(t).remove.rule # "choose" /\ KeptKey(RowOf(t), RawKey(t, TargetOf(t))) = << >>

\* The canonical document answers every key as the source does: the value of a canonical
\* parameter at known members is the one value the raw tables mapped to it state for those
\* members, first row first, under the operations of their row, and where none states one its
\* default is their default under the same factor (build_row_table, convert_default,
\* normalise_raw_tables, find_overlap).
ValuesKeepTheirMeaning ==
  IsWritten =>
    \A p \in {p \in DOMAIN Parameter : Claimants(p) # {} /\ \A t \in Claimants(p) : ~IsCombinedFromNothing(t)} :
      LET read == ReadTables.parameters
          values == [t \in Claimants(p) |-> StatedValues(read[t])]
      IN  /\ \A key \in KnownKeys(p) :
               LET found == {row \in ToSet(output[<<"parameter", p>>]) : row.at = key}
                   Asked(t) == {at \in DOMAIN values[t] : Answers(t, at, key)}
               IN  IF \A t \in Claimants(p) : Asked(t) = {} THEN found = {}
                   ELSE /\ Cardinality(found) = 1
                        /\ \A t \in {t \in Claimants(p) : Asked(t) # {}}, row \in found :
                             LET remove == Operations(t).remove
                             IN  IsCombined(IF remove = Null THEN "keep" ELSE remove.rule,
                                            row.value, Factor(t), Asked(t), values[t])
          /\ \A t \in Claimants(p) :
               Declaration(t).default # Null =>
                 DefaultIn(output, "parameter", p).default = Factor(t) * Declaration(t).default

Outcomes(t) == {e \in events : e.of = <<"parameter", t>> /\
                  e.why \notin {"repeated key", "unreadable value", "wrong header", "not csv", "absent choice", "empty repeat"}}
IsReported(of, why) == \E e \in events : e.of = of /\ e.why = why
IsChosenAway(t, at) ==
  LET row == Operations(t)
  IN  \E c \in DOMAIN at : /\ Removes(row, NewName(row, ParameterColumn(TargetOf(t), c)))
                           /\ row.remove.rule = "choose" /\ at[c] # row.remove.member
HasUnknownMember(t, at) ==
  LET row == Operations(t)
      members == [c \in {c \in DOMAIN at : ~Removes(row, NewName(row, ParameterColumn(TargetOf(t), c)))} |-> at[c]]
      Unknown(column, member) == ~Contains(ColumnMembers(TargetOf(t), column), member)
  IN  \/ \E c \in DOMAIN members : Unknown(NewName(row, ParameterColumn(TargetOf(t), c)), members[c])
      \/ \E g \in {g \in DOMAIN row.named : ~Removes(row, row.named[g])} : Unknown(row.named[g], row.tables[t][g])

\* No raw row vanishes in silence: a raw table is canonical, an extension that holds each of its
\* rows or ignored, and reported once as such; a row of a canonical table answers some canonical
\* row unless its row chooses another member, or a report says that it repeats for no member or
\* names a member no set holds (map_parameters, report_absent_members, _report_empty_row_tables).
EveryRawRowHasOneFate ==
  IsWritten =>
    \A t \in RawTables :
      LET rows == raw.parameters[t]
          isExtension == <<"extension", t>> \in DOMAIN output
          p == TargetOf(t)
      IN  /\ Cardinality(Outcomes(t)) = 1
          /\ \A e \in Outcomes(t) :
               /\ isExtension = (e.kind = "NOT_MAPPED")
               /\ isExtension => Len(output[<<"extension", t>>]) = Len(rows)
               /\ e.kind = "VALUE_DERIVED" =>
                    /\ <<"parameter", p>> \in DOMAIN output
                    /\ rows # << >> /\ (\A row \in ToSet(rows) : IsChosenAway(t, row.at)) =>
                         IsReported(<<"parameter", t>>, "absent choice")
                    /\ \A row \in ToSet(rows) :
                         \/ \E found \in ToSet(output[<<"parameter", p>>]) : Answers(t, row.at, found.at)
                         \/ IsChosenAway(t, row.at)
                         \/ IsReported(<<"parameter", t>>, "empty repeat")
                         \/ HasUnknownMember(t, row.at) /\ IsReported(<<"canonical", p>>, "absent members")

(* The values of a TZ document, looked up member by member. *)

NotStated == << >>
LookUp(value, members) ==
  FoldLeft(LAMBDA v, m : IF ~IsLevel(v) THEN v
                         ELSE IF m \in DOMAIN v.at THEN v.at[m]
                         ELSE IF Wildcard \in DOMAIN v.at THEN v.at[Wildcard] ELSE NotStated,
           Bare(value), members)
Stated(item, f) == IF f \in DOMAIN item.fields THEN item.fields[f] ELSE Null
IsMirrored(item, f) == "pairs" \in DOMAIN item /\ item.pairs = "true" /\ f \in PairFields
Says(item, f, members) ==
  LET ahead == LookUp(Stated(item, f), members)
  IN  IF Stated(item, f) = Null THEN NotStated
      ELSE IF IsMirrored(item, f) /\ ahead = NotStated
      THEN LookUp(Stated(item, f), <<members[2], members[1]>> \o SubSeq(members, 3, Len(members))) ELSE ahead
\* Each pair is named: a wildcard beside the regions it stands for has no direction of its own.
NamesItsPairs(item, f) ==
  IsMirrored(item, f) /\ Stated(item, f) # Null =>
    LET top == Bare(Stated(item, f))
    IN  IsLevel(top) => Wildcard \notin DOMAIN top.at
                        /\ \A v \in Range(top.at) : IsLevel(v) /\ Wildcard \notin DOMAIN v.at

\* The items of an owner in their order, under the members of their key.
KeyedItems(owner) ==
  LET doc == source.document
      listed == Usable(ItemsOf(doc, IF owner = "operating_modes" THEN "technologies" ELSE owner))
      Under(prefix, items) == [i \in DOMAIN items |-> [key |-> prefix \o <<items[i].key>>, item |-> items[i]]]
  IN  CASE owner = "model" -> <<[key |-> << >>, item |-> doc]>>
        [] owner = "time_definition" -> <<[key |-> << >>, item |-> doc.time]>>
        [] owner = "operating_modes" -> FlattenSeq([i \in DOMAIN listed |-> Under(<<listed[i].key>>, Usable(listed[i].modes))])
        [] OTHER -> Under(<< >>, listed)
Places(levels) ==
  FoldLeft(LAMBDA places, level : {Append(place, m) : m \in ToSet(Members(raw.sets, level)), place \in places}, {<< >>}, levels)

\* The raw tables of a TZ document hold, for each member of each set, the value the document
\* states there: the named member before the wildcard, a value above the last level for every
\* member below, a pair of regions in both directions unless each is stated, the first item of a
\* key; and an annual demand is a specified one exactly where a profile has its key
\* (list_tz_entries, build_region_pairs, _build_rows_by_table, _reshape_annual_demand).
StatedValuesAreLookedUp ==
  source.format = "tz" /\ step = "sets" =>
    \A k \in DOMAIN TzField :
      LET field == TzField[k]
          items == KeyedItems(k[1])
          Rows(table, place, key) ==
            {row \in ToSet(raw.parameters[table]) :
               /\ \A i \in DOMAIN OwnerColumns[k[1]] : row.at[OwnerColumns[k[1]][i]] = key[i]
               /\ \A i \in DOMAIN place : row.at[field.nesting[i]] = place[i]}
      IN  \A place \in Places(field.nesting), key \in {items[i].key : i \in DOMAIN items} :
            LET own == SelectSeq(items, LAMBDA e : e.key = key /\ Says(e.item, k[2], place) # NotStated)
                said == IF own = << >> THEN Null ELSE Number(Says(own[1].item, k[2], place))
                isDemand == field.table = Demand.specified
                hasProfile == Rows(Demand.profile, place, key) # {}
                found == Rows(IF isDemand /\ ~hasProfile THEN Demand.accumulated ELSE field.table, place, key)
            IN  (\A i \in DOMAIN items : items[i].key = key => NamesItsPairs(items[i].item, k[2])) =>
                  /\ IF said = Null THEN found = {}
                     ELSE \E row \in found : /\ found = {row}
                                             /\ IF field.valueSet = Null THEN row.value = said
                                                ELSE row.at[field.valueSet] = said /\ row.value = 1
                  /\ isDemand => Rows(IF hasProfile THEN Demand.accumulated ELSE Demand.specified, place, key) = {}

\* The annotations are the same in whatever order the rows of a flow come: the locations of a
\* technology are those of the fuels it takes and gives, each once, by the first mode that has it,
\* inputs before outputs, then by name; a location a row states and cannot fill is left empty and
\* reported, never inferred (build_technology_location, _build_row_locations, find_row_annotations).
AnnotationsIgnoreRowOrder ==
  IsWritten =>
    \A key \in MemberKeys("technologies") :
      LET annotation == output[<<"annotation", "technology">>][key]
          flows == Flows("input_activity_ratio", TRUE) \cup Flows("output_activity_ratio", FALSE)
          located == {f \in flows : <<f.region, f.technology>> = key /\ FuelLocation(f) # Null}
          EarliestOf(place) ==
            CHOOSE at \in {<<ModeNumber[f.mode], TextOrder[f.mode], IF f.isInput THEN 0 ELSE 1>> :
                             f \in {f \in located : FuelLocation(f) = place}} :
              \A f \in located : FuelLocation(f) = place =>
                ~IsBefore(<<ModeNumber[f.mode], TextOrder[f.mode], IF f.isInput THEN 0 ELSE 1>>, at)
          Rank(place) == Append(EarliestOf(place), TextOrder[place])
      IN  IF StatesLocation("technologies", key)
          THEN IF RowLocation("technologies", key) # Null THEN annotation.location = RowLocation("technologies", key)
               ELSE "location" \notin DOMAIN annotation /\ IsReported(<<"technology", key>>, "no location")
          ELSE IF located = {} THEN annotation.location = <<key[1]>>
          ELSE /\ ToSet(annotation.location) = {FuelLocation(f) : f \in located}
               /\ \A i, j \in DOMAIN annotation.location :
                    i < j => IsBefore(Rank(annotation.location[i]), Rank(annotation.location[j]))
===============================================================================
