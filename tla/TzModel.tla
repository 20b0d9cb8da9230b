-------------------------------- MODULE TzModel --------------------------------
(***************************************************************************)
(* What stage_tz_osemosys_json reads a model.json into.                    *)
(*                                                                         *)
(* A document is [fields, time, items]: time is [fields, sets], the        *)
(* members listed for each set of the time definition, Null for one that   *)
(* is neither text nor a number; items are the listed objects of each      *)
(* owner.  An object is [usable, name, key, fields, pairs, modes]: whether *)
(* it can be read, the path reports call it by, the member it adds to its  *)
(* rows, the value of each field, construct_region_pairs of a trade, and   *)
(* the operating modes of a technology.  A value is one number, a level that   *)
(* maps members to values, or either in its composed wrapper; Null states  *)
(* nothing.  Numbers written as members or words are read already.         *)
(***************************************************************************)
EXTENDS OsemosysTables

CONSTANTS
  TzField,        \* [<<owner, field>> -> [table, nesting, default, valueSet]]
  OwnerColumns,   \* [owner -> the key columns an object adds to its rows]
  OwnerSet,       \* [owner -> the set its objects are the members of]; none for a trade
  PairFields,     \* the trade fields construct_region_pairs copies
  Demand          \* [profile, specified, accumulated], tables

Wildcard == "*"
Value(v) == [is |-> v]
Level(at) == [at |-> at]
Composed(value) == [data |-> value]

IsLevel(value) == "at" \in DOMAIN value
Bare(value) == IF "data" \in DOMAIN value THEN value.data ELSE value
Tables == {TzField[f].table : f \in DOMAIN TzField}
FieldOf(table) == CHOOSE f \in Range(TzField) : f.table = table
Members(sets, column) == sets[IF column = SecondRegion THEN SetName["region"] ELSE column]

(* -------------------------------- objects -------------------------------- *)

Usable(items) == SelectSeq(items, LAMBDA i : i.usable)
Child(technology, mode) == [mode EXCEPT !.name = <<technology.key>> \o @]

\* A faulty variant copies a direction over the one that is stated.
OverwrittenPairs(value) ==
  LET top == value.at
      OwnPairs(region) == IF region \in DOMAIN top /\ IsLevel(top[region]) THEN DOMAIN top[region].at ELSE {}
      ToRegion(region) == {r \in DOMAIN top : region \in OwnPairs(r)}
      named == DOMAIN top \cup UNION {OwnPairs(r) : r \in DOMAIN top}
  IN  Level([r \in named |->
         IF r \in DOMAIN top /\ ~IsLevel(top[r]) THEN top[r]
         ELSE Level([other \in OwnPairs(r) \cup ToRegion(r) |->
                       IF other \in ToRegion(r) THEN top[other].at[r] ELSE top[r].at[other]])])

\* Each pair of regions one direction states goes to the other, unless that one is stated too.
MirroredPairs(value) ==
  LET top == value.at
      OwnPairs(region) == IF region \in DOMAIN top /\ IsLevel(top[region]) THEN DOMAIN top[region].at ELSE {}
      ToRegion(region) == {r \in DOMAIN top : region \in OwnPairs(r)}
      Both(region) ==
        Level([other \in OwnPairs(region) \cup ToRegion(region) |->
                 IF other \in OwnPairs(region) THEN top[region].at[other] ELSE top[other].at[region]])
      named == DOMAIN top \cup UNION {OwnPairs(r) : r \in DOMAIN top}
  IN  Level([r \in named |-> IF r \in DOMAIN top /\ ~IsLevel(top[r]) THEN top[r] ELSE Both(r)])
RegionPairs(value) == LET bare == Bare(value) IN IF IsLevel(bare) THEN MirroredPairs(bare) ELSE bare

FieldValues(item) ==
  [f \in DOMAIN item.fields |->
     IF item.pairs = "true" /\ f \in PairFields /\ item.fields[f] # Null
     THEN RegionPairs(item.fields[f]) ELSE item.fields[f]]

Object(owner, name, keys, fields) == [owner |-> owner, name |-> name, keys |-> keys, fields |-> fields]
ObjectsOf(owner, prefix, items) ==
  LET parts == Usable(items)
  IN  [i \in DOMAIN parts |-> Object(owner, parts[i].name, prefix \o <<parts[i].key>>, FieldValues(parts[i]))]

NamedOwners == <<"technologies", "trade", "regions", "regionsgroup", "commodities", "impacts", "storage">>
ItemsOf(doc, owner) == IF owner \in DOMAIN doc.items THEN doc.items[owner] ELSE << >>
ModesOf(technology) ==
  [i \in DOMAIN technology.modes |-> Child(technology, technology.modes[i])]

\* build_tz_objects, in the order their rows compete in.
Objects(doc) ==
  LET technologies == Usable(ItemsOf(doc, "technologies"))
      listed == [i \in DOMAIN NamedOwners |-> ObjectsOf(NamedOwners[i], << >>, ItemsOf(doc, NamedOwners[i]))]
      modes == [i \in DOMAIN technologies |->
                  ObjectsOf("operating_modes", <<technologies[i].key>>, ModesOf(technologies[i]))]
  IN  <<Object("model", << >>, << >>, doc.fields), Object("time_definition", << >>, << >>, doc.time.fields)>>
      \o FlattenSeq(listed) \o FlattenSeq(modes)

ItemEvents(owner, items) ==
  {Skipped(<<owner>> \o i.name, "cannot be used") : i \in {i \in ToSet(items) : ~i.usable}}
  \cup {NotMapped(<<owner>> \o i.name, "pairs not read") :
          i \in {i \in ToSet(Usable(items)) : i.pairs \notin {"true", "false", Null}}}
SkippedMembers(doc) ==
  {Skipped(<<"time_definition", s>>, "not a member") : s \in {s \in DOMAIN doc.time.sets : Contains(doc.time.sets[s], Null)}}
ObjectEvents(doc) ==
  (UNION {ItemEvents(owner, ItemsOf(doc, owner)) : owner \in ToSet(NamedOwners)})
  \cup (UNION {ItemEvents("operating_modes", ModesOf(t)) : t \in ToSet(Usable(ItemsOf(doc, "technologies")))})
  \cup SkippedMembers(doc)

\* build_tz_sets
TzSets(doc, objects) ==
  LET Keys(owner) ==
        LET own == SelectSeq(objects, LAMBDA o : o.owner = owner) IN [i \in DOMAIN own |-> Last(own[i].keys)]
      owners == DOMAIN OwnerSet
  IN  [s \in DOMAIN doc.time.sets |-> Unique(SelectSeq(doc.time.sets[s], LAMBDA m : m # Null))]
      @@ [s \in Range(OwnerSet) |-> Unique(Keys(CHOOSE o \in owners : OwnerSet[o] = s))]

(* --------------------------------- values -------------------------------- *)

Path(object, f) == <<object.owner>> \o object.name \o <<f>>
StatesAValue(object, f) == f \in DOMAIN object.fields /\ object.fields[f] # Null
UnknownFields(objects) ==
  {NotMapped(Path(o, f), "unknown field") :
     <<o, f>> \in UNION {{<<o, f>> : f \in {f \in DOMAIN o.fields :
                            o.fields[f] # Null /\ <<o.owner, f>> \notin DOMAIN TzField}} : o \in ToSet(objects)}}

\* list_tz_entries: <<members, value>> of a value over its levels, a named member before the wildcard.
RECURSIVE Entries(_, _, _)
Entries(value, levels, sets) ==
  IF levels = << >> THEN <<[members |-> << >>, value |-> value]>>
  ELSE LET known == Members(sets, Head(levels))
           Under(member, child) ==
             LET below == Entries(child, Tail(levels), sets)
             IN  [i \in DOMAIN below |-> [below[i] EXCEPT !.members = <<member>> \o @]]
           named == SetToSeq(DOMAIN value.at \ {Wildcard})
           others == SelectSeq(known, LAMBDA m : m \notin DOMAIN value.at)
       IN  IF ~IsLevel(value) THEN FlattenSeq([i \in DOMAIN known |-> Under(known[i], value)])
           ELSE FlattenSeq([i \in DOMAIN named |-> Under(named[i], value.at[named[i]])])
                \o (IF Wildcard \in DOMAIN value.at
                    THEN FlattenSeq([i \in DOMAIN others |-> Under(others[i], value.at[Wildcard])]) ELSE << >>)

RECURSIVE HasEmptyExpansion(_, _, _)
HasEmptyExpansion(value, levels, sets) ==
  /\ levels # << >>
  /\ IF ~IsLevel(value) THEN \E level \in ToSet(levels) : Members(sets, level) = << >>
     ELSE \/ Wildcard \in DOMAIN value.at /\ Members(sets, Head(levels)) = << >>
          \/ \E child \in Range(value.at) : HasEmptyExpansion(child, Tail(levels), sets)

Number(value) == IF "is" \in DOMAIN value THEN value.is ELSE Null

\* _build_field_rows: a field whose value names a member moves it into the key and states 1.
FieldRows(object, f, sets) ==
  LET field == TzField[<<object.owner, f>>]
      entries == Entries(Bare(object.fields[f]), field.nesting, sets)
      columns == OwnerColumns[object.owner] \o field.nesting
      At(e) == [c \in ToSet(columns) |-> (object.keys \o e.members)[CHOOSE i \in DOMAIN columns : columns[i] = c]]
  IN  [i \in DOMAIN entries |->
         IF field.valueSet = Null THEN [at |-> At(entries[i]), value |-> Number(entries[i].value)]
         ELSE [at |-> field.valueSet :> Number(entries[i].value) @@ At(entries[i]), value |-> 1]]

Stating(objects, table) ==
  LET FieldsOf(o) == {k[2] : k \in {k \in DOMAIN TzField : k[1] = o.owner /\ TzField[k].table = table}}
      With(o) == SetToSeq({<<o, f>> : f \in {f \in FieldsOf(o) : StatesAValue(o, f)}})
  IN  FlattenSeq([i \in DOMAIN objects |-> With(objects[i])])

\* _build_rows_by_table: the field read first keeps the key.
TableRows(stated, sets) ==
  FirstRows(FlattenSeq([i \in DOMAIN stated |-> FieldRows(stated[i][1], stated[i][2], sets)]))
RepeatedFields(stated, sets) ==
  {Skipped(Path(stated[i][1], stated[i][2]), "repeated key") :
     i \in {i \in DOMAIN stated : \E j \in 1 .. i - 1 :
              {r.at : r \in ToSet(FieldRows(stated[i][1], stated[i][2], sets))}
              \cap {r.at : r \in ToSet(FieldRows(stated[j][1], stated[j][2], sets))} # {}}}
EmptyFields(stated, sets) ==
  {NotMapped(Path(s[1], s[2]), "empty set") :
     s \in {s \in ToSet(stated) : HasEmptyExpansion(Bare(s[1].fields[s[2]]), TzField[<<s[1].owner, s[2]>>].nesting, sets)}}

\* _reshape_annual_demand: a demand without a profile for its key is an accumulated one.
WithoutProfile(rows, profile, hasOne) ==
  LET Key(row) == row.at
      profiled(row) == \E p \in ToSet(profile) : \A c \in DOMAIN Key(row) : p.at[c] = row.at[c]
  IN  SelectSeq(rows, LAMBDA row : profiled(row) = hasOne)
SplitDemand(parameters) ==
  (Demand.specified :> WithoutProfile(parameters[Demand.specified], parameters[Demand.profile], TRUE)
   @@ Demand.accumulated :> WithoutProfile(parameters[Demand.specified], parameters[Demand.profile], FALSE))
  @@ parameters

Declared(table) ==
  LET field == FieldOf(table)
      owner == (CHOOSE k \in DOMAIN TzField : TzField[k] = field)[1]
  IN  [key |-> OwnerColumns[owner] \o field.nesting \o (IF field.valueSet = Null THEN << >> ELSE <<field.valueSet>>),
       default |-> field.default]

TzTables(doc) ==
  LET objects == Objects(doc)
      sets == TzSets(doc, objects)
      rows == [t \in Tables |-> TableRows(Stating(objects, t), sets)]
  IN  [sets |-> sets,
       parameters |-> SplitDemand([t \in Tables |-> Readable(rows[t])]),
       declarations |-> Demand.accumulated :> Declared(Demand.specified) @@ [t \in Tables |-> Declared(t)]]
TzEvents(doc) ==
  LET objects == Objects(doc)
      sets == TzSets(doc, objects)
      stated == [t \in Tables |-> Stating(objects, t)]
  IN  ObjectEvents(doc) \cup UnknownFields(objects)
      \cup (UNION {EmptyFields(stated[t], sets) \cup RepeatedFields(stated[t], sets) : t \in Tables})
      \cup UnreadableValues([t \in Tables |-> TableRows(stated[t], sets)])
===============================================================================
