------------------------- MODULE MCOsemosysCanonical ---------------------------
(***************************************************************************)
(* Small models for OsemosysCanonical.  The files of an otoole directory   *)
(* vary in whether and how they can be read; two tables of one parameter   *)
(* vary over the operations of their rows, what they hold and what they    *)
(* declare; the flows of one technology vary over modes, fuels and         *)
(* locations; and the fields of a TZ document vary over the ways of        *)
(* stating a value, beside items that repeat a key or cannot be used.      *)
(***************************************************************************)
EXTENDS OsemosysCanonical

MCStrip == " r1" :> "r1" @@ "t1 " :> "t1" @@ " s1" :> "s1" @@ " y1 " :> "y1"
Spaced == [r1 |-> " r1", t1 |-> "t1 ", s1 |-> " s1", y1 |-> " y1 "]
MCSetName == [region |-> "REGION", technology |-> "TECHNOLOGY", fuel |-> "FUEL", year |-> "YEAR",
              storage |-> "STORAGE", operating_mode |-> "MODE_OF_OPERATION", timeslice |-> "TIMESLICE"]

SameName(columns) == [c \in columns |-> c]
Canonical(name, columns, default, from) == [name |-> name, columns |-> columns, default |-> default, from |-> from]
Ratio(name) == Canonical(name, SameName({"region", "technology", "fuel", "operating_mode", "year"}), 0, Null)
Demands(name) == Canonical(name, SameName({"region", "fuel", "year"}), 0, Null)
MCParameter ==
  [discount_rate |-> Canonical("DiscountRate", SameName({"region"}), 5, Null),
   discount_rate_idv |-> Canonical("DiscountRateIdv", SameName({"region", "technology"}), Null, "discount_rate"),
   lifetime |-> Canonical("OperationalLife", SameName({"region", "technology"}), 1, Null),
   line_loss |-> Canonical("TradeLossBetweenRegions",
                           [start_region |-> "region", end_region |-> "region", fuel |-> "fuel", year |-> "year"], 0, Null),
   specified_annual_demand |-> Demands("SpecifiedAnnualDemand"),
   accumulated_annual_demand |-> Demands("AccumulatedAnnualDemand"),
   input_activity_ratio |-> Ratio("InputActivityRatio"), output_activity_ratio |-> Ratio("OutputActivityRatio"),
   technology_to_storage |-> Canonical("TechnologyToStorage",
                               SameName({"region", "technology", "storage", "operating_mode"}), 0, Null)]
MCModeNumber == "2" :> 2 @@ "10" :> 10 @@ "x" :> -1
MCTextOrder == "10" :> 1 @@ "2" :> 2 @@ "x" :> 3 @@ "east" :> 4 @@ "north" :> 5

Statement(at, value) == [at |-> at, value |-> value]
NoObjects == [regions |-> << >>, fuels |-> << >>, storages |-> << >>, technologies |-> << >>]
Mappings(setNames, parameters, objects) == [sets |-> setNames, parameters |-> parameters, objects |-> objects]
NoMappings == Mappings(<< >>, << >>, NoObjects)

(* ---------------------------------- files --------------------------------- *)

Config(setNames, parameters) == [sets |-> setNames, parameters |-> parameters]
Declares(key, default, short) == [key |-> key, default |-> default, short |-> short]
Otoole(config, dir) == [format |-> "otoole", config |-> config, dir |-> dir]
SetFile(members) == CsvFile({"VALUE"}, members)
TableFile(key, rows) == CsvFile(ToSet(key) \cup {"VALUE"}, rows)

LifeKey == <<"TECHNOLOGY", "REGION">>
Life(r, t, v) == Statement("REGION" :> r @@ "TECHNOLOGY" :> t, v)
FileConfig == Config({"REGION", "TECHNOLOGY"}, "OperationalLife" :> Declares(LifeKey, 3, "OpLife"))
SetFiles(members) == {SetFile(members), Empty, Unreadable, CsvFile({"NAME"}, members)}
LifeFiles ==
  {Empty, Unreadable, CsvFile({"REGION", "VALUE"}, << >>)}
  \cup {TableFile(LifeKey, rows) :
          rows \in {<< >>, <<Life("r1", "t1", 2)>>, <<Life(" r1", "t1", 2), Life("r1", "t1 ", 4), Life("r2", "t1", 4)>>,
                    <<Life("r1", "t1", Null), Life("r1", "t1", 4)>>, <<Life("r1", "zz", 2), Life("r2", "t1", 3)>>}}
DirOf(regions, technologies, stem, life) == "REGION" :> regions @@ "TECHNOLOGY" :> technologies @@ stem :> life
FileInputs ==
  {<<Otoole(FileConfig, DirOf(r, t, stem, life)), NoMappings>> :
     r \in SetFiles(<<"r1", " r1", "r2">>), t \in SetFiles(<<"t1">>), stem \in {"OperationalLife", "OpLife"}, life \in LifeFiles}
  \cup {<<Otoole(FileConfig, dir), NoMappings>> :
          dir \in {"README" :> Empty, "REGION" :> SetFile(<<"r1">>),
                   DirOf(SetFile(<<"r1">>), SetFile(<<"t1">>), "OpLife", TableFile(LifeKey, <<Life("r1", "t1", 2)>>))
                   @@ "OperationalLife" :> TableFile(LifeKey, <<Life("r1", "t1", 4)>>)}}
  \cup {<<Otoole(Config({}, << >>), << >>), NoMappings>>}

(* --------------------------------- mappings ------------------------------- *)

MemberNames == [REGION |-> <<"r1", "r2">>, TECHNOLOGY |-> <<"t1", "t2">>, TECH |-> <<"t1", "t2">>, STORAGE |-> <<"s1", "s2">>,
                YEAR |-> <<"y1">>]
\* Two rows differ in the last column of the key; a repeated one has spaces there.
RowsOf(key, shape) ==
  LET First == [c \in ToSet(key) |-> MemberNames[c][1]]
      Other(m) == Statement(Last(key) :> m @@ First, 4)
      one == Statement(First, 2)
  IN  CASE shape = "none" -> << >>
        [] shape = "one" -> <<one>>
        [] shape = "two" -> <<one, Other(MemberNames[Last(key)][2])>>
        [] shape = "repeated" -> <<Other(Spaced[MemberNames[Last(key)][1]]), one>>
        [] shape = "absent" -> <<one, Other("zz")>>

Captures(country, technology) == [country |-> technology]
RowFor(canonical, key, groups) ==
  [key |-> key, tables |-> ("ATLife" :> Captures("country", groups[1]) @@ "BELife" :> Captures("country", groups[2])),
   canonical |-> canonical, rename |-> << >>, named |-> << >>, remove |-> Null, repeat |-> {}, factor |-> Null]
RemoveBy(column, rule, member) == [column |-> column, rule |-> rule, member |-> member]
ByStorage == RowFor("lifetime", <<"REGION", "TECHNOLOGY", "STORAGE">>, <<"t1", "t2">>)
Rules == {RemoveBy("storage", rule, Null) : rule \in {"sum", "mean", "min", "max"}}
         \cup {RemoveBy("storage", "choose", m) : m \in {"s1", "s9"}}
Named == [RowFor("lifetime", <<"REGION">>, <<"t1", "t2">>) EXCEPT !.named = [country |-> "technology"]]
RowKinds ==
  {[ByStorage EXCEPT !.remove = r] : r \in Rules}
  \cup {Named, [Named EXCEPT !.tables = [t \in DOMAIN @ |-> Captures("country", "t1")]],
        [Named EXCEPT !.named = [country |-> "storage"], !.remove = RemoveBy("storage", "sum", Null)],
        [RowFor("lifetime", <<"REGION", "TECH">>, <<"t1", "t2">>) EXCEPT !.rename = [TECH |-> "technology"]],
        [RowFor("lifetime", <<"REGION", "TECH">>, <<"t1", "t2">>) EXCEPT !.rename = [TYPE |-> "technology"]],
        [RowFor("lifetime", <<"TECHNOLOGY">>, <<"t1", "t2">>) EXCEPT !.repeat = {"region"}],
        [RowFor("lifetime", <<"REGION">>, <<"t1", "t2">>) EXCEPT !.repeat = {"technology"}],
        [RowFor("lifetime", <<"STORAGE">>, <<"t1", "t2">>) EXCEPT !.remove = RemoveBy("storage", "sum", Null),
                                                                !.repeat = {"region", "technology"}],
        [RowFor("lifetime", <<"STORAGE">>, <<"t1", "t2">>) EXCEPT !.remove = RemoveBy("storage", "mean", Null),
                                                                !.repeat = {"region", "technology"}],
        RowFor("lifetime", <<"REGION", "TECHNOLOGY">>, <<"t1", "t2">>), RowFor(Null, <<"REGION">>, <<"t1", "t2">>)}
RowMapping(row, factor) == [[c \in DOMAIN row \ {"key"} |-> row[c]] EXCEPT !.factor = factor]

MapDir(key, a, b, technologies) ==
  "REGION" :> SetFile(<<"r1", "r2">>) @@ "TECHNOLOGY" :> SetFile(technologies) @@ "STORAGE" :> SetFile(<<"s1", "s2">>)
  @@ "ATLife" :> TableFile(key, RowsOf(key, a)) @@ "BELife" :> TableFile(key, RowsOf(key, b))
  @@ "OperationalLife" :> TableFile(LifeKey, <<Life("r2", "t2", 6)>>) @@ "AREA" :> SetFile(<<"r2", "r3">>)
MapConfig(key, da, db) ==
  Config({"REGION", "TECHNOLOGY", "STORAGE", "AREA"},
         "ATLife" :> Declares(key, da, "A") @@ "BELife" :> Declares(key, db, "B")
         @@ "OperationalLife" :> Declares(LifeKey, 3, "O"))
Maps(row, factor, areas) == Mappings(areas, <<RowMapping(row, factor)>>, NoObjects)
MapInputs ==
  {<<Otoole(MapConfig(row.key, 2, 2), MapDir(row.key, a, b, ts)), Maps(row, factor, << >>)>> :
     row \in RowKinds, a \in {"none", "one", "two", "repeated", "absent"}, b \in {"none", "two"},
     ts \in {<<"t1", "t2">>, << >>}, factor \in {Null, 2}}
  \cup {<<Otoole(MapConfig(row.key, Null, db), MapDir(row.key, "one", b, <<"t1", "t2">>)), Maps(row, 2, [AREA |-> "region"])>> :
          row \in RowKinds, b \in {"none", "two"}, db \in {Null, 2}}
  \cup {<<Otoole([MapConfig(row.key, 2, 2) EXCEPT !.parameters = [t \in DOMAIN @ \ {"BELife"} |-> @[t]]],
                 MapDir(row.key, a, "none", <<"t1", "t2">>)), Maps(row, 2, << >>)>> :
          row \in RowKinds, a \in {"none", "two"}}

(* ---------------------------------- flows --------------------------------- *)

FlowKey == <<"REGION", "TECHNOLOGY", "FUEL", "MODE_OF_OPERATION", "YEAR">>
StorageKey == <<"REGION", "TECHNOLOGY", "STORAGE", "MODE_OF_OPERATION">>
FlowRow(fuel, mode, value) ==
  Statement("REGION" :> "r1" @@ "TECHNOLOGY" :> "t1" @@ "FUEL" :> fuel @@ "MODE_OF_OPERATION" :> mode @@ "YEAR" :> "y1", value)
FlowConfig ==
  Config(Range(MCSetName) \ {"TIMESLICE"},
         "InputActivityRatio" :> Declares(FlowKey, 0, "IAR") @@ "OutputActivityRatio" :> Declares(FlowKey, 0, "OAR")
         @@ "TechnologyToStorage" :> Declares(StorageKey, 0, "TTS"))
RatioRows(flows, isInput) ==
  LET own == SetToSeq({f \in flows : f[1] = isInput}) IN [i \in DOMAIN own |-> FlowRow(own[i][2], own[i][3], 1)]
FlowDir(flows, charging) ==
  "REGION" :> SetFile(<<"r1">>) @@ "TECHNOLOGY" :> SetFile(<<"t1">>) @@ "FUEL" :> SetFile(<<"f1", "f2">>)
  @@ "YEAR" :> SetFile(<<"y1">>) @@ "STORAGE" :> SetFile(<<"s1">>) @@ "MODE_OF_OPERATION" :> SetFile(<<"2", "10", "x">>)
  @@ "InputActivityRatio" :> TableFile(FlowKey, RatioRows(flows, TRUE))
  @@ "OutputActivityRatio" :> TableFile(FlowKey, RatioRows(flows, FALSE))
  @@ "TechnologyToStorage" :>
       TableFile(StorageKey, <<Statement("REGION" :> "r1" @@ "TECHNOLOGY" :> "t1" @@ "STORAGE" :> "s1"
                                         @@ "MODE_OF_OPERATION" :> "2", charging)>>)
OneObject(of, gives, location) == [of |-> of, gives |-> gives, location |-> location]
InR1(first, second) == <<"r1", "f1">> :> first @@ <<"r1", "f2">> :> second
FuelRows ==
  {<< >>, <<OneObject({"f1"}, [carrier |-> "electricity"], InR1("north", Null))>>,
   <<OneObject({"f2"}, [carrier |-> "gas"], Null), OneObject({"f1", "f2"}, << >>, InR1("north", "north"))>>,
   <<OneObject({"f1", "f2"}, [carrier |-> "electricity"], InR1("north", "east"))>>}
TechnologyRows ==
  {<< >>, <<OneObject({"t1"}, << >>, <<"r1", "t1">> :> Null)>>,
   <<OneObject({"t1"}, [kind |-> "conversion"], <<"r1", "t1">> :> "east"), OneObject({"t1"}, [kind |-> "export"], Null)>>}
AFlow == BOOLEAN \X {"f1", "f2"} \X {"2", "10", "x"}
FlowSets == {s \in SUBSET AFlow : Cardinality(s) \in 0 .. 2 /\ Cardinality({f \in s : f[3] = "x"}) <= 1}
            \cup {s \in SUBSET {f \in AFlow : f[3] # "x"} : Cardinality(s) = 3 /\ Cardinality({f[1] : f \in s}) = 1}
FlowInputs ==
  {<<Otoole(FlowConfig, FlowDir(flows, 0)), Mappings(<< >>, << >>, [NoObjects EXCEPT !.fuels = fs])>> :
     flows \in FlowSets, fs \in FuelRows}
  \cup {<<Otoole(FlowConfig, FlowDir(flows, charging)), Mappings(<< >>, << >>, [NoObjects EXCEPT !.fuels = fs, !.technologies = ts])>> :
          flows \in {s \in FlowSets : Cardinality(s) = 1 /\ \A f \in s : f[2] = "f1"}, charging \in {0, 1}, fs \in FuelRows, ts \in TechnologyRows}

(* ----------------------------------- TZ ----------------------------------- *)

Field(table, nesting, default, valueSet) == [table |-> table, nesting |-> nesting, default |-> default, valueSet |-> valueSet]
MCTzField ==
  <<"model", "discount_rate">> :> Field("DiscountRate", <<"REGION">>, 5, Null)
  @@ <<"model", "cost_of_capital">> :> Field("DiscountRateIdv", <<"REGION", "TECHNOLOGY">>, Null, Null)
  @@ <<"time_definition", "timeslice_in_season">> :> Field("Conversionls", <<"TIMESLICE">>, Null, "SEASON")
  @@ <<"technologies", "operating_life">> :> Field("OperationalLife", <<"REGION">>, 1, Null)
  @@ <<"operating_modes", "input_activity_ratio">> :> Field("InputActivityRatio", <<"REGION", "FUEL", "YEAR">>, Null, Null)
  @@ <<"commodities", "demand_annual">> :> Field("SpecifiedAnnualDemand", <<"REGION", "YEAR">>, Null, Null)
  @@ <<"commodities", "demand_profile">> :> Field("SpecifiedDemandProfile", <<"REGION", "YEAR", "TIMESLICE">>, Null, Null)
  @@ <<"trade", "trade_loss">> :> Field("TradeLossBetweenRegions", <<"REGION", "_REGION", "YEAR">>, 0, Null)
  @@ <<"trade", "activity_annual_max">> :> Field("TotalTradeAnnualActivityUpperLimit", <<"REGION", "_REGION", "YEAR">>, Null, Null)
MCOwnerColumns ==
  [model |-> << >>, time_definition |-> << >>, regions |-> <<"REGION">>, commodities |-> <<"FUEL">>,
   technologies |-> <<"TECHNOLOGY">>, operating_modes |-> <<"TECHNOLOGY", "MODE_OF_OPERATION">>,
   storage |-> <<"STORAGE">>, trade |-> <<"FUEL">>]
MCOwnerSet == [regions |-> "REGION", commodities |-> "FUEL", technologies |-> "TECHNOLOGY",
               operating_modes |-> "MODE_OF_OPERATION", storage |-> "STORAGE"]
MCPairFields == {"trade_loss"}
MCDemand == [profile |-> "SpecifiedDemandProfile", specified |-> "SpecifiedAnnualDemand", accumulated |-> "AccumulatedAnnualDemand"]

Item(key, fields) == [usable |-> TRUE, name |-> <<key>>, key |-> key, fields |-> fields, pairs |-> Null, modes |-> << >>]
Unusable(name) == [Item(name, << >>) EXCEPT !.usable = FALSE]
Trade(fuel, pairs, fields) == [Item(fuel, fields) EXCEPT !.pairs = pairs]
Time(slices) == [fields |-> "timeslice_in_season" :> Level("d1" :> Value("winter") @@ "*" :> Value("summer")),
                 sets |-> "YEAR" :> <<"y1", Null, "y1">> @@ "TIMESLICE" :> slices @@ "SEASON" :> <<"winter", "summer">>]
Document(fields, slices, technologies, commodities, trades) ==
  [format |-> "tz",
   document |-> [fields |-> fields, time |-> Time(slices),
                 items |-> [regions |-> <<Item("r1", << >>), Item("r2", << >>), Unusable("item 3")>>,
                            technologies |-> technologies, commodities |-> commodities, trade |-> trades]]]

\* One level and two levels of a value: whole, by name, by wildcard, both, of a stranger, and no number.
Whole == {Value(2), Value(Null)}
OneLevel(m, n) ==
  Whole \cup {Level(m :> Value(2)), Level("*" :> Value(3) @@ m :> Value(4)), Level("zz" :> Value(2)), Level(m :> Value(2) @@ n :> Value(3)),
              Composed(Value(6))}
TwoLevels(m, n) ==
  Whole \cup {Level("r1" :> v) : v \in OneLevel(m, n)} \cup {Level("*" :> v @@ "r1" :> w) : v \in OneLevel(m, n) \ {Composed(Value(6))}, w \in {Value(2), Level(m :> Value(8))}}
OneMode(value) == <<[Item("m1", "input_activity_ratio" :> value) EXCEPT !.modes = << >>]>>
PlainTechnology == <<Item("t1", << >>)>>
PlainFuels == <<Item("f1", << >>)>>
Years(v) == Level("y1" :> v)
PairValues ==
  {Value(2), Level("r1" :> Level("r2" :> Years(Value(2)))), Level("r1" :> Level("r2" :> Value(2)) @@ "r2" :> Level("r1" :> Years(Value(3)))),
   Composed(Level("r2" :> Level("r1" :> Value(2) @@ "r2" :> Value(4)))), Level("r1" :> Level("*" :> Value(5))),
   Level("r1" :> Level("*" :> Value(5)) @@ "r2" :> Level("r2" :> Value(7))),
   Level("*" :> Level("r1" :> Value(2))), Level("r1" :> Value(2) @@ "r2" :> Level("r1" :> Value(3)))}
TzInputs ==
  LET Run(doc) == <<doc, NoMappings>>
      Rates(a, b, technologies) ==
        Run(Document("discount_rate" :> a @@ "cost_of_capital" :> b @@ "unknown" :> Value(2), <<"d1">>, technologies, PlainFuels, << >>))
      Profiles == {Null, Level("r2" :> Value(1))}
                    \cup {Level("r1" :> Level("y1" :> v)) : v \in {Value(1), Level("d1" :> Value(1))}}
      Profiled(a, b, slices) ==
        Run(Document(<< >>, slices, PlainTechnology,
                     <<Item("f1", "demand_annual" :> a @@ "demand_profile" :> b), Item("f2", "demand_annual" :> Value(4))>>, << >>))
      Trades(p, v, w) ==
        Run(Document(<< >>, <<"d1">>, PlainTechnology, PlainFuels,
                     <<Trade("f1", p, "trade_loss" :> v @@ "activity_annual_max" :> v), Trade("f1", "false", "trade_loss" :> w)>>))
  IN  {Rates(a, b, <<Item("t1", << >>), Item("t2", << >>)>>) : a \in OneLevel("r1", "r2"), b \in TwoLevels("t1", "t2")}
      \cup {Rates(Value(2), b, << >>) : b \in TwoLevels("t1", "t2")}
      \cup {Run(Document(<< >>, <<"d1", "d2">>,
                         <<Item("t1", "operating_life" :> a), Unusable("item 2"), Item("t1", "operating_life" :> b)>>, PlainFuels, << >>)) :
              a \in OneLevel("r1", "r2") \cup {Null}, b \in {Null, Value(2), Level("r1" :> Value(2))}}
      \cup {Run(Document(<< >>, <<"d1", "d2">>, <<[Item("t1", << >>) EXCEPT !.modes = OneMode(v) \o <<Unusable("item 2")>>]>>,
                         PlainFuels, << >>)) : v \in TwoLevels("f1", "f2")}
      \cup {Profiled(a, b, <<"d1", "d2">>) : a \in TwoLevels("y1", "y9"), b \in Profiles}
      \cup {Profiled(Value(2), b, << >>) : b \in Profiles}
      \cup {Trades("true", v, w) : v \in PairValues, w \in {Value(2), Level("*" :> Level("r1" :> Value(2)))}}
      \cup {Trades(p, v, Value(2)) : p \in {"unread", Null}, v \in PairValues}

MCInputs == FileInputs \cup MapInputs \cup FlowInputs \cup TzInputs
===============================================================================
