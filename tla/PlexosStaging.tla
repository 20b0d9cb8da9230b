----------------------------- MODULE PlexosStaging -----------------------------
(***************************************************************************)
(* The source that stages a PLEXOS export: the chronology of the model     *)
(* asked for, the property rows that win under its scenarios, what each    *)
(* property reads as in the window translated, and the series read from    *)
(* Data Files or made of the dated values.                                 *)
(*                                                                         *)
(* An export is a record of the t_ tables the source reads, resolved no    *)
(* further than the file resolves them: a row of t_data carries its tags,  *)
(* dates, band and text, and names its membership and property by id; a    *)
(* collection is one parent's.                                             *)
(* Time is a whole number of steps, DayLength of them a day and YearLength *)
(* a year.  No object has two series under one class and property, and a   *)
(* file that can be read holds a dated row of some object that reads it.   *)
(***************************************************************************)
EXTENDS Integers, FiniteSets, FiniteSetsExt, TLC

CONSTANTS
  Exports,             \* the exports a run may be given
  Requests,            \* the parameters: [model, year, scope], model whether one is named
  DayLength,           \* steps a day
  YearLength,          \* steps a year
  TimeMin, TimeMax,    \* the first and the last moment a date can name
  CanonicalUnit,       \* (collection, property) -> unit -> what it is worth in the canonical one
  None

VARIABLES
  step,         \* the part of the staging that runs next
  export,       \* the export, as it is on disk
  request,      \* the parameters of the run
  chronology,   \* [index, window, profile_year]
  memberships,  \* the memberships whose ids resolve
  dropped,      \* the rows recorded as dropped, with the column that dangles
  files,        \* [data_files, variables]: object -> the path it names
  next,         \* the row of t_data read next
  winners,      \* what t_data rows compete for -> [priority, data]
  resolved,     \* the winning rows resolved to names, with their dates
  properties,   \* what each property reads as when the window opens
  stepped,      \* the values of the properties that change inside it
  dated,        \* every row of a property that is dated anywhere
  objects,      \* class -> the objects of it
  unread,       \* the Data Files still to be read
  parts,        \* (class, property) -> rows read from Data Files
  warned,       \* the Data Files a warning leaves out, and of what
  series        \* source_time_series

vars == <<step, export, request, chronology, memberships, dropped, files, next, winners, resolved,
          properties, stepped, dated, objects, unread, parts, warned, series>>

Goto(part, then) == step = part /\ step' = then

-----------------------------------------------------------------------------
(* What an export is                                                       *)

ASSUME TimeAssumption ==
  /\ {DayLength, YearLength} \subseteq Nat \ {0} /\ {TimeMin, TimeMax} \subseteq Int
  /\ None \notin Int

ASSUME UnitAssumption ==
  \A stated \in DOMAIN CanonicalUnit :
    \A unit \in DOMAIN CanonicalUnit[stated] : CanonicalUnit[stated][unit] \in Int

IsNumber(v) == v \in Int \cup {None}

ASSUME RequestAssumption == \A r \in Requests : r.model \in BOOLEAN /\ IsNumber(r.year)

\* A date is after the first moment there is; the last day of an entry is a whole one.
IsDated(data) == data.from # None \/ data.to # None
HasDates(data) ==
  /\ data.from # None => data.from \in Int /\ TimeMin < data.from
  /\ data.to # None => data.to \in Int /\ data.to % DayLength = 0

\* An id is one membership's, and an object is a member of a collection once.
MembershipsAreApart(e) ==
  \A m, n \in e.memberships :
    \/ m.id = n.id
    \/ <<m.class, m.object, m.collection>> = <<n.class, n.object, n.collection>>
    => m = n

StatesHorizon(e) ==
  \A name \in {"from", "count", "per_day"} :
    /\ name \in DOMAIN e.defaults /\ IsNumber(e.defaults[name])
    /\ e.horizon # None /\ name \in DOMAIN e.horizon => IsNumber(e.horizon[name])

\* Where one entry of a property has dates, each of them states a number.
DatedEntriesStateNumbers(e) ==
  \A i, j \in DOMAIN e.data :
    LET a == e.data[i]
        b == e.data[j]
    IN  IsDated(a) /\ <<a.membership, a.property, a.band>> = <<b.membership, b.property, b.band>>
          => b.value # None

\* Entries that may have a series: those that are dated, and those tagged to a file.
MayHaveASeries(data) == IsDated(data) \/ data.data_file # None \/ data.variable # None

\* Two of one object, under one class and property, are of one property.
HasOneSeries(e) ==
  \A i, j \in DOMAIN e.data : \A m, n \in e.memberships :
    LET a == e.data[i]
        b == e.data[j]
    IN  /\ MayHaveASeries(a) /\ MayHaveASeries(b) /\ a.membership = m.id /\ b.membership = n.id
        /\ <<m.class, m.object, a.property>> = <<n.class, n.object, b.property>>
        => m = n /\ a.band = b.band

\* A file states numbers, one at each moment, for each object it names and each replication.
IsTrace(file) ==
  /\ IsFiniteSet(file.rows)
  /\ \A r \in file.rows : IsNumber(r.at) /\ r.value \in Int
  /\ \A r, q \in file.rows :
       /\ r.at # None /\ <<r.at, r.sample>> = <<q.at, q.sample>>
       /\ file.layout = "shared" \/ r.name = q.name
       => r = q

\* What a text names is a file there may be, and what names it has a name.
NamesFiles(e) ==
  /\ \A o \in e.objects : o.name # None
  /\ \A i \in DOMAIN e.data : e.data[i].text # None => e.data[i].text \in DOMAIN e.files
  /\ \A path \in DOMAIN e.files : e.files[path].present => IsTrace(e.files[path])

IsExport(e) ==
  /\ IsFiniteSet(DOMAIN e.data) /\ DOMAIN e.data = 1 .. Cardinality(DOMAIN e.data)
  /\ \A i \in DOMAIN e.data : IsNumber(e.data[i].value) /\ HasDates(e.data[i])
  /\ IsFiniteSet(e.active) /\ \A s \in DOMAIN e.read_orders : e.read_orders[s] \in Int
  /\ MembershipsAreApart(e) /\ StatesHorizon(e)
  /\ DatedEntriesStateNumbers(e) /\ HasOneSeries(e) /\ NamesFiles(e)

ASSUME ExportAssumption == \A e \in Exports : IsExport(e)

-----------------------------------------------------------------------------
(* The chronology                                                          *)

Attribute(name) ==
  IF name \in DOMAIN export.horizon THEN export.horizon[name] ELSE export.defaults[name]

Day == "day"

\* The Horizon of the model asked for; None where it states none that can be read.
Horizon ==
  LET from  == Attribute("from")
      count == Attribute("count")
      per_day == Attribute("per_day")
  IN  IF ~request.model \/ export.horizon = None THEN None
      ELSE IF Attribute("step_type") \notin {None, Day} \/ None \in {from, count, per_day} THEN None
      ELSE IF per_day <= 0 THEN None
      ELSE [start |-> from, periods |-> count * per_day, interval |-> DayLength \div per_day]

HorizonEnd(horizon) == horizon.start + horizon.interval * horizon.periods

WindowTranslated(horizon) ==
  IF request.year # None
    THEN [start |-> YearLength * request.year, end |-> YearLength * (request.year + 1)]
  ELSE IF horizon = None THEN [start |-> TimeMin, end |-> TimeMax]
  ELSE [start |-> horizon.start, end |-> HorizonEnd(horizon)]

IsWithin(t, window) == window.start <= t /\ t < window.end

\* The snapshots of the Horizon that fall inside the window.
SnapshotIndex(horizon, window) ==
  IF horizon = None THEN None
  ELSE {t \in {horizon.start + horizon.interval * k : k \in 0 .. horizon.periods - 1} : IsWithin(t, window)}

ProfileYear(horizon) ==
  IF request.year # None THEN request.year
  ELSE IF horizon = None THEN None ELSE horizon.start \div YearLength

SettleChronology ==
  /\ Goto("chronology", "memberships")
  /\ chronology' = LET window == WindowTranslated(Horizon)
                   IN  [index |-> SnapshotIndex(Horizon, window), window |-> window,
                        profile_year |-> ProfileYear(Horizon)]
  /\ UNCHANGED <<export, request, memberships, dropped, files, next, winners, resolved, properties,
                 stepped, dated, objects, unread, parts, warned, series>>

-----------------------------------------------------------------------------
(* Scenario overlays                                                       *)

Active == IF request.model THEN export.active ELSE {}
ActiveTags(data) == data.scenarios \cap Active
ReadOrder(scenario) == IF scenario \in DOMAIN export.read_orders THEN export.read_orders[scenario] ELSE 0

\* The row is no candidate: every Scenario it is tagged to is one the model does not read.
IsInactive(data) == data.scenarios # {} /\ ActiveTags(data) = {}

BasePriority == <<0, 0>>

\* A faulty variant ranks by Read Order alone.
PriorityByReadOrder(data) ==
  IF data.scenarios = {} THEN BasePriority ELSE <<0, Max({ReadOrder(s) : s \in ActiveTags(data)})>>

PriorityOf(data) ==
  IF data.scenarios = {} THEN BasePriority ELSE <<1, Max({ReadOrder(s) : s \in ActiveTags(data)})>>

AtLeast(p, q) == p[1] > q[1] \/ (p[1] = q[1] /\ p[2] >= q[2])

\* What a row competes for; rows that apply from different dates do not compete.
WinnerKey(data) == [membership |-> data.membership, property |-> data.property, band |-> data.band,
                    from |-> data.from]

-----------------------------------------------------------------------------
(* Resolving the tables                                                    *)

Dangles(table, row, column) == [table |-> table, row |-> row, column |-> column]
DanglingColumns(table, row, columns) == {Dangles(table, row, c) : c \in columns}

\* Of a membership only the first id that dangles is recorded.
ResolveMemberships ==
  /\ Goto("memberships", "files")
  /\ memberships' = {m \in export.memberships : m.dangling = None}
  /\ dropped' = {Dangles("t_membership", m.id, m.dangling) : m \in export.memberships \ memberships'}
  /\ UNCHANGED <<export, request, chronology, files, next, winners, resolved, properties, stepped,
                 dated, objects, unread, parts, warned, series>>

\* The child object of a membership, resolved or not.
ChildOf(id) == (CHOOSE m \in export.memberships : m.id = id).object
HasMembership(id) == \E m \in export.memberships : m.id = id
ObjectsOf(class) == {o.name : o \in {p \in export.objects : p.class = class}}

\* The last active row of the text property of each object of a class.
TextRows(class, property) ==
  LET of(o) == {i \in DOMAIN export.data :
                  /\ export.data[i].property = property /\ property \in export.properties
                  /\ HasMembership(export.data[i].membership)
                  /\ ChildOf(export.data[i].membership) = o
                  /\ ~IsInactive(export.data[i])}
  IN  [o \in {p \in ObjectsOf(class) : of(p) # {}} |-> Max(of(o))]

\* The path each Data File names, and the one each Variable's Profile does: in a text of
\* its own, or through a Data File it is tagged to.
DataFilePaths ==
  LET row == TextRows("Data File", "Filename")
  IN  [o \in {p \in DOMAIN row : export.data[row[p]].text # None} |-> export.data[row[o]].text]

VariablePath(data) ==
  IF data.text # None THEN data.text
  ELSE IF data.data_file \in DOMAIN DataFilePaths THEN DataFilePaths[data.data_file] ELSE None

VariablePaths ==
  LET row == TextRows("Variable", "Profile")
  IN  [o \in {p \in DOMAIN row : VariablePath(export.data[row[p]]) # None} |-> VariablePath(export.data[row[o]])]

NameFiles ==
  /\ Goto("files", "rows")
  /\ files' = [data_files |-> DataFilePaths, variables |-> VariablePaths]
  /\ dropped' = dropped \cup
       LET row == TextRows("Data File", "Filename")
       IN  {Dangles("t_data", row[o], "data_id") : o \in DOMAIN row \ DOMAIN DataFilePaths}
  /\ UNCHANGED <<export, request, chronology, memberships, next, winners, resolved, properties,
                 stepped, dated, objects, unread, parts, warned, series>>

\* One row of t_data after another: the strongest stands, the later of two as strong.
ReadRow ==
  /\ step = "rows" /\ next \in DOMAIN export.data
  /\ next' = next + 1
  /\ LET data == export.data[next]
         key  == WinnerKey(data)
     IN  IF IsInactive(data) \/ (key \in DOMAIN winners /\ ~AtLeast(PriorityOf(data), winners[key].priority))
           THEN UNCHANGED winners
           ELSE winners' = [k \in DOMAIN winners \cup {key} |->
                  IF k = key THEN [priority |-> PriorityOf(data), data |-> next] ELSE winners[k]]
  /\ UNCHANGED <<step, export, request, chronology, memberships, dropped, files, resolved,
                 properties, stepped, dated, objects, unread, parts, warned, series>>

-----------------------------------------------------------------------------
(* The value of a property row, and the file it reads                      *)

Unit(data) == export.units[data.property]

\* In the unit the mappings read, where both that and the stated one are known.
Convert(data, membership) ==
  LET stated == <<membership.collection, data.property>>
  IN  IF data.value = None \/ stated \notin DOMAIN CanonicalUnit THEN data.value
      ELSE IF Unit(data) \notin DOMAIN CanonicalUnit[stated] THEN data.value
      ELSE data.value * CanonicalUnit[stated][Unit(data)]

\* A Data File the row is tagged to, else the profile of a Variable it is.
ProfileOf(data) ==
  IF data.data_file \in DOMAIN files.data_files
    THEN [path |-> files.data_files[data.data_file], is_share |-> FALSE]
  ELSE IF data.variable \in DOMAIN files.variables
    THEN [path |-> files.variables[data.variable], is_share |-> TRUE]
  ELSE [path |-> None, is_share |-> FALSE]

Percent == "%"

\* A faulty variant takes a zero share for a multiplier.
ScalingByAnyShare(profile, value, unit) ==
  IF ~profile.is_share \/ value = None THEN 1
  ELSE IF unit = Percent THEN value \div 100 ELSE value

Scaling(profile, value, unit) ==
  IF ~profile.is_share \/ value \in {None, 0} THEN 1
  ELSE IF unit = Percent THEN value \div 100 ELSE value

PropertyRow(data) ==
  LET membership == CHOOSE m \in memberships : m.id = data.membership
      value      == Convert(data, membership)
  IN  [class |-> membership.class, object |-> membership.object, collection |-> membership.collection,
       property |-> data.property, band |-> data.band, value |-> value, unit |-> Unit(data),
       data_file |-> ProfileOf(data).path,
       scaling |-> Scaling(ProfileOf(data), value, Unit(data))]

\* What a row names that nothing defines.
DanglingReferences(data) ==
  (IF \E m \in memberships : m.id = data.membership THEN {} ELSE {"membership_id"})
    \cup (IF data.property \in export.properties THEN {} ELSE {"property_id"})

Won == {winners[k].data : k \in DOMAIN winners}

ResolveProperties ==
  /\ Goto("rows", "window") /\ next \notin DOMAIN export.data
  /\ resolved' = {[row |-> PropertyRow(export.data[i]),
                   dates |-> [from |-> export.data[i].from, to |-> export.data[i].to]] :
                    i \in {j \in Won : DanglingReferences(export.data[j]) = {}}}
  /\ dropped' = dropped \cup
       UNION {DanglingColumns("t_data", i, DanglingReferences(export.data[i])) : i \in Won}
  /\ UNCHANGED <<export, request, chronology, memberships, files, next, winners, properties,
                 stepped, dated, objects, unread, parts, warned, series>>

-----------------------------------------------------------------------------
(* Dated properties                                                        *)

Undated == [from |-> None, to |-> None]

\* A date_to names a whole day, so the band runs to the end of it.
Ends(dates) == IF dates.to = None THEN None ELSE dates.to + DayLength
OpensAt(dates) == IF dates.from = None THEN TimeMin ELSE dates.from

Covers(dates, t) ==
  /\ dates.from # None => dates.from <= t
  /\ Ends(dates) # None => t < Ends(dates)

NameProperty(row) == <<row.class, row.object, row.collection, row.property>>
IdentifyProperty(row) == <<NameProperty(row), row.band>>

Latest(entries) == CHOOSE d \in entries : \A e \in entries : OpensAt(e.dates) <= OpensAt(d.dates)
Earliest(entries) == CHOOSE d \in entries : \A e \in entries : OpensAt(d.dates) <= OpensAt(e.dates)

\* A property stated for a period only reads as zero outside it.
ReadValueAt(entries, t) ==
  LET covering == {d \in entries : Covers(d.dates, t)}
  IN  IF covering = {} THEN 0 ELSE Latest(covering).row.value

BandEdges(entries) == (UNION {{d.dates.from, Ends(d.dates)} : d \in entries}) \ {None}

\* A faulty variant looks at the moments bands open alone.
MomentsBandsOpen(entries, window) ==
  {window.start} \cup {t \in {d.dates.from : d \in entries} \ {None} : window.start < t /\ t < window.end}

\* When the window opens, and every edge inside it.
ChangeMoments(entries, window) ==
  {window.start} \cup {t \in BandEdges(entries) : window.start < t /\ t < window.end}

\* Each step is the property's first row with the value of the moment.
StepAt(entries, t) == [at |-> t, row |-> [Earliest(entries).row EXCEPT !.value = ReadValueAt(entries, t)]]
StepsWithin(entries, window) == {StepAt(entries, t) : t \in ChangeMoments(entries, window)}

PropertyGroups == {{d \in resolved : IdentifyProperty(d.row) = IdentifyProperty(e.row)} : e \in resolved}

ApplyWindow ==
  /\ Goto("window", "objects")
  /\ LET window == chronology.window
     IN  /\ properties' = {StepAt(g, window.start).row : g \in PropertyGroups}
         /\ stepped' = UNION {StepsWithin(g, window) :
                                g \in {h \in PropertyGroups : Cardinality(ChangeMoments(h, window)) > 1}}
  /\ dated' = {d \in resolved : \E e \in resolved :
                 NameProperty(e.row) = NameProperty(d.row) /\ e.dates # Undated}
  /\ UNCHANGED <<export, request, chronology, memberships, dropped, files, next, winners, resolved,
                 objects, unread, parts, warned, series>>

\* The objects by class, the rows of no class recorded; then the files the properties read.
StageTopology ==
  /\ Goto("objects", "files read")
  /\ LET found == {o \in export.objects : o.class # None}
     IN  /\ objects' = [c \in {o.class : o \in found} |-> {o.name : o \in {p \in found : p.class = c}}]
         /\ dropped' = dropped \cup {Dangles("t_object", o.id, "class_id") : o \in export.objects \ found}
  /\ unread' = {p.data_file : p \in properties} \ {None}
  /\ UNCHANGED <<export, request, chronology, memberships, files, next, winners, resolved, properties,
                 stepped, dated, parts, warned, series>>

-----------------------------------------------------------------------------
(* Data Files                                                              *)

\* A row keyed by month and day alone is dated into the year the run settles on.
Stamp(file, at) == IF file.yearless THEN YearLength * chronology.profile_year + at ELSE at

IsSupported(file) == file.layout # "unsupported" /\ (file.yearless => chronology.profile_year # None)

Replications(file) == {r.sample : r \in file.rows} \ {None}

\* One network reads the lowest replication of a sampled trace.
RowsInScope(file) ==
  IF request.scope = "all" \/ Replications(file) = {} THEN file.rows
  ELSE {r \in file.rows : r.sample = Min(Replications(file))}

DatedRows(file) == {r \in RowsInScope(file) : r.at # None}

\* A trace nobody is named in goes to every owner; any other to the owners it names.
Attach(file, owners) ==
  UNION {{[at |-> Stamp(file, r.at), component |-> o.object, sample |-> r.sample, value |-> r.value * o.scaling] :
            r \in {t \in DatedRows(file) : file.layout = "shared" \/ t.name = o.object}} : o \in owners}

\* A table with a column for each object is read where some column is an owner's.
HasSeries(file, owners) ==
  file.layout = "columns" => {o.object : o \in owners} \cap {r.name : r \in file.rows} # {}

SeriesKey(row) == <<row.class, row.property>>
OwnersOf(path, key) == {p \in properties : p.data_file = path /\ SeriesKey(p) = key}
KeysReading(path) == {SeriesKey(p) : p \in {q \in properties : q.data_file = path}}

\* Every file once, for all that read it.
ReadDataFile(path) ==
  /\ step = "files read" /\ path \in unread
  /\ unread' = unread \ {path}
  /\ IF ~export.files[path].present \/ ~IsSupported(export.files[path])
       THEN warned' = warned \cup {<<path, k>> : k \in KeysReading(path)} /\ UNCHANGED parts
       ELSE LET file  == export.files[path]
                found == {k \in KeysReading(path) : HasSeries(file, OwnersOf(path, k))}
            IN  /\ warned' = warned \cup {<<path, k>> : k \in KeysReading(path) \ found}
                /\ parts' = [k \in DOMAIN parts \cup found |->
                     (IF k \in DOMAIN parts THEN parts[k] ELSE {})
                       \cup (IF k \in found THEN Attach(file, OwnersOf(path, k)) ELSE {})]
  /\ UNCHANGED <<step, export, request, chronology, memberships, dropped, files, next, winners,
                 resolved, properties, stepped, dated, objects, series>>

-----------------------------------------------------------------------------
(* Reconciling a series to the Horizon                                     *)

ByReplication(rows) == {<<r.component, r.sample>> : r \in rows}
Of(rows, pair) == {r \in rows : <<r.component, r.sample>> = pair}
LastOf(rows) == CHOOSE r \in rows : \A q \in rows : q.at <= r.at

\* The rows inside the window, and for each pair the last one before it.
NarrowToWindow(rows, index) ==
  LET before(pair) == {r \in Of(rows, pair) : r.at < Min(index)}
  IN  {r \in rows : Min(index) <= r.at /\ r.at <= Max(index)}
        \cup {LastOf(before(p)) : p \in {q \in ByReplication(rows) : before(q) # {}}}

ValueAsOf(rows, t) ==
  LET before == {r \in rows : r.at <= t}
  IN  IF before = {} THEN None ELSE LastOf(before).value

\* The last value forward, and the first one back over the snapshots before it.
Filled(rows, index, t) ==
  LET known == {u \in index : ValueAsOf(rows, u) # None}
      held  == {u \in known : u <= t}
  IN  IF held # {} THEN ValueAsOf(rows, Max(held))
      ELSE IF known # {} THEN ValueAsOf(rows, Min(known)) ELSE None

Reconcile(rows, index) ==
  IF index = {} THEN {}
  ELSE LET near == NarrowToWindow(rows, index)
       IN  UNION {{[at |-> t, component |-> p[1], sample |-> p[2], value |-> Filled(Of(near, p), index, t)] :
                     t \in index} : p \in ByReplication(near)}

SinkSeries(rows) == IF chronology.index = None THEN rows ELSE Reconcile(rows, chronology.index)

StageTimeSeries ==
  /\ Goto("files read", "steps") /\ unread = {}
  /\ series' = [k \in DOMAIN parts |-> SinkSeries(parts[k])]
  /\ UNCHANGED <<export, request, chronology, memberships, dropped, files, next, winners, resolved,
                 properties, stepped, dated, objects, unread, parts, warned>>

\* The steps of the properties no Data File states, where no file was read for their class
\* and property.
StageStepped ==
  /\ Goto("steps", "staged")
  /\ LET read == {s \in stepped : s.row.data_file = None /\ SeriesKey(s.row) \notin DOMAIN series}
         rows(k) == {[at |-> s.at, component |-> s.row.object, sample |-> None, value |-> s.row.value] :
                       s \in {r \in read : SeriesKey(r.row) = k}}
     IN  series' = [k \in DOMAIN series \cup {SeriesKey(s.row) : s \in read} |->
                      IF k \in DOMAIN series THEN series[k] ELSE SinkSeries(rows(k))]
  /\ UNCHANGED <<export, request, chronology, memberships, dropped, files, next, winners, resolved,
                 properties, stepped, dated, objects, unread, parts, warned>>

Staged == step = "staged" /\ UNCHANGED vars

Init ==
  /\ export \in Exports /\ request \in Requests
  /\ step = "chronology" /\ next = 1
  /\ chronology = None /\ files = None
  /\ memberships = {} /\ dropped = {} /\ resolved = {} /\ properties = {} /\ stepped = {} /\ dated = {}
  /\ unread = {} /\ warned = {}
  /\ winners = [k \in {} |-> None] /\ objects = [c \in {} |-> {}]
  /\ parts = [k \in {} |-> {}] /\ series = [k \in {} |-> {}]

Next ==
  \/ SettleChronology \/ ResolveMemberships \/ NameFiles
  \/ ReadRow \/ ResolveProperties \/ ApplyWindow \/ StageTopology
  \/ \E path \in unread : ReadDataFile(path)
  \/ StageTimeSeries \/ StageStepped
  \/ Staged

Spec == Init /\ [][Next]_vars

-----------------------------------------------------------------------------
(* Properties                                                              *)
(*                                                                         *)
(* They state what translation-from-plexos-to-pypsa.md promises of t_data: *)
(* which entry displaces which, which one is in force at a moment, and     *)
(* what a share is a share of.  Where the code does something else they    *)
(* say nothing and name the case: IsContested and ReadsAsTheFirst.         *)

\* "Two entries are the same entry if they have the same object, the same property, the same
\* band and the same time scope."
StartsWith(i, j) ==
  LET a == export.data[i]
      b == export.data[j]
  IN  <<a.membership, a.property, a.band, a.from>> = <<b.membership, b.property, b.band, b.from>>
SameEntry(i, j) == StartsWith(i, j) /\ export.data[i].to = export.data[j].to

\* An override outranks any base value, and an override of a lower Read Order.
Outranks(a, b) ==
  \/ a.scenarios # {} /\ b.scenarios = {}
  \/ /\ b.scenarios # {}
     /\ \E s \in ActiveTags(a) : \A t \in ActiveTags(b) : ReadOrder(s) > ReadOrder(t)

\* Of two that neither outranks, the row read last.
Displaces(i, j) ==
  LET a == export.data[i]
      b == export.data[j]
  IN  ~IsInactive(a) /\ (Outranks(a, b) \/ (i > j /\ ~Outranks(b, a)))

Stands(i) ==
  /\ ~IsInactive(export.data[i])
  /\ \A j \in DOMAIN export.data : SameEntry(i, j) => ~Displaces(j, i)

\* The cases in which a row is displaced by one that is not the same entry
\* (stage_plexos_xml.py:165, whose key has no date_to), or by its place among overrides of one
\* Read Order (:563), where the document has Scenarios read in alphabetical order.
IsTied(a, b) ==
  a.scenarios # {} /\ b.scenarios # {} /\ a.scenarios # b.scenarios
    /\ ~Outranks(a, b) /\ ~Outranks(b, a)
IsContested(i) ==
  \E j \in DOMAIN export.data :
    /\ StartsWith(i, j) /\ ~IsInactive(export.data[j])
    /\ ~SameEntry(i, j) \/ IsTied(export.data[i], export.data[j])

MembershipOf(i) == CHOOSE m \in export.memberships : m.id = export.data[i].membership

\* The row of the property that data row i states.
States(row, i) ==
  LET data == export.data[i]
  IN  HasMembership(data.membership) /\ <<row.class, row.object, row.collection>> =
        <<MembershipOf(i).class, MembershipOf(i).object, MembershipOf(i).collection>>
        /\ row.property = data.property /\ row.band = data.band

IsStagedAs(i, d) ==
  LET data == export.data[i]
  IN  /\ States(d.row, i)
      /\ d.dates = [from |-> data.from, to |-> data.to]
      /\ d.row.value = Convert(data, MembershipOf(i))

IsResolved(i) == \E d \in resolved : IsStagedAs(i, d)
IsDropped(i)  == \E d \in dropped : d.table = "t_data" /\ d.row = i /\ d.column # "data_id"

\* A row of t_data whose Scenarios are read and that none of the same entry displaces is
\* staged or recorded as dropped, one of the two, and any other is neither: of a contested
\* row nothing is said.  Whatever is staged is a row that stands, each one once.
EveryRowHasOneFate ==
  step = "staged" =>
    /\ \A i \in DOMAIN export.data : ~IsContested(i) =>
         IF Stands(i) THEN IsResolved(i) # IsDropped(i) ELSE ~IsDropped(i)
    /\ \A d \in resolved : \E i \in DOMAIN export.data : Stands(i) /\ ~IsDropped(i) /\ IsStagedAs(i, d)
    /\ Cardinality(resolved) <= Cardinality({i \in DOMAIN export.data : Stands(i) /\ ~IsDropped(i)})

\* What the property of a row reads as at a moment: the step before it, if it has steps.
Reading(p, t) ==
  LET steps == {s \in stepped : IdentifyProperty(s.row) = IdentifyProperty(p)}
  IN  IF steps = {} THEN p.value ELSE LastOf({s \in steps : s.at <= t}).row.value

AppliesAt(data, t) ==
  /\ data.from # None => t >= data.from
  /\ data.to # None => t \div DayLength <= data.to \div DayLength

RowsOf(p) == {i \in DOMAIN export.data : States(p, i) /\ Stands(i)}
CoveringRows(p, t) == {i \in RowsOf(p) : AppliesAt(export.data[i], t)}

\* "An entry with a time scope wins", the one that opened last of several; "the base value
\* fills the gaps".
InForce(p, t) ==
  LET covering == CoveringRows(p, t)
      scoped   == {i \in covering : IsDated(export.data[i])}
  IN  IF scoped = {} THEN CHOOSE i \in covering : TRUE
      ELSE CHOOSE i \in scoped : \A j \in scoped : OpensAt(export.data[j]) <= OpensAt(export.data[i])

\* "A default fills the remainder": zero, of every property.
Stated(p, t) ==
  IF CoveringRows(p, t) = {} THEN 0
  ELSE Convert(export.data[InForce(p, t)], MembershipOf(InForce(p, t)))

HasContest(p) == \E i \in DOMAIN export.data : ~IsInactive(export.data[i]) /\ States(p, i) /\ IsContested(i)

ReadingsHold ==
  \A p \in properties : ~HasContest(p) =>
    \A t \in chronology.window.start .. chronology.window.end - 1 : Reading(p, t) = Stated(p, t)

HasSteps(p) == \E s \in stepped : IdentifyProperty(s.row) = IdentifyProperty(p)
RowsFor(p) == {r \in series[SeriesKey(p)] : r.component = p.object}

\* The file an entry is tagged to, by itself or through a Variable.
FileOf(i) == ProfileOf(export.data[i]).path
StatesAValue(p, t) == CoveringRows(p, t) # {} => FileOf(InForce(p, t)) = None

SnapshotsHold ==
  chronology.index # None =>
    \A p \in properties :
      HasSteps(p) /\ p.data_file = None /\ SeriesKey(p) \notin DOMAIN parts /\ ~HasContest(p) =>
        LET index == {t \in chronology.index : StatesAValue(p, t)}
        IN  {<<r.at, r.value>> : r \in {q \in RowsFor(p) : q.at \in index}}
              = {<<t, Stated(p, t)>> : t \in index}

\* At every moment of the window, not the moments looked at alone, a property reads as the
\* entry in force then: one with a time scope before the base value, and zero where neither
\* applies.  One that changes inside the window, of a class no object of which reads a Data
\* File for it, has a series with one value for each snapshot, that entry's, wherever that
\* entry is no reference to a file.  Properties two rows contend for are left out.
EntriesInForceAreRead == step = "staged" => ReadingsHold /\ SnapshotsHold

\* The rows of a file that are the object's, as the export holds them.
Trace(p, path, sample) ==
  LET file == export.files[path]
  IN  {[at |-> Stamp(file, r.at), value |-> r.value] :
         r \in {q \in DatedRows(file) : q.sample = sample /\ (file.layout = "shared" \/ q.name = p.object)}}

\* Which of them a snapshot takes: the last before it, or where there is none the one the
\* first snapshot with one takes.
TraceAt(trace, index, t) ==
  LET reached == {u \in index : \E r \in trace : r.at <= u}
      moment  == IF t \in reached THEN t ELSE Min(reached)
  IN  LastOf({r \in trace : r.at <= moment}).value

Reads(p) == p.data_file # None /\ export.files[p.data_file].present /\ IsSupported(export.files[p.data_file])
Samples(p) == {r.sample : r \in RowsInScope(export.files[p.data_file])}

\* What an entry multiplies its file by: one where it is no share, and where it is a share of
\* nothing, which is a placeholder.
ShareOf(i) ==
  LET value == Convert(export.data[i], MembershipOf(i))
  IN  IF export.data[i].data_file \in DOMAIN files.data_files \/ value \in {0, None} THEN 1
      ELSE IF Unit(export.data[i]) = Percent THEN value \div 100 ELSE value

\* The file and the share of a whole series are taken from the row that opens first
\* (plexos_dated_properties.py:124), so a later entry with another of either is not read.
FirstRow(p) ==
  CHOOSE i \in RowsOf(p) : \A j \in RowsOf(p) : OpensAt(export.data[i]) <= OpensAt(export.data[j])
ReadsAsTheFirst(p, t) ==
  /\ CoveringRows(p, t) # {}
  /\ FileOf(InForce(p, t)) = FileOf(FirstRow(p)) /\ ShareOf(InForce(p, t)) = ShareOf(FirstRow(p))

\* The series of a property is, at each of the snapshots, the share its entry in force has of
\* the file of that entry, from the first date of the trace on or before the last snapshot.
HoldsShares(p, sample) ==
  LET index == {t \in chronology.index : ReadsAsTheFirst(p, t)}
      Own(t) == Trace(p, FileOf(InForce(p, t)), sample)
      Starts(t) == \E r \in Own(t) : r.at <= Max(chronology.index)
  IN  {<<r.at, r.value>> : r \in {q \in RowsFor(p) : q.sample = sample /\ q.at \in index}}
        = {<<t, ShareOf(InForce(p, t)) * TraceAt(Own(t), chronology.index, t)>> : t \in {u \in index : Starts(u)}}

\* An object that reads a Data File has, at every snapshot and each replication by itself, the
\* share its entry in force states of that entry's own file, whatever else is dated or reads
\* the file: at the snapshots at which that entry has the file and the share of the first, of
\* a property no two rows contend for.  One that has no series is warned of, and a series
\* holds rows of nothing else.
FileSeriesAreTheOwnersShares ==
  step = "staged" /\ chronology.index # None =>
    /\ \A p \in {q \in properties : Reads(q)} : \A sample \in Samples(p) :
         SeriesKey(p) \in DOMAIN series /\ ~HasContest(p) => HoldsShares(p, sample)
    /\ \A p \in {q \in properties : Reads(q)} :
         SeriesKey(p) \notin DOMAIN series => <<p.data_file, SeriesKey(p)>> \in warned
    /\ \A k \in DOMAIN series : \A r \in series[k] :
         \E p \in properties : SeriesKey(p) = k /\ p.object = r.component /\ (Reads(p) \/ HasSteps(p))
=============================================================================
