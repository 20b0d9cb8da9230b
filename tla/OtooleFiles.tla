------------------------------ MODULE OtooleFiles ------------------------------
(***************************************************************************)
(* What stage_osemosys_csv reads a model into.  The config declares the    *)
(* sets and, for each parameter, [key, default, short]; the directory maps *)
(* the stem of each file it holds to a file: Empty, Unreadable, or a table *)
(* [header, rows], header and values without the spaces around them.  The  *)
(* rows of a set are its members.                                          *)
(***************************************************************************)
EXTENDS OsemosysTables

Empty == [form |-> "empty"]
Unreadable == [form |-> "not csv"]
CsvFile(header, rows) == [form |-> "table", header |-> header, rows |-> rows]

\* _find_csv_file: a parameter by its full name, then by its short name.
Stems(config, name) == <<name, config.parameters[name].short>>
FindFile(dir, stems) ==
  LET found == SelectSeq(stems, LAMBDA s : s \in DOMAIN dir)
  IN  IF found = << >> THEN Null ELSE dir[found[1]]

\* _build_csv_files
CsvFiles(config, dir) ==
  [sets |-> [s \in config.sets |-> FindFile(dir, <<s>>)],
   parameters |-> [t \in DOMAIN config.parameters |-> FindFile(dir, Stems(config, t))]]

\* _reject_empty_csv_dir
HoldsNoDeclaredFile(files) ==
  /\ DOMAIN files.sets \cup DOMAIN files.parameters # {}
  /\ \A s \in DOMAIN files.sets : files.sets[s] = Null
  /\ \A t \in DOMAIN files.parameters : files.parameters[t] = Null

HasForm(file, form) == file # Null /\ file.form = form
HasTable(file) == HasForm(file, "table")
NotCsv(kind, files) == {Skipped(<<kind, n>>, "not csv") : n \in {n \in DOMAIN files : HasForm(files[n], "not csv")}}

\* build_set_tables: a set whose file has no VALUE column is left out, one without a file is empty.
HasNoValueColumn(file) == HasTable(file) /\ "VALUE" \notin file.header
SetTables(files) ==
  [s \in {s \in DOMAIN files : ~HasNoValueColumn(files[s])} |-> IF HasTable(files[s]) THEN files[s].rows ELSE << >>]
SetEvents(files) ==
  {Skipped(<<"set", s>>, "no file") : s \in {s \in DOMAIN files : files[s] = Null}}
  \cup NotCsv("set", files)
  \cup {Skipped(<<"set", s>>, "no VALUE column") : s \in {s \in DOMAIN files : HasNoValueColumn(files[s])}}

\* build_parameter_tables: only a table of the declared key and VALUE, in any order, gives rows.
IsWrongHeader(file, key) == HasTable(file) /\ file.header # ToSet(key) \cup {"VALUE"}
KeyedRows(file, key) == IF HasTable(file) /\ ~IsWrongHeader(file, key) THEN file.rows ELSE << >>
ParameterTables(config, files) == [t \in DOMAIN files |-> KeyedRows(files[t], config.parameters[t].key)]
ParameterEvents(config, files) ==
  NotCsv("parameter", files)
  \cup {Skipped(<<"parameter", t>>, "wrong header") :
          t \in {t \in DOMAIN files : IsWrongHeader(files[t], config.parameters[t].key)}}
  \cup UnreadableValues(ParameterTables(config, files))

OtooleTables(config, files) ==
  [sets |-> SetTables(files.sets),
   parameters |-> [t \in DOMAIN files.parameters |-> Readable(ParameterTables(config, files.parameters)[t])],
   declarations |-> [t \in DOMAIN config.parameters |->
                       [key |-> config.parameters[t].key, default |-> config.parameters[t].default]]]
OtooleEvents(config, files) == SetEvents(files.sets) \cup ParameterEvents(config, files.parameters)
===============================================================================
