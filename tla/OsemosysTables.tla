----------------------------- MODULE OsemosysTables -----------------------------
(***************************************************************************)
(* What every part of the canonical OSeMOSYS stage reads: the canonical    *)
(* schema, the raw tables a source reads a model into, and the rules both  *)
(* sources apply to them.                                                  *)
(*                                                                         *)
(* A row is [at, value]: the member in each key column, and a number or    *)
(* Null for a value that is none.  Raw tables are                          *)
(* [sets, parameters, declarations]: the members of each set in order, the *)
(* rows of each table in order, and its [key, default].  A number is an    *)
(* integer; the text of a cell is a member, spaces included.               *)
(***************************************************************************)
EXTENDS Integers, Sequences, SequencesExt, FiniteSetsExt

CONSTANTS
  Null,           \* an empty cell, a value that is not a number, nothing declared
  Strip,          \* [cell -> cell]: a cell without the spaces around it
  SetName,        \* [canonical set -> its default name]
  Parameter       \* [canonical parameter -> [name, columns: [column -> set], default, from]]

SecondRegion == "_REGION"

\* Columns of the canonical schema, each under its default name.
OsemosysColumn(p, column) ==
  IF column = "end_region" THEN SecondRegion ELSE SetName[Parameter[p].columns[column]]
Columns(p) == DOMAIN Parameter[p].columns
OsemosysColumns(p) == {OsemosysColumn(p, c) : c \in Columns(p)}

FindSet(name) == {s \in DOMAIN SetName : SetName[s] = name}
FindParameter(name) == {p \in DOMAIN Parameter : Parameter[p].name = name}

\* An event about a table, a set, an object or a field, without its wording.
Event(kind, of, why) == [kind |-> kind, of |-> of, why |-> why]
Skipped(of, why) == Event("COMPONENT_SKIPPED", of, why)
NotMapped(of, why) == Event("NOT_MAPPED", of, why)

(* ------------------------- the rules of both sources ---------------------- *)

\* A cell without its name in Strip has no space around it.
StripCell(cell) == IF cell \in DOMAIN Strip THEN Strip[cell] ELSE cell
StripCells(rows) ==
  [i \in DOMAIN rows |-> [rows[i] EXCEPT !.at = [c \in DOMAIN rows[i].at |-> StripCell(rows[i].at[c])]]]

Unique(s) == FoldLeft(LAMBDA kept, x : IF Contains(kept, x) THEN kept ELSE Append(kept, x), << >>, s)

States(rows, at) == \E row \in ToSet(rows) : row.at = at
FirstRows(rows) ==
  FoldLeft(LAMBDA kept, row : IF States(kept, row.at) THEN kept ELSE Append(kept, row), << >>, rows)

NormaliseSet(members) == Unique([i \in DOMAIN members |-> StripCell(members[i])])
\* A faulty variant tells keys apart by their spaces.
SpacedKeys(rows) == StripCells(FirstRows(rows))
NormaliseTable(rows) == FirstRows(StripCells(rows))

Normalise(raw) ==
  [raw EXCEPT !.sets = [s \in DOMAIN raw.sets |-> NormaliseSet(raw.sets[s])],
              !.parameters = [t \in DOMAIN raw.parameters |-> NormaliseTable(raw.parameters[t])]]
RepeatedKeys(raw) ==
  {Skipped(<<"parameter", t>>, "repeated key") :
     t \in {t \in DOMAIN raw.parameters : NormaliseTable(raw.parameters[t]) # StripCells(raw.parameters[t])}}

\* report_unreadable_values
Readable(rows) == SelectSeq(rows, LAMBDA r : r.value # Null)
UnreadableValues(parameters) ==
  {Skipped(<<"parameter", t>>, "unreadable value") : t \in {t \in DOMAIN parameters : Readable(parameters[t]) # parameters[t]}}
===============================================================================
