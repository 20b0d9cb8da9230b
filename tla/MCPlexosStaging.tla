---------------------------- MODULE MCPlexosStaging ----------------------------
(***************************************************************************)
(* Small exports for PlexosStaging: one family varies the dates and the    *)
(* Scenarios of the rows of one property, one what dangles, one the Data   *)
(* Files and who reads them, and one the Horizon.                          *)
(***************************************************************************)
EXTENDS PlexosStaging, Sequences

MCCanonicalUnit == (<<"Generators", "Rating">> :> ("MW" :> 1 @@ "GW" :> 10))

Row(membership, property, value) ==
  [membership |-> membership, property |-> property, band |-> None, from |-> None, to |-> None,
   scenarios |-> {}, value |-> value, data_file |-> None, variable |-> None, text |-> None]
Member(id, class, object) ==
  [id |-> id, class |-> class, object |-> object,
   collection |-> IF class = "Generator" THEN "Generators" ELSE "System", dangling |-> None]
Object(id, class, name) == [id |-> id, class |-> class, name |-> name]

Plants == {Member(1, "Generator", "g1"), Member(2, "Generator", "g2")}
Files  == {Member(3, "Data File", "f1"), Member(4, "Data File", "f2"), Member(5, "Variable", "v1")}
Things == {Object(1, "Generator", "g1"), Object(2, "Generator", "g2"), Object(3, "Data File", "f1"),
           Object(4, "Data File", "f2"), Object(5, "Variable", "v1")}
HorizonDefaults == [step_type |-> None, from |-> 12, count |-> 4, per_day |-> 2]
WholeHorizon == [from |-> 12]

Export(data) ==
  [objects |-> Things, memberships |-> Plants \cup Files, properties |-> {"Rating", "Filename", "Profile"},
   units |-> [Rating |-> "GW", Filename |-> None, Profile |-> None], data |-> data,
   active |-> {"s1", "s2"}, read_orders |-> [s1 |-> 2, s3 |-> 5],
   horizon |-> WholeHorizon, defaults |-> HorizonDefaults, files |-> [f \in {} |-> None]]

Point(at, name, sample, value) == [at |-> at, name |-> name, sample |-> sample, value |-> value]
File(layout, yearless, rows) == [present |-> TRUE, layout |-> layout, yearless |-> yearless, rows |-> rows]
NoFile == [File("shared", FALSE, {}) EXCEPT !.present = FALSE]

Rating(membership, value) == Row(membership, "Rating", value)
Scoped(row, from, to, scenarios) == [row EXCEPT !.from = from, !.to = to, !.scenarios = scenarios]

\* Three rows of one property, the second band of which nothing disturbs.
Entries(value, overlays) ==
  {Scoped(Rating(1, value), from, to, scenarios) :
     from \in {None, 8, 14}, to \in {None, 12, 14}, scenarios \in overlays}
Bases == {Rating(1, 1), Scoped(Rating(1, 1), 10, None, {}), Scoped(Rating(1, 1), None, None, {"s2", "s3"})}
Dated == {Export(<<base, [Rating(1, 4) EXCEPT !.band = 2], a, b>>) :
            base \in Bases, a \in Entries(2, {{}, {"s1"}, {"s2"}}), b \in Entries(3, {{}, {"s1"}, {"s3"}})}

\* Memberships, properties, texts and classes that nothing defines.
Unsound ==
  {[Export(<<Rating(1, 1), Scoped(Rating(1, 2), None, None, scenarios), Rating(2, 3), Row(9, "Rating", 5),
             [Row(3, "Filename", 0) EXCEPT !.text = text, !.scenarios = scenarios]>>)
      EXCEPT !.files = ("a.csv" :> NoFile), !.memberships = {[m EXCEPT !.dangling = IF m.id \in lost THEN "child_object_id" ELSE None] :
                                m \in Plants \cup Files},
             !.properties = defined,
             !.objects = {[o EXCEPT !.class = IF o.name = "g2" THEN class ELSE @] : o \in Things}] :
     lost \in SUBSET {1, 2, 3}, scenarios \in {{}, {"s1"}, {"s3"}}, text \in {None, "a.csv"},
     defined \in {{"Rating", "Filename"}, {"Rating"}, {"Filename"}}, class \in {"Generator", None}}

\* Two plants that read a file of their own, a share of one, or each other's.
Shared(early) ==
  {Point(at, None, sample, at + sample) : at \in {early, 13, 15}, sample \in {1, 2}}
    \ {Point(early, None, 2, early + 2)}
Named(early) ==
  {Point(early, "g1", None, 7), Point(14, "g1", None, 8), Point(17, "g2", None, 9), Point(None, "g2", None, 6)}
Traces ==
  {NoFile, File("unsupported", FALSE, {})}
    \cup {File("shared", FALSE, Shared(early)) : early \in {9, 14}}
    \cup {File(layout, FALSE, Named(early)) : layout \in {"named", "columns"}, early \in {9, 16}}
    \cup {File("shared", TRUE, {Point(at, None, None, at) : at \in {2, 5}}),
          File("columns", FALSE, {Point(13, "g2", None, 3)})}
Named1(row, file, variable) == [row EXCEPT !.data_file = file, !.variable = variable]
Read ==
  {[Export(<<Named1([Row(1, "Rating", v) EXCEPT !.from = from], file, variable), Named1(Rating(2, 3), other, None),
             Scoped(Rating(2, 5), 14, None, {}),
             [Row(3, "Filename", 0) EXCEPT !.text = "a.csv"],
             [Row(3, "Filename", 0) EXCEPT !.text = "b.csv", !.scenarios = {"s1"}],
             Named1(Row(5, "Profile", 0), "f1", None)>>)
      EXCEPT !.files = ("a.csv" :> a) @@ ("b.csv" :> b), !.units = [@ EXCEPT !.Rating = unit]] :
     v \in {0, 200}, from \in {None, 8}, file \in {None, "f1"}, variable \in {None, "v1"}, other \in {None, "f1"},
     a \in Traces, b \in {NoFile, File("shared", FALSE, Shared(9))}, unit \in {Percent, "MW"}}

\* A share of one file, and an entry beside it: another share of it, a file, or a value.
Shared2(a) ==
  {[Export(<<Named1(Row(1, "Rating", v), None, "v1"), Named1(Scoped(Rating(1, w), from, to, {}), file, variable),
             [Row(3, "Filename", 0) EXCEPT !.text = "a.csv"],
             [Row(4, "Filename", 0) EXCEPT !.text = "b.csv"],
             Named1(Row(5, "Profile", 0), "f1", None)>>)
      EXCEPT !.files = ("a.csv" :> a) @@ ("b.csv" :> File("shared", FALSE, Shared(14))), !.units = [@ EXCEPT !.Rating = unit]] :
     v \in {0, 100, 300}, w \in {0, 200}, from \in {8, 14, None}, to \in {None, 14}, file \in {None, "f2"},
     variable \in {None, "v1"}, unit \in {Percent, "MW"}}
Shares == UNION {Shared2(a) : a \in {NoFile, File("shared", FALSE, Shared(9)), File("named", FALSE, Named(9))}}

ReadSoundly == {e \in Read : e.data[1].data_file # None \/ e.data[1].variable # None}

\* Horizons that are read, that are not, and that miss the year asked for.
Horizons ==
  {[Export(<<Rating(1, 1), Scoped(Rating(1, 2), 14, 14, {}), Named1(Rating(2, 3), "f1", None),
             [Row(3, "Filename", 0) EXCEPT !.text = "a.csv"]>>)
      EXCEPT !.horizon = h, !.defaults = [@ EXCEPT !.step_type = type, !.per_day = per_day],
             !.files = ("a.csv" :> trace)] :
     h \in {None} \cup {[from |-> from, count |-> count] : from \in {None, 9, 13, 20}, count \in {1, 4, None}},
     type \in {None, Day, "week"}, per_day \in {0, 1, 2},
     trace \in {File("shared", FALSE, Shared(9)), File("shared", TRUE, {Point(at, None, None, at) : at \in {2, 5}})}}

MCExports == Dated \cup Unsound \cup ReadSoundly \cup Shares \cup Horizons
MCRequests == [model : BOOLEAN, year : {None, 1, 2}, scope : {"first"}]
                \cup [model : {TRUE}, year : {None}, scope : {"all"}]
=============================================================================
