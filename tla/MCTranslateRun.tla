---------------------------- MODULE MCTranslateRun ----------------------------
(***************************************************************************)
(* Runs for TranslateRun: one pipeline alone, chains of two and three, a   *)
(* chain fed by a mapping pipeline, and the calls that are refused.        *)
(***************************************************************************)
EXTENDS TranslateRun, TLC

Node(name, params) == [name |-> name, params |-> params]

In(path)  == "in" :> PathValue(path)
Out(path) == "out" :> PathValue(path)

Pipeline(from, to, source, steps, sinks, validators) ==
  [source_framework |-> from, destination_framework |-> to, source |-> source,
   steps |-> steps, sinks |-> sinks, validators |-> validators]

\* a : x -> y, b : y -> z and c : z -> x; m and n derive a mappings file, n under no name.
MCManifests ==
  ("a" :> Pipeline("x", "y", Node("read_x", In("input")), <<Node("step_a", NoParams)>>,
                   <<Node("write_y", Out("model"))>>, <<Node("check_x", NoParams)>>)) @@
  ("b" :> Pipeline("y", "z", Node("read_y", In("model")), << >>,
                   <<Node("write_z", Out("model")), Node("write_map", Out("sites"))>>,
                   <<Node("check_y", NoParams)>>)) @@
  ("plain_b" :> Pipeline("y", "z", Node("read_y", In("model")), << >>,
                   <<Node("write_z", Out("model")), Node("log_z", Out("log"))>>, << >>)) @@
  ("c" :> Pipeline("z", "x", Node("read_z", In("model")), << >>,
                   <<Node("write_x", Out("model"))>>, << >>)) @@
  ("m" :> Pipeline("x", "map", Node("read_x", In("input")), << >>,
                   <<Node("write_map", Out("sites"))>>, << >>)) @@
  ("n" :> Pipeline("x", "map", Node("read_x", In("input")), << >>,
                   <<Node("write_map", NoParams)>>, << >>))

MCConsumes ==
  [n \in {"read_x", "read_y", "read_z", "step_a", "check_x", "check_y"} |->
     IF n \in {"read_y", "check_x"} THEN {"sites"} ELSE {}]

MCProduces == "write_map" :> [schema |-> "sites", param |-> "out"]

NoOverrides == [source |-> NoParams, steps |-> NoParams, sinks |-> NoParams]

Leg(name, params) == [pipeline |-> name, params |-> params]

FirstLeg     == Leg("a", NoParams)
AbsoluteLeg  == Leg("a", <<"write_y", "out">> :> PathValue("/model"))
SecondLeg(p) == Leg(p, <<"read_y", "in">> :> ReferenceTo("a", "write_y", "out"))
ThirdLeg     == Leg("c", <<"read_z", "in">> :> ReferenceTo("plain_b", "write_z", "out"))

Calls(to, derive, compose, given, keeps) ==
  {[document |-> [source_framework |-> "x", destination_framework |-> to,
                  mappings |-> derive, compose |-> compose],
    overrides |-> NoOverrides,
    source_framework |-> "x", destination_framework |-> to,
    user_mappings |-> u, keep_staging |-> k] : u \in given, k \in keeps}

Alone == <<FirstLeg>>
Chain == <<FirstLeg, SecondLeg("plain_b")>>

MCRequests ==
  Calls("y", << >>, Alone, {TRUE, FALSE}, {TRUE, FALSE})
  \union Calls("z", << >>, Chain, {TRUE}, {FALSE})
  \union Calls("z", <<Leg("m", NoParams)>>, Chain, {TRUE, FALSE}, {FALSE})
  \union Calls("z", <<Leg("m", NoParams)>>, Alone, {FALSE}, {TRUE})
  \union Calls("z", <<Leg("n", NoParams)>>, Alone, {FALSE}, {FALSE})
  \union Calls("z", <<Leg("m", NoParams)>>, <<FirstLeg, SecondLeg("b")>>, {FALSE}, {FALSE})
  \union Calls("x", << >>, <<FirstLeg, SecondLeg("plain_b"), ThirdLeg>>, {TRUE}, {FALSE})
  \union Calls("z", << >>, <<AbsoluteLeg, SecondLeg("plain_b")>>, {TRUE}, {FALSE})
  \union Calls("z", << >>, <<FirstLeg, Leg("plain_b", NoParams)>>, {TRUE}, {FALSE})
  \union {[call EXCEPT !.source_framework = "z"] : call \in Calls("y", << >>, Alone, {TRUE}, {TRUE})}

MCReportPaths == <<"decisions.md", "decisions.json">>
=============================================================================
