------------------------- MODULE MCPlanTranslation -------------------------
(***************************************************************************)
(* Requests for PlanTranslation: chains of one to three legs over three    *)
(* pipelines, with every kind of param and override a manifest or a caller *)
(* can write.                                                              *)
(***************************************************************************)
EXTENDS PlanTranslation, TLC

Node(name, params) == [name |-> name, params |-> params]

Pipeline(from, to, source, steps, sink, validators) ==
  [source_framework |-> from, destination_framework |-> to,
   source     |-> Node(source, "in" :> PathValue("input")),
   steps      |-> steps,
   sinks      |-> <<Node(sink, "out" :> PathValue("output"))>>,
   validators |-> validators]

\* a : x -> y and b : y -> x, so a chain may run one of them twice; c ends anywhere.
MCManifests ==
  ("a" :> Pipeline("x", "y", "read_x", <<Node("step_a", NoParams)>>, "write_y",
                   <<Node("check_x", NoParams)>>)) @@
  ("b" :> Pipeline("y", "x", "read_y", << >>, "write_x", << >>)) @@
  ("m" :> Pipeline("x", "map", "read_map_input", << >>, "write_map", << >>))

Malformed == [kind |-> "malformed"]

Sources == "a" :> "read_x" @@ "b" :> "read_y"
Sinks   == "a" :> "write_y" @@ "b" :> "write_x"

SourceParams(p) ==
  {NoParams} \union
  {<<Sources[p], "in">> :> v : v \in {Malformed,
                                      ReferenceTo("a", "write_y", "out"),
                                      ReferenceTo("a", "read_x", "in"),
                                      ReferenceTo("b", "write_x", "out"),
                                      ReferenceTo("m", "write_map", "out"),
                                      ReferenceTo("ghost", "write_y", "out"),
                                      ReferenceTo("a", "write_y", "absent")}}

SinkParams(p) ==
  {NoParams} \union
  {<<Sinks[p], "out">> :> v : v \in {PathValue("renamed"),
                                     ReferenceTo("a", "read_x", "in")}}

EntriesOf(p) ==
  {[pipeline |-> p, params |-> from @@ to] : from \in SourceParams(p), to \in SinkParams(p)}

BadEntries ==
  {[pipeline |-> "ghost", params |-> NoParams],
   [pipeline |-> "a", params |-> <<"nowhere", "in">> :> PathValue("renamed")]}

Documents(mappings, chains) ==
  {[source_framework |-> "x", destination_framework |-> "y",
    mappings |-> m, compose |-> c] : m \in mappings, c \in chains}

DerivesMappings == <<[pipeline |-> "m", params |-> NoParams]>>

\* Wired entries for the chains of three legs, which run one pipeline twice.
WiredTo(p, from) ==
  {[pipeline |-> p,
    params |-> (<<Sources[p], "in">> :> ReferenceTo(from, Sinks[from], "out")) @@ to] :
     to \in SinkParams(p)}

ChainsOfThree ==
  {<<first, second, third>> :
     first \in EntriesOf("a"), second \in WiredTo("b", "a"), third \in WiredTo("a", "b")}

ChainsOfOne == {<<[pipeline |-> "a", params |-> NoParams]>>}

ChainsOfTwo ==
  {<<first, second>> : first \in EntriesOf("a") \union BadEntries,
                       second \in EntriesOf("b") \union EntriesOf("a") \union BadEntries}

Overrides(source, steps, sinks) == [source |-> source, steps |-> steps, sinks |-> sinks]

AnsweredOverrides ==
  {Overrides(NoParams, NoParams, NoParams),
   Overrides("in" :> PathValue("answered"), NoParams, 1 :> ("out" :> PathValue("answered"))),
   Overrides("in" :> ReferenceTo("b", "write_x", "out"), NoParams, NoParams),
   Overrides(NoParams, 1 :> ("scale" :> PathValue("answered")), NoParams),
   Overrides(NoParams, NoParams, 2 :> ("out" :> PathValue("answered"))),
   Overrides(NoParams, NoParams, 1 :> ("out" :> ReferenceTo("ghost", "write_y", "out")))}

MCRequests ==
  {[document |-> d, overrides |-> o] :
     d \in Documents({<< >>, DerivesMappings}, ChainsOfOne \union ChainsOfTwo)
           \union Documents({<< >>}, ChainsOfThree),
     o \in AnsweredOverrides}
=============================================================================
