--------------------------- MODULE MCInteractiveShell ---------------------------
(***************************************************************************)
(* Two sessions of one user over a project of five pipelines, two of them  *)
(* for one pair of frameworks and three for results, or of three.          *)
(***************************************************************************)
EXTENDS InteractiveShell

Pipeline(source, destination, name) ==
  [source |-> source, destination |-> destination, pipeline |-> name]
Param(node, name, yaml) == [node |-> node, name |-> name, yaml |-> yaml]

Direct  == Pipeline("plexos", "sienna", "direct")
Chain   == Pipeline("plexos", "sienna", "chain")
Solved  == Pipeline("pypsa", "results", "solved")
Tables  == Pipeline("pypsa", "results", "tables")
Sienna  == Pipeline("sienna", "results", "sienna_results")

MCCatalogs == {{Direct, Chain, Solved, Tables, Sienna}, {Direct, Tables, Sienna}}

FromFile(path) == [source |-> <<Param("source", "path", path)>>, others |-> << >>]
MCParams ==
  [direct |-> [FromFile("in.xml") EXCEPT
                 !.others = <<Param("step[0]", "year", NoValue), Param("sink[0]", "path", "out.json")>>],
   chain  |-> FromFile("model.xml"), solved |-> FromFile("network.nc"),
   tables |-> FromFile("network.nc"), sienna_results |-> FromFile(NoValue)]

MCNeedsMappings == [validate |-> {}, translate |-> {"chain"}]

One(v) == {v}
MCOptions ==
  [model_type |-> {"pypsa", "sienna"}, unit_commitment |-> {"exact", "linearised"},
   solve_window |-> One("month"), network_model |-> One("dcp"), solver |-> One("simplex"),
   presolve |-> One("choose"), run_crossover |-> One("choose"), example |-> One("none")]

\* A path with a home directory in it, a number, a directory and a mappings file.
MCTyped ==
  [network_path |-> One("~/n.nc"), sienna_json_path |-> One("~/s.json"), target |-> One("here"),
   path |-> One("mine.xml"), year |-> One("2030"), user_mappings_path |-> One("mine.yaml"),
   output_dir |-> {}, start_date |-> {}, end_date |-> {}, look_ahead_days |-> {},
   time_limit_seconds |-> One("60"), output_path |-> One("~/n.md")]
MCNormal(v) ==
  CASE v = "~/n.nc" -> "/home/n.nc" [] v = "~/s.json" -> "/home/s.json"
    [] v = "~/n.md" -> "/home/n.md" [] v = "60" -> "60.0" [] OTHER -> v
MCPrefilled ==
  [network_path |-> "", sienna_json_path |-> "", target |-> "", output_dir |-> "solved",
   start_date |-> "", end_date |-> "", look_ahead_days |-> "1", time_limit_seconds |-> "",
   output_path |-> "comparison_summary.md", user_mappings_path |-> "user_mappings.yaml"]

Scenario(commands, dialogs, beside) ==
  [commands |-> commands, dialogs |-> dialogs, beside |-> beside]
MCScenarios ==
  {Scenario({"translate"}, 2, FALSE), Scenario({"validate"}, 2, FALSE),
   Scenario({"solve"}, 2, FALSE), Scenario({"compare"}, 2, FALSE),
   Scenario({"init", "validate"}, 2, FALSE), Scenario({"init"}, 3, TRUE)}
=============================================================================
