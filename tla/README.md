# TLA+ models of interop

interop translates energy-system models between frameworks (PLEXOS, PyPSA, Sienna,
OSeMOSYS and others), validates and compares them, and solves them. This directory holds
models of the parts of it whose correctness depends on more than one place in the code: what
is read before what is written, what a failure leaves behind, which of two files of one name
is meant, which snapshots of a year are counted; and, for the translations themselves, that
nothing of a model is lost without a word or translated twice, that what refers to something
still does, and that a series means the same megawatts on both sides.

Paths below are relative to `src/`, where the program's own package is `interop/`.

## The system

| component | code | state it keeps | operations |
|---|---|---|---|
| Composition planning | `core/composition/*.py`, `core/cli_overrides.py` | none; a list of legs is rewritten | load legs, overlay params, route hand-offs, check boundaries, targets and wiring, apply overrides, resolve references |
| Pipeline runner | `core/runner.py`, `core/pipeline.py` | a `State` of staged tables and findings, a staging directory | load a source, run validators, reject, run steps, write sinks |
| Translate use case | `core/use_cases/translate.py` | `_Run`: plan, event log, writes, findings, derived mappings; a scratch root | plan, run the legs, derive mappings, render reports, discard scratch |
| User mappings | `core/user_mappings_loader.py` | none | which schemas a leg needs, who derives them, load a file |
| Run filesystems | `adapters/outbound/local_filesystem.py`, `write_tracking_filesystem.py` | the root; the list of writes | open, exists, copy; report a write when the file is closed |
| Reports | `core/reporting.py`, `adapters/outbound/*_report.py` | files | render decisions, render findings |
| Solve (PyPSA) | `core/use_cases/solve_network.py`, `adapters/outbound/highs_network_solver.py` | the network at hand, its reported snapshots and cost | cut windows, solve each, discard look-aheads, export, go on past a failed network |
| Extensions sidecar | `core/extensions.py`, `core/pipeline.py`, `plugins/shared/extensions_sidecar.py`, the steps, sources and sinks that use them | records and series staged, set aside and consumed in a hop; the sidecar and its companions on disk | stage, look up, read whole, relay, append, report what nobody read, write, refuse a broken pair |
| Interactive CLI, history | `adapters/inbound/interactive_cli/*.py` | the entries a session holds; `history.json` | menu, questions, call of a use case, append, rewrite, replay |
| Compare use case | `core/use_cases/compare.py` | a scratch directory for each side | two runs, two joins, a report |
| PyPSA to Sienna | `plugins/steps/pypsa_to_sienna_map_components.py`, `sienna_relate_components.py`, `plugins/shared/pypsa_sienna_translations/`, `plugins/sinks/emit_sienna_*` | tables, associations, records, the document | validate, map class by class, derive areas and arcs, resolve names to ids, store megawatts |
| Sienna to PyPSA | `plugins/shared/sienna_document.py`, `plugins/sources/stage_sienna_system_json.py`, `plugins/steps/sienna_to_pypsa/`, `plugins/sinks/emit_pypsa_network.py` | what is kept of a document, tables, series metadata, the network | leave out what refers to nothing, stage series, map class by class, drop profiles off the window, write |
| PLEXOS staging | `plugins/sources/stage_plexos_xml.py`, `plexos_*.py` | resolved tables, dated values, series | settle the horizon, rank rows by scenario, resolve names, read files, reconcile to the snapshots |
| PLEXOS to Sienna | `plugins/steps/plexos_to_sienna/`, `plugins/shared/plexos_sienna_translations/`, the derivations of `plexos_pypsa_translations/` | tables, staged series, associations, what the sidecar stores | map buses, loads, generators, transmission and storage, drop profiles off the window, scale and store |
| Sienna to PowerSimulations | `plugins/steps/sienna_to_powersimulations/`, `plugins/shared/power_simulations_schema.py`, `plugins/sinks/emit_power_simulations_*.py` | staged series, UUIDs, tables, the HDF5 sidecar, the system document | fill availability, give UUIDs, build tables, write the two files |
| Investments portfolio | `plugins/steps/*investments_map_technologies.py`, `plugins/shared/pypsa_sienna_investments_translations/`, `sienna_investments_sources.py`, `plugins/sinks/emit_sienna_portfolio.py` | the portfolio's tables, `portfolio.json` | turn extendable plants into technologies, list their fleets, caps and areas, drop plants nobody has built from the base system, resolve and write |
| OSeMOSYS to the canonical stage | `plugins/sources/stage_osemosys_csv.py`, `stage_tz_osemosys_json.py`, `plugins/shared/osemosys_canonical/`, `plugins/sinks/emit_osemosys_canonical_parquet.py` | raw tables, sets, a plan of parameters, canonical and extension tables, metadata, annotations | read otoole files or a TZ document, clean, map sets, plan and reshape parameters, choose defaults, infer kinds and places of technologies, write |
| Other translations | `plugins/steps/`, `plugins/shared/` | tables | results, the portfolio from PyPSA |
| Validate use case | `core/use_cases/validate.py` | none | load and validate the first leg only |
| Pipeline catalog | `core/use_cases/pipeline_catalog.py` | none | what to ask the user before a run |
| Discovery, container | `di/*.py` | registries | register plugins, refuse collisions |
| Headless CLI | `adapters/inbound/headless_cli/*.py` | none | parse override flags |
| Julia solver | `adapters/outbound/julia_solver.py` | a Julia depot on disk | provision, run a subprocess |

How they interact. A *pipeline* is one source, validators, steps and sinks. A *composed*
pipeline is a chain of them: mapping legs first, then translation legs. `translate` asks the
planner for the legs in run order, then for each leg loads the user mappings the leg's nodes
are built with, runs it with `run_pipeline` on filesystems of its own, and remembers the
files its sinks derived for later legs. A translation leg that is not the last writes into a
directory under the run's scratch root, and the next one reads that directory; everything
else reads and writes the *boundary*, the user's project. The validators' findings go to one
validation report file, rewritten for each leg; the decisions of all legs go to the decisions
reports when the run ends. `solve` and `translate` share nothing but the CLI.
What a destination has no home for travels past it: a step sets a record aside, a sink writes
it into an *extensions sidecar* (`extensions.json`, and a parquet *companion* for each kind
whose records name a series), and the source of the next hop stages it again.
A translation is a leg whose step runs a list of parts over one `State`: each part reads the
staged tables and the tables the parts before it wrote, numbers its rows on from theirs, refers
to them by name, and reports what it leaves out; the sink resolves the names and writes.

What is hard. Nothing runs concurrently within a run. The difficulty is partial failure: any
call of a plugin, of a report, of the optimiser may raise; three `finally` blocks and one
context manager then decide what is left; and results have to be right after the failure as
well as before it. Next to that is stale state: two files of one name (a hand-off and a file
of the project; a derived mapping and the user's; a solved network and its input), one network
object shared by overlapping windows, one report file shared by the legs. Then order: which
planning rule is read before which, which window's results are thrown away before which is
solved. In the translations it is agreement between places that do not call each other: two
parts that each decide whether an object is theirs, a rule in the step that sets a capacity and
one in the sink that scales by it, a filter by name over tables of several classes, a row whose
rival is left out by another module. `PROJECT.json` lists each hazard at its line, with the properties that watch it.

## Modules

| module | what it is |
|---|---|
| `CompositionPlan` | operators: addressing (`addressing.py`), legs and hand-offs (`planning.py`), overrides (`cli_overrides.py`) |
| `PlanTranslation` | `plan_translation` as a state machine, one action per rule in the order it is read; a request that breaks a rule is rejected under its name |
| `TranslateRun` | one run of `translate`: the planner (an instance of `PlanTranslation`), the legs, `run_pipeline`, mappings, files, reports and cleanup |
| `ChainContract` | what a run promises its caller, without the how; the abstract specification `TranslateRun` implements |
| `SolveNetworks` | `solve` on one PyPSA network or an ensemble |
| `ExtensionSidecar` | a chain of hops that stage, read, relay, make, report and write extension records and their series |
| `TranslateRunProofs`, `SolveNetworksProofs`, `CompareResultsProofs`, `InteractiveShellProofs`, `PlexosStagingProofs` | theorems about the module of that name, and their proofs |
| `PlanTranslationProofs` | lemmas about the operators of planning, and the theorems about a plan that rest on them |
| `FromSiennaProofs` | theorems about both legs that read Sienna |
| `PypsaToSiennaProofs` | theorems about `PypsaToSienna`, and about `ExtensionSidecar`, in which its records travel |
| `InteractiveShell` | sessions of the shell over one history file: the questions of each command, its use case, replay |
| `CompareResults` | two results tables, the runs that make them, the join at the finest grain both share, the report |
| `PypsaToSienna` | the `pypsa-to-sienna` leg from staged network to written document |
| `SiennaToPypsa` | the `sienna-to-pypsa` leg from document to written network |
| `SiennaToPowerSimulations` | the `sienna-to-power-simulations` leg, over the reader of `SiennaToPypsa`, which it extends: a run takes either leg |
| `PlexosStaging` | the source of every PLEXOS leg: from the `t_` tables to properties and series |
| `PlexosToSienna` | the `plexos-to-sienna` step and what the sidecar stores |
| `Portfolio` | operators: what makes a technology, its fleet, caps, ids and the document |
| `PlexosToSiennaInvestments` | `PlexosToSienna` with the step that builds the portfolio before its sink and the sink that writes it behind |
| `OsemosysTables` | operators: raw tables and how they are cleaned, for both sources of OSeMOSYS |
| `OtooleFiles` | operators: an otoole directory read into raw tables |
| `TzModel` | operators: a TZ document read into raw tables |
| `OsemosysCanonical` | the pipelines from OSeMOSYS into the canonical document: sets, parameters, metadata, annotations, the sink |
| `Null` | the value a cell without a value holds |
| `Cells`, `SiennaColumns`, `PypsaColumns` | operators: what a column of a PyPSA component becomes in a Sienna one and back: costs, ramps, commitment, voltages, impedances, hydro reservoirs, with their units, defaults and nulls |
| `PypsaRoundTrip` | a network taken to Sienna and back by those columns, class by class, once and again (a lap) |
| `PlexosReading` | operators: what a PLEXOS generator or line says, as both routes to PyPSA read it |
| `PlexosHub` | the two routes over one object: directly, and by way of a Sienna document and its sidecar (the hub) |
| `MC<module>`, `MCFromSienna` | the instances TLC checks; the last is of both legs that read Sienna; `MCPypsaToSienna` holds the laps over the networks of `MCRoundTripNetworks`, `MCPlexosToSienna` the objects of the hub |

### State and code

`TranslateRun`. `stage` is the call the run makes next (the list at `Stages` names the action
for each), `raised` the exception on its way out. `disk` holds files as `[place, path, by]`:
the place is the boundary or a hand-off directory, `by` the leg that wrote it (0 for the
user), so that a file read can be traced to its writer. `writes`, `errors`, `mappings` and
`events` are the fields of `_Run`; `found`, `crashes` and `staging` belong to `run_pipeline`.
A plugin is a name with params: a source reads the paths among its params, a sink writes
them, a validator finds nothing, finds something at some severity, or crashes, and each may
raise. Whatever a handler does in one go (a `finally` that renders, a cleanup that deletes) is
in one action with what precedes it, unless another call can raise between them.

`SolveNetworks`. Windows begin and end with days, so a snapshot is the day it lies in, and
the calendar is a set of day numbers with the last day of each one's month and year given.
`results[i]` is the window whose dispatch snapshot `i` holds (0 the file's own, -1 zeroed);
`reported[i]` and `costed[i]` count how often it is in `reported_snapshots` and in the
objective. `conditions[w]` is what the optimiser said of window `w`: optimal, infeasible, or
cut off at the time limit with an answer that is kept.

`ExtensionSidecar`. A record is a subject (kind and name), the hop that made it and whether it
names a series in place of a value; the hop is not in the code, it tells a record made anew
from the one it was made of. `staged`, `staged_series`, `carried`, `carried_series`, `opened`
and `consumed` are the six extension fields of `State`; `sidecars` and `companions` are files
by place; `made`, `used`, `reported` and `unoffered` are history. A step is described by what
it does to records: the kinds it looks up by name, reads whole, relays and makes. A composite
step is as many steps as it has parts that touch records. Which components a model holds, and
so which names are looked up and which records made, is left open (`mapped`, `subjects`). A
sidecar without records and no sidecar are the same to every source.

A status is modelled as the set of its parts: the code joins sorted distinct parts by commas
and compares with `{"optimal"}`.

`InteractiveShell`. `stage` is where a session stands in a command; a question is its key and its
kind, and the key stands for the prompt. A session holds the entries it loaded and the ones it
appended (`mine`); `file` is the history on disk. Sessions interleave at each write. A dialog asks the
list `Questions` gives for the answers so far; what it offers is computed from the catalog it looked
up when it began, for a comparison too, while the project may change under it (`EditProject`).

`CompareResults`. A table is a set of rows with nulls in any column that may hold one; numbers
are small. The two joins and the coverage table are operators of the two tables, the runs of
the two sides are actions that may fail.

The translations. `step` is the part that runs next, in the order of the step's list; the other
variables are the fields of `State` the leg writes: `tables` or `components` for
`destination_tables`, `series` for `source_time_series`, `associations` or `metadata` for the
rows that tie a series to a component, `skips` and `report` for the decisions, `records` for
the extensions, `document`, `network` and `stored` for what the sink writes. A component is the
columns other parts of the leg read: its class, name, id, buses, and the capacity a series is
scaled by. Power is whole megawatts or counts of 1/One, exact in both directions.
`OsemosysCanonical` holds the raw tables (`raw`), the canonical sets (`sets`), the plan of which
raw table goes where (`plan`), the tables made of them with their metadata (`tables`), the events of
all parts, and what the sink wrote (`output`, by kind and name). A table is a sequence of rows
`[at, value]`, so that the first of two rows of one key is known; a member keeps the spaces around
it until the cleaning that strips them (`Strip`), since what is one key depends on that order.
What a row of the mappings matches by a pattern is given as the groups it captures in each table.
A row of the column modules is a function from the columns it states to cells, a cell being the
value and how the reports account for it; a number is a fraction `<<n, d>>` in lowest terms. In `PypsaRoundTrip`
`source`, `system`, `sidecar` and `returned` are the network a lap started from, what the first leg
writes beside each other and what the second makes of it, `reported` what the first says it gave up, and `journey` the networks
so far; each leg reads a clock for itself. In `PlexosHub` `direct`, `hubRow`, `carried`, `told` and `arrived` are
one object's row on each route and what the hub reports of it. A behaviour of `MCPypsaToSienna` is of
the leg or of a lap, and one of `MCPlexosToSienna` of the pipeline or of the hub.
`PlexosStaging` has a variable for each table the source resolves, and time is whole steps with
days of two and years of eight, so that a day, a year and the ends of a date fall apart.

### External code

`network.optimize` is pypsa's, modelled from what `highs_network_solver.py` relies on: it
assigns results to the snapshots it was given and to no others, and to none when the problem
is infeasible. Plugins are modelled by the protocols of `core/pipeline.py`.

## Runs

`tlc -config X.cfg M` in this directory; each finishes within a minute or two.

| run | module, cfg | shows |
|---|---|---|
| `plan_translation` | `MCPlanTranslation`, `PlanTranslation.cfg` | planning either breaks one rule or yields legs wired end to end: no reference survives, hand-offs pair up, and a leg is given the path its upstream leg is run with |
| `translate_run` | `MCTranslateRun`, `TranslateRun.cfg` | a run writes outputs only from accepted input, reports every finding and every decision, reads what it was handed, leaves nothing temporary, and implements `ChainContract` |
| `solve_networks` | `MCSolveNetworks`, `SolveNetworks.cfg` | each hour is reported once (of an infeasible window nothing is said) and costed once and keeps its own window's results, whatever look-aheads overlap it; "optimal" means what it says |
| `extension_sidecar` | `MCExtensionSidecar`, `ExtensionSidecar.cfg` | no record vanishes over an unbroken chain, none is there twice, and the series a record names is where the record is |
| `interactive_shell` | `MCInteractiveShell`, `InteractiveShell.cfg` | replaying an entry and accepting every default calls the use case as it was called then, as long as what was selected is still a choice; the history is the last commands recorded, as long as no session starts beside another |
| `compare_results` | `MCCompareResults`, `CompareResults.cfg` | no value is compared twice, but where the other side names its component twice in the hour, and a table agrees with its own totals whatever the grain |
| `pypsa_to_sienna` | `MCPypsaToSienna`, `PypsaToSienna.cfg` | every component is mapped once or skipped with an event; a reference resolves to the component that has the name; stored arrays are the source's megawatts; a network taken to Sienna and back dispatches as it did, but for what the model names, and a second lap changes nothing |
| `from_sienna` | `MCFromSienna`, `FromSienna.cfg` | what is kept of a document is its largest part that refers to nothing absent. To PyPSA: one fate for every component and profile; columns of one series are the stored megawatts. To PowerSimulations: the system is the kept part with every reference resolved, and value, capacity and base of the two files make the stored megawatts |
| `plexos_staging` | `MCPlexosStaging`, `PlexosStaging.cfg` | each row is staged, displaced by a row of the same entry or reported; readings and snapshots hold the entry in force then, one with a time scope before the base value; a file's series is, at each snapshot, the share of the entry in force of that entry's file; rows two entries contend for, and entries that change the file or the share, are left out by name |
| `plexos_to_sienna` | `MCPlexosToSienna`, `PlexosToSienna.cfg` | with and without the portfolio: one fate for every object and profile; a stored series is what the model states in megawatts, and the documented shape times the limit where it peaks there, but for four named ways in which derates do not multiply; every plant is in the base system or a technology, in both just if it runs, beside the fleet the base system as written holds; an object read into PyPSA by way of Sienna says what the direct reading says, but for the departures the model names |
| `osemosys_canonical` | `MCOsemosysCanonical`, `OsemosysCanonical.cfg` | a key the canonical document answers, it answers with what the source states there, through cleaning, reshaping and defaults; a raw row ends in one table or in an event; a value stated once for many in a TZ document is found by each of them; kinds and places of technologies do not depend on the order of rows |
| `both_documents` | `MCPlexosToSienna`, `BothDocuments.cfg` | violated: see findings |

Every property of a passing run has a mutant in `PROJECT.json`: a change of one modelled
definition that a programmer could make (a dropped guard, a `finally` forgotten, the wrong
list index) and that violates exactly what the property says.

### Bounds

*Planning.* Chains of one to three legs over three pipelines, with and without a mapping
pipeline; each leg may hold no param, a path, a malformed value, or a reference to any other
node, an absent param or a pipeline that is not run. Three legs are enough for a leg that is
neither first nor last, and two pipelines of opposite frameworks for a chain that runs one
of them twice. (63,454 states)

*Runs.* One to three legs, with or without mapping legs, sinks that derive a mapping, two of
them for one schema, an absolute path, a file of the user's under the name of a hand-off, two
decisions reports, staging kept or not; every call may raise. One validator with one finding
per leg is enough to tell a report of this leg from a report of all legs. (109,836 states)

*Solving.* Nine days in months of three, a year that ends on day 4; networks with two
snapshots in a day, none in a month, only the last day, or none at all; look-aheads shorter
than a window and longer than several; open and closed ranges, ranges that miss the network,
bad requests; ensembles of up to three networks. Every window may end in any condition and
every network may fail. (36,116 states)

*Sidecars.* Five chains of the shipped pipelines, two to five hops long: through the hub and
back with the last hop writing over what the second wrote, through ensembles, into an
investment portfolio, and into results by a hop without mappings and by one whose records no
sink writes. Five kinds stand for what the shipped steps do with the nine: looked up (bus,
generator), relayed (constraint), relayed with a series (reserve), stated by the source
(network). One name a kind is enough, since no step relates two names. (302,303 states)

*Shell.* Two sessions, one after the other or beside each other, of two or three dialogs; a
history of two entries, so that one is pushed out; a project whose pipelines may change between
them; every kind of question, each answered, left or cancelled; two frameworks with results, one with two
results pipelines and after an edit with one. (1,061,200 states)

*Comparison.* Pairs of tables of up to three rows, with nulls in component, category and
timestamp, over two components of one category and two hours. (735,000 states)

*PyPSA to Sienna.* Families of networks, each wide in one thing: carriers and fates of plants,
storage, references between components of one name, series and their capacities, shedding.
The networks of the laps hold one component of a class with each of its capacities and columns
at each of its kinds of value: stated, zero, at a default, not there. (131,283 states)
*Sienna to PyPSA.* Documents wide in references, in types, in stored series, in
windows, in companions, and in what the target of the PowerSimulations leg refuses, each taken
through both legs. (46,097 states)

*PLEXOS staging.* Families `Dated` (entries with any dates, scenarios and read orders over two
years), `Unsound` (ids that resolve to nothing), `ReadSoundly` (files, units, scalings, variables),
`Shares` (two entries of one property, each a share of a file, a file or a value, opening in either order)
and `Horizons` (every way to state the window). (450,429 states) *PLEXOS to Sienna.* Families
`Fates` (capacities, candidates, retired units, nodes, carriers), `Storages`, `Derates` (profile,
outage, units out, dated capacity and rating together), `Windows` (series that stop short,
namesakes of two classes), `Loads` and `Expansions`
(builds with a life and hours that make a technology or do not, plants that run and plants nobody
has built, with profiles and without, constraints that cap the whole model, part of it or nothing). `One` is 64, so a half of a half is exact; series have one
or two snapshots, the least at which two of one series differ. The objects of the hub are 8,305, in
families of expansion, sizes, fuels, availability, commitment, schedules, placement and lines, each
with every combination of its properties. (88,096 states)

*OSeMOSYS.* Otoole directories with each file in every state (sound, empty, unreadable, under
another stem, missing) and cells with spaces, repeats and no numbers; two raw tables of one
parameter under every operation of a row (names, removal by each aggregate or by a choice,
repetition over a set, a factor, a default of its own); technologies over flows, storage and places
in any order of the rows; and TZ documents that state a value bare, at some levels, by a wildcard,
for one direction of a pair, or by two objects. Two members a set and two years are enough for a
value that is somewhere and a value that is not. (20,946 states)

The translations and the runs end after their last part; the integers of `SolveNetworks` are
bounded by the calendar.

### Fairness

No module assumes fairness and none claims liveness. Nothing here waits: the program is a sequence of
calls in one thread over finite lists, and every call is modelled as returning or raising, so that each
run ends by the shape of its loops. A run that is over stutters and deadlock is checked in every run,
which shows that no run stops anywhere else.

## Findings

1. **A plant nobody has built that follows a profile stops the run**
   (`emit_sienna_h5_sidecar.py:165`, run `both_documents`). `sienna_investments_map_technologies.py:398`
   takes the plant out of its table after the leg gave its profile an association; the sidecar looks
   the owner's capacity up, which is no longer there, and neither document is written.

It disagrees with a sentence of the repository's documentation that `PROJECT.json` quotes. The
models say what the code does. Where a property states the documented rule and the code departs from
it, the property names the case and says nothing of it; each such name is below, with the line and the
sentence. No run states these:

- Planning: a pipeline run twice is addressed by its first leg (`planning.py:291`); a first leg may hold
  a reference, which `validate` then hands over as text (`validate.py:59`). Runs: the validation report
  is in no summary (`container.py:233`); an absolute path escapes scratch space
  (`local_filesystem.py:76`). Solving: the output may overwrite the input (`solve_network.py:68`); a
  window's snapshots are listed as reported before its condition is looked at
  (`highs_network_solver.py:81`), so after an infeasible window the network lists snapshots that hold no
  result or the zeros of a former look-ahead, where `docs/tutorials/solve.md:91` and the docstring at
  `highs_network_solver.py:175` say that exactly the genuine ones are listed. `EveryHourIsReportedOnce`
  asks that of every snapshot but those (`IsUnsolved`).
- Sidecar: an ensemble read back stages records without their series
  (`stage_sienna_system_json_ensemble.py:79`), so `sienna-to-pypsa-ensemble` writes a sidecar that
  points at a companion that is not there and the next hop refuses it. `SeriesTravelWhereTheyAreStaged`
  is about chains without such a source.
- Shell: `app.py:344` says a failed run must not take the shell down; `init` and `solve` can. A session
  writes the entries it loaded over those of a session beside it. A cancelled command takes one of the
  places of the history. A recorded selection that is no longer a choice is shown by no question
  (`IsGone`): the select highlights its first choice instead (`app.py:100`, `:121`), so Enter runs
  another pipeline with the params of the recorded one; and a comparison whose results pipeline is gone
  takes the one that is left without asking (`app.py:643`).
- Comparison: rows without a component, of a variable both sides report with components, are neither
  compared nor counted in the coverage. A table that names a component twice in an hour has both its
  rows compared with the one row of the other side; nothing refuses it (`NamesTwice`).
- The lap through Sienna: going there reads only the generators' `p_max_pu` series for the clock and
  takes sixty minutes where there is none (`pypsa_to_sienna_map_components.py:312`,
  `sienna_time_series.py:54`), so a network whose other series are finer comes back slower, against
  translation-from-pypsa-to-sienna.md:276; `DispatchSurvivesTheLap` names that case
  (`ReadsTheSameClock`). A hydro unit's unstated `p_min_pu` is read as 0 (`_hydro.py:135`) where PyPSA's
  default is -1, and comes back as a unit that does not pump (`ReadsNoPumping`). The `marginal_cost` of
  a link is written nowhere and reported by nobody (`_links.py:185`), where
  translation-from-pypsa-to-sienna.md:1331 keeps it (`LosesItsPrice`). An angle limit of one side gives
  way to the default, with a report. Coming back, `p_nom_min` is made of the base power and the
  sidecar's `p_nom_min` is not looked at (`sienna_to_pypsa/map_generators.py:341`, `:556`,
  `map_storage_units.py:390`), against translation-from-plexos-to-pypsa.md:276 and :688.
- The hub: `b` is written as zero, with a note that PLEXOS states no shunt susceptance, where
  `Susceptance` is stated too (`_transmission.py:69`, `:274`), and
  translation-from-plexos-to-sienna.md:200 derives it (`LosesItsSusceptance`); the document has the
  `Wheeling Charge` of a link dropped (`:220`), and the code carries it in the sidecar. Against the
  direct reading, a committed generator that becomes a renewable one loses `committable`, ramps, times
  and start cost, and a link its positive Min Flow, without an event; the direct route does not look
  whether a generator's node is a bus; and it lets a minimum fall with the availability series where the
  hub keeps it, so static rows alone are compared.
- PyPSA to Sienna: a line at a non-AC bus makes the sink raise; a user's generator of the shedding
  carrier at a priced bus is taken for a shedding plant.
- Sienna to PyPSA: metadata rows are dropped by the names of series and component over all types
  (`pypsa_time_series.py:186`), so where a load and a generator share a name and one is off the window
  both lose their profiles and one of them in silence, against the docstring of
  `drop_profiles_off_the_window` (`:150`) and translation-from-sienna-to-pypsa.md:565;
  `NothingIsLostInSilence` is about documents whose mapped components have names of their own
  (`DocumentsAssumption`); the snapshots are those of the first profile left, and the sink raises when
  that one is longer than the window; a line that can move power backwards alone becomes a link without
  capacity (`map_transmission.py:188`). A hydro plant with a `hydro_budget` and an inflow of its own
  beside the sidecar has the two multiplied in one column of `inflow` (`emit_pypsa_network.py:401`,
  `:420`), a rule meant for derates: `ColumnsAreTheStoredMegawatts` leaves such a column out
  (`IsCompounded`).
- Sienna to PowerSimulations: a row in component base is divided by its base power once more
  (`map_components.py:286` never looks at the basis; the PyPSA leg skips such a row with an event); a
  hydro series is staged in its base power while other values are read in the maximum limit; the sidecar
  is replaced before the document is known to be writable (`emit_power_simulations_files.py:44`);
  profiles that do not share a window are stored as they are.
- PLEXOS staging: rows compete by a key that has no `date_to` (`stage_plexos_xml.py:165`), so an entry
  that states only when it ends displaces the base value, which does not come back, and of two that open
  together one is gone, where translation-from-plexos-to-pypsa.md:612 has two entries be the same only
  with one time scope; ties of Read Order go to the later row (`:563`), not by name (`:626` of the
  document). Both are `IsContested`, and the properties about rows, readings and files say nothing of
  what it names. Timeslice tags are not read, so an entry with no other scope is a base value (`:743`
  there). The steps of a property are lost where another object of the class reads a Data File for it
  (`plexos_dated_properties.py:186`). Where entries of a property have different files or shares, the
  whole series is made with the file and the share of the one that opens first
  (`plexos_dated_properties.py:124`), and one that opens first without a file has the files of the later
  ones ignored, where translation-from-plexos-to-pypsa.md:658 has the share be of the entry;
  `FileSeriesAreTheOwnersShares` speaks of the snapshots at which the entry in force agrees with the
  first (`ReadsAsTheFirst`).
- PLEXOS to Sienna: the translator divides a profile by the capacity it is rated at
  (`_generators.py:399`), where translation-from-plexos-to-sienna.md:252 has it divide by its peak; the
  two agree where the profile peaks there, and the property states the documented form for that case
  (`PeaksAtTheCapacity`). Derates do not multiply as `:450` of the document says in four cases
  (`SharesADerate`): the limit of a thermal generator with a `Rating` profile holds the outage derate
  and the scaling factor of its association holds it again (`_generators.py:756`,
  `HoldsTheOutageTwice`); a plant with a profile loses the units out and the dated capacity staged by
  `_availability.py` (`LosesADerateInSeries`); a renewable that follows its units out alone has its
  static derates in no capacity (`LosesItsStaticDerate`); an outage of the whole plant stores the
  profile unscaled (`IsScaledByNothing`). Moreover carriers mapped to a type the step does not write are
  left out without an event; the profile of a namesake of another class goes with the one off the window
  (`_window.py:63`); an ambiguous region is reported twice; two turbines at one head storage each take
  its whole inflow.
- OSeMOSYS: with a wildcard beside named regions a mirrored pair may be left without a value, against
  the docstring of `build_region_pairs` (`tz_values.py:77`): `{"r1": {"*": 5}, "r2": {"r2": 7}}` states
  nothing for (r2, r1). `StatedValuesAreLookedUp` names the case it leaves out (`NamesItsPairs`).
  Removing the last key column by a sum or a mean turns an empty table into one row, where the default
  would hold by `canonical-format.md:666`, and two such tables overlap; `ValuesKeepTheirMeaning` leaves
  out such parameters (`IsCombinedFromNothing`). The TZ demand split joins keys before their cells are
  stripped, so a member written with a space misses its profile; the otoole source drops unreadable rows
  before the first row of a key is kept, the TZ source after. A mapping row whose tables have different
  defaults, or overlap, still claims its parameter, so the automatic match stays overridden, and
  overlaps are looked for before absent members are left out. `docs/tutorials/osemosys-mappings.md:379`
  says the translator defaults applied are always none; `metadata.py` records some.
- Investments: a candidate the portfolio refuses (a life below one, no hours) stays in the base system
  as capacity to dispatch, though nothing of it runs; an unbuilt hydro turbine stays there too, with
  neither a technology nor an event. A dropped battery is reported as a generator record
  (`sienna_investments_map_technologies.py:414`). A constraint's members are matched by name alone: a
  component's class is the one the constraints name it with (`:488`), so the test by class of
  `_carbon_caps.py:142` cannot fail.

Hazards beyond the list of `PROJECT.json`, which holds the forty that matter most: `planning.py:140`,
`:181` and `:291`, `translate.py:74`, `solve_network.py:68` and `:73`, `pipeline_catalog.py:66`,
`extensions_sidecar.py:121` (the document is written before its companions), `extensions.py:560`,
`app.py:876`, `emit_sienna_system_json.py:239`, `plexos_dated_properties.py:186`, `_window.py:63`,
`_generators.py:586` of PLEXOS, `highs_network_solver.py:192`, `solve_network.py:126`,
`translate.py:199`, `emit_power_simulations_files.py:44`.

## Proofs

`tlapm M.tla` proves every obligation of the eight proof modules, for all values of the constants
that satisfy the named assumptions. Action properties, invariants and the refinement are proved of
`Spec` (`PsSpec` for the legs that read Sienna).

### `TranslateRunProofs`

Assumed: a document composes at least one leg and overrides are of the three lists there are
(`DocumentsAssumption`), the reports are a sequence, and what planning assumes of manifests. Nothing
is assumed of params, plugins or files. What is proved of plans comes from `PlanTranslationProofs`, as an
instance over the run's planner (`Plans`), whose assumptions are shown to hold here (`PlansAssumptions`).
The invariants are proved in layers, each inductive together with the ones above it:

- `TypeInv`: the types, and that a leg stage has a leg to run. It rests on the planner: each
  of its rules rewrites legs in place and none is added or dropped (`PlannerKeepsLegs`).
- `Unwinding`: where a run can be with an exception on its way out. `FailureIsFinal` follows
  step by step, since no other action is enabled there; it is stated as a theorem and no longer
  as a run.
- `Acceptance`: where an input is still being examined nothing of its leg is published, and
  where sinks run nothing found is critical. `OutputsOnlyFromAcceptedInput` alone is not
  inductive, because it does not say which leg a critical finding is of.
- `Reporting`: a finding is of the leg at hand or already in `errors`, which is why a report
  rendered from both holds everything.
- `Temporaries`: only the leg at hand has a staging directory, and any file off the boundary
  means the scratch root is there to be removed.
- `DecisionsKept`: no event is recorded once the first decisions report is written.
- `Handing`: once a plan is held its hand-offs are routed (from `PlanTranslationProofs`), a file in a
  hand-off directory was written by the leg the plan says writes there, and what a source has read
  was so. A leg's source reads the directory of the leg before it, no two legs write into one
  directory, and no leg runs twice: hence `LegsReadWhatTheyAreHanded`.

The refinement `ImplementsContract` maps a run to `ChainContract`: `Init` to its initial states, and
each action, under the invariants above, to one of its steps or a stutter (`RunsKeepTheContract`).

Theorems: `TypeCorrect` (stated by no run), `FailuresUnwind`, `OutputsAreFromAcceptedInput`,
`EveryFindingIsReported`, `NothingTemporaryIsLeft`, `EveryDecisionIsReported`, `LegsReadTheirHandoffs`,
`RunsKeepTheContract`.

### `PlanTranslationProofs`

Assumed: the project's directory is no hand-off directory (`BoundaryAssumption`), a manifest is what
the YAML schema reads (`ManifestsAssumption`), a request composes at least one leg
(`RequestsAssumption`). Legs, params, references and overrides are any. First comes, of the
operators, what each rewrite of a plan keeps: overlays, run overrides and resolved references leave
the legs, their ends and the lists of their nodes as they were (`SameRoutes`, `SameShape`), and routing
gives each leg a directory of its own. The invariant, `Progress`, says which rewrite of
the written legs the planner holds and which rules have let it pass; a finished plan is the
whole composition of rewrites, and what it promises follows from the lemmas. The
third theorem needs, besides, that a leg addressed by its pipeline is the one leg of that pipeline,
which the property states, and that resolving a reference looks at the specs the overrides have
already changed.

Theorems: `TypeCorrect`, `HandoffsAreRouted`, `ConsumersAreGivenWhatIsProduced`. With them every
property of `PlanTranslation.cfg` is proved.

### `CompareResultsProofs`

Assumed: nothing of the tables. The lemmas go grain by grain: a difference by component is of two
rows that join, so two that share the row of one side are of two rows of the other which join it, and
those name its component twice (`ComponentDiffsAreApart`); the groups of a sum share no row
(`CategoryDiffsAreApart`); and a variable has one grain (`GrainsAreApart`). `SidesRunInOrder` is what the type invariant lacks to be
inductive: a side runs only once the sides are known to differ, and the second after the first.

Theorems: `TypeCorrect`, `ValuesAreComparedOnce`.

### `InteractiveShellProofs`

Any number of sessions, beside each other or not, over any project that changes under them. Assumed:

- the limit of the history is at least one (`LimitAssumption`, the code's is a constant);
- a typed value in its normal form is normal (`NormalAssumption`: a path is expanded once, a number
  written as a float is one);
- nothing a user types or chooses is the mark of an answer left out (`AnswersAssumption`: the shell takes
  an empty param for none);
- a project offers finitely many pipelines, each with a sequence of params, and no node of one is named
  like a side of a comparison (`ProjectAssumption`: nodes are `source`, `step[i]` and `sink[i]`).

`HistoryIsTheLastDialogs` speaks of the file; `Remembering` adds what
an open session holds in memory, which is what it will write: the last entries of all that were
ever written, and while it is writing those with the new one (`RemembersTheLog`), as long as no session was started
beside another.

`AReplayRepeatsTheRun` speaks of a dialog that has called its use case; `Faithful` says of every dialog, every history
in memory and the file what makes it so:

- `AnsweredSoFar`: the answers are those of the questions asked, every question but a param has one, what is answered
  can be shown (`Shows`), and the pipelines answered are of some project.
- `Past`: an entry that is recorded, whoever holds it, is of a dialog nobody is asking any more; if that dialog called its use case,
  its answers are complete and the call is what they make (`Called`). The file is shared by sessions that overwrite each other, so
  this has to be said of every entry and not of the log.
- `Agree`, of a replay accepted so far: each answer is the recorded one; a param the record left out is
  left out or has what the pipeline says of it.

A question is asked because of answers given before it, and what it shows depends on them. So the proof needs of each
command's list of questions that an answer leaves it as it was up to the question it answers (`QuestionsStay`), and
that decisive answers which agree bring the same questions (`FewerQuestions`, `SameQuestions`). Then
a question whose recorded answer is not gone shows it (`TheRecordedIsShown`), one without is a param
(`TheUnrecordedIsOfThePipeline`), and a call made of agreeing answers is the call that was made (`ACallRepeats`).
The property leaves out one case, `IsGone`: a recorded selection that is no longer a choice cannot be shown, so a
dialog in which Enter took another choice does not count as accepted. Everything else a question shows is the recorded answer.

Theorems: `HistoryIsTheLog`, `ReplaysRepeatTheRun`. With them both invariants of `InteractiveShell.cfg` are proved.

### `FromSiennaProofs`

Assumed of a document (`SiennaToPypsa.DocumentsAssumption`), and why:

- the rows are finitely many, and a row refers as the schema of its type says;
- ids are their own within a type, and names among the components that are mapped: reports, staged
  series and PyPSA's tables tell components apart by name alone, and nothing in the leg looks for two
  of one name (the findings say what happens to namesakes);
- one series of a name for each component: ensembles and several resolutions are left out of the model;
- power and stored values are whole megawatts, as in the model throughout, and no type has the
  owner's name the reader stages companion columns under (`companion_series.py:28`).

The invariants, each inductive together with those it is named with:

- `Closing`: what is kept holds every closed part of the valid rows, so when a pass finds nothing
  dangling it is their union, however long the chains of references are.
- `Fates`, that is `Leaving` (a row is left out just if it is not kept) and `Sorting` (a class is in its
  table, one row for each component read, and in the skip events once its part is past, and no sooner).
- `Keeping` adds `Building`: the tables of the PowerSimulations leg are the components of the kept rows
  with the UUIDs they were given, and a row whose class is refused is why the run failed. UUIDs
  are told apart and every reference is assigned one because no kept row dangles (`Closing`).
- `Keepings` adds `Staging` (until the companion's columns join it, what is staged is each convertible
  series kept, per unit of its owner's capacity, under its type and name, and nothing else) and `Storing`
  (the sidecar holds each of them under its owner's UUID).
- `Columns`, that is `Fates`, `Staging`, `Pointing` and `Tabling`. `Pointing`: a metadata row points a written
  component at a staged series of its type, with the scale of that component; a staged series of a component that
  is mapped is pointed at or is reported off the window, and not both. The step that drops profiles
  is the hard one: it drops by the names of series and component, and leaves no other's because a
  name is one component's. `Tabling`: generators are the rows they were mapped to, the series left out are those not
  staged, and what is written is what tables and metadata say at that point.

That dividing by a capacity and multiplying by it gives back the megawatts is arithmetic
(`CapacitiesCancel`); that the attribute divided by in the source and the one multiplied by in the
mapping are one, type by type, is what the two theorems about megawatts show.

Theorems: `TheLargestClosedPartIsKept`, `ComponentsHaveOneFate` (half of the last), `TheKeptPartIsTheSystem`,
`TheSidecarHoldsTheMegawatts`, `ColumnsHoldTheMegawatts`, `NothingIsLost`. With them every property of
`FromSienna.cfg` is proved.

### `SolveNetworksProofs`

Assumed: days, months and years that end no earlier than they begin, networks of snapshots
within the calendar, requests over networks each listed once (a directory lists a file once).
Snapshots need be neither sorted nor distinct. One inductive invariant, `IInv`, carries all:

- `WindowsPartition` says of the windows cut so far that every day before the cursor is in one
  of them and that they are apart, pairwise. `WindowsTileTheRange` relates neighbours only,
  from which the rest would follow by induction over the windows; stated for pairs it is
  preserved by appending one window.
- `WindowsAreVisited`: a window passed over had no snapshot, so nothing is missed by it.
- From those, a snapshot of an earlier window is neither reported nor solved by this one
  (`DoneWindowsAreBehind`), which is what keeps counts at one and results undisturbed.
- `OutcomesKeepUp` ties the outcomes to the position in the ensemble, and
  `OptimalOutcomesAreSolved` says of each optimal outcome that its file holds the whole range;
  a later network writes another file because networks of an ensemble have different names.

Theorems: `TypeCorrect`, `WindowsTile`, `HoursAreReportedOnce`, `HoursAreCostedOnce`,
`HoursKeepTheirWindow`, `LookAheadsAreDiscarded`, `NetworksHaveOutcomes`, `OptimalIsSolved`.
With them every invariant of `SolveNetworks.cfg` is proved; the types, `WindowsTileTheRange`,
`NothingOfALookAheadSurvives` and `EveryNetworkHasAnOutcome` are theorems only, and no run repeats them.

### `PypsaToSiennaProofs`

**The leg.** Assumed of a network (`NetworksAssumption`, `SeriesAssumption`, `OneAssumption`, `NullAssumption`), and why:

- its tables are sequences of rows, one for each class: what the source stages;
- one that has no bus has no line and no link. Without a table of buses the validator of bus references
  returns before it looks (`bus_reference_integrity.py:77`) and the parts of the branches return
  before they map (`pypsa_to_sienna_map_components.py:471`), so branches alone would be left out and no
  event would say so. That network is outside the theorem, not outside the code;
- capacities, efficiencies and demands are numbers, `p_nom_opt` a number or null, and so are the values of
  the series the leg reads, which have one snapshot at least: the types of the frames the source stages;
- a `p_max_pu` that peaks at zero is zero throughout (`ZeroPeaksAreFlat`). The code takes this to be so: it divides
  such a profile by 1.0 "to keep the stored zeros" (`_generators.py:211`, `_renewables.py:198`), where a demand
  below zero that peaks at zero is reported and left out (`IsUnscalable`). A generator
  whose profile fell below zero and peaked at zero would be rated at zero and store zeros: no validator
  refuses it, and the theorem does not speak of it;
- a per-unit value of 1.0 is a positive number (`One`), the null no reason a rule gives.

The numbers and the peaks are of use to `StoredSeriesAreTheSourceMegawatts` alone. Nothing is assumed of the carrier mapping,
of prices, or of the size or sign of a capacity. That names are told apart is not assumed either: the validator of names stops a network of which it is not so (`ValidatedNetwork`).

`EveryComponentHasOneFate` speaks of a mapped network. The inductive invariant, `Fated`, says the same of every
step of the way, component by component:

- `SettledClass`: a component its part has not come to (`Undecided`) has no row and no event, any other has one of
  them once. A class of plants is decided in several steps: those its table's scope rules drop go when the
  table is read, the others when the mapping of their type runs; an unmapped carrier is in scope of none, so one of
  the rules must have dropped it (`RulesOfAScope`).
- `Scoped`: what is in scope while the mappings of a class run are rows of its table, each of a type of
  that class. The filter by carrier that begins each mapping reports nothing; that it loses nothing is this,
  and that a type is mapped once.
- `Layout`: where the leg is, names told apart past the validators, and no table written before its part, nor
  written again, from which it follows that a row is not there twice.

The parts differ in rules and in types but not in this, so the argument is made once: a table divided by rules is kept
rows and events that share out its names (`KeptOrSkipped`); parts that write some types of a class
leave it settled (`ATreatedClass`) and the other classes as they were (`OtherClasses`); then each part is an
instance. Loads are the part that writes two tables and reports, beside the drops, series it leaves
out, which are events of another class (`LoadsAreMapped`). The model chooses rows of a table by their
places (`Selected`) and not with `SelectSeq`, whose recursive definition the provers cannot open.

`ReferencesReachTheirNamesakes` speaks of a resolved document. `Sourced` is what every step keeps for it:

- `Identified`: the ids in all the tables together are as many as their rows, from 1, and no two are the same. Each
  part counts on from the heights of the tables it finds, so this is an induction over the
  parts (`IdsGoOn`, `ATableIsAdded`); the loads count on twice in one step (`TwoTablesGoOn`).
- `Original`: a row of a table says its name and where it is of a row of its class in the network. With names
  told apart (`Layout`), the row a name leads back to is that one.
- `Derived`: areas and arcs are each written once, by their own part.
- `Resolved`: what the sink has written is made of the tables as they are, with every name of which it has found
  a row and every branch an arc; otherwise it has failed and written nothing.

Components then go with places of the tables one to one (`ComponentsHavePlaces`), an id leads to one component
(`RowsAreFound`) and a name to the component of that type and name (`NamesAreFound`).

`StoredSeriesAreTheSourceMegawatts` speaks of a written document: of what three modules wrote at three steps, a
capacity, a divisor and an array. `Stored` is what every step keeps for it, beside the other two:

- `Stands`: a row of the association table leads to a row of a component table, and that to the row of the network
  that both were made of, and the capacity of the one and the scale of the other are in one of four
  relations: a load by the peak of its demand, a plant by the peak of its availability and its capacity, hydro's
  ceiling by its capacity and its budget by capacity and efficiency. The relation speaks of the series as
  they are, so a part that derives one must leave the others alone (`StagedSeriesStay`, `StandingIsKept`).
- `ToldApart`: no two of the rows are of one series of one component. Tables have ids apart (`Identified`), hydro's
  two series have two names, and each part associates components of tables it has just written.
- `Covered`: a row whose series varies has an association, or an event says that its series is left out.
- `Numeric`: numbers stay numbers, with the shedding generators added and with the ceilings derived.
- `AsWritten`: the arrays written are those of the associations, one by one.

The scaling is then four lemmas of arithmetic (`ALoadIsScaledBack`, `APlantIsScaledBack`, `AHydroCeilingIsScaledBack`,
`ABudgetIsScaledBack`), with a peak of zero a case of the first two. That a profile has a peak at all, no
value above it, is proved of every finite set of whole numbers by well-founded induction on the set of what
is above each (`FiniteSetsPeak`), as the library's own induction is beyond the provers.

Theorems: `ComponentsHaveOneFate`, `ReferencesAreReached`, `SeriesAreTheSource`.

**The sidecar.** Assumed (`ChainsAssumption`): only a step with a reader reads; within a hop a kind is made or
relayed by one step at most; a source states nothing a step of its hop makes again. Chains may
have any length and steps any other reading and relaying, shipped or not. `IInv` consists of

- `RecordsHaveAges`: what is staged is of an earlier hop or stated by this one's source, and
  what is reported is of earlier hops while steps run. Without it a record made anew could not
  be told from one dropped before.
- `FilesAgree`: the last sidecar written is what its hop set aside, so a hop stages exactly
  what the one before carried.
- `ConsumptionIsExact`: a staged record's subject is consumed exactly when the record was read
  or relayed. The report goes by subjects, the properties speak of records; this is the bridge.
- `AccountedSoFar`: `EveryRecordIsAccountedFor` at every point, with what is staged counted while
  the steps run.
- `CarriedByAStep` and `SeriesKeepUp`: what is set aside is of a kind an earlier step owns, so
  no later step replaces that kind's series, and the series of each varying record are staged,
  set aside, waiting to be written or beside the sidecar.

Theorems: `TypeCorrect`, `DropsAreFinal` (both stated by no run), `RecordsAreAccountedFor`,
`SeriesTravel`.

### `PlexosStagingProofs`

Assumed of an export (`ExportAssumption`, `TimeAssumption`, `UnitAssumption`), and why:

- ids of memberships are their own, and an object is in a collection once: keys of the export's tables;
- dates are after the first moment the calendar has and a `date_to` is a whole day, as
  `DateBand.ends` takes it; values are whole numbers or missing, as in the model throughout;
- where one entry of a property has dates, every entry of it states a number: a series is of numbers, and
  the `value` column of `t_data` holds one;
- two rows of one object, under one class and property name, that are dated or tagged to a file are
  of one membership and band: series are staged by class, object and property (`SeriesKey`), so two would
  share one. The case is left out of the theorems, not of the code;
- a file that is there has finitely many rows, of numbers, and one row at a moment for an object and
  a replication, as the reader of each layout makes them; a text names a file there may be, present
  or not, and no object is nameless.

A model may have any horizon or none, any Scenarios with any read orders (ties included), any number of rows
of one property, and entries that overlap, leave gaps or cover nothing. The invariants, each inductive with
those before it:

- `Resolution`. While the rows of `t_data` are read one by one, the row that stands for each kind of entry is
  one no row read so far beats (`WinnersSoFar`). The rule is a comparison of two rows, by their Scenarios'
  order and then by position; that what is left after all pairwise comparisons is the one row that beats all
  others needs the relation to be total and transitive (`OutranksIsStronger`), and the last row of a tie to
  be the one written last. Afterwards what stands is staged or recorded, and which depends
  on its membership alone.
- `Timing`: the window and the snapshots are numbers, and every snapshot is in the window.
- `Windowed`: a property is what its entries read as when the window opens, and one whose reading changes inside it
  has a step for each moment an entry opens or ends. Nothing changes between two of those moments
  (`NothingChangesBetween`), so what the last step before a moment states holds at that moment.
- `Stepwise`: the series staged from steps are those reconciled onto the snapshots, where no Data File gives one.
- `NamedFiles`: a path found for a Data File or a Variable is one the export may hold, so what an entry
  reads is known, and its scaling is a number (`FileOfAnEntry`).
- `FilesRead`: while files are read, in any order, the rows under a class and property are those the
  files read so far give it, no more and no fewer, and a file that gave one nothing is warned of.

Then a reading is of the entry that opened last of those that cover the day, however entries
overlap (`ReadAsStated`), which is the entry in force where no two rows contend (`InForceOpensLast`, `StatedAsOpened`),
and the series that carries it forward to each snapshot holds the value of that
entry (`ReconciledRows`, `ValueAtASnapshot`).

For the Data Files: two readers of one object, under one class and property, are one
(`ReadersAreAlone`), so among the rows of all files those of an object are its trace times its share, and
nobody else's (`RowsOfReaders`). Cutting them to the window keeps, for each object and replication, what
the snapshots read (`KeptIsFilledAlike`, `ReconciledPair`), and filling forward and then back takes at each snapshot
the row the property names (`FilledByARow`), whose share is the share of the row (`MultipleIsFilled`). An object without a
series has no row in its file (`NothingIsHeld`), and no step stands in for it (`ReadersHaveNoSteps`). The
share in the row is that of the entry that opens first (`FirstRowIsFirst`), and the property speaks of the snapshots at
which the entry in force has the same (`ReadsAsTheFirst`).

What the entries are is stated apart from the code that picks them: two rows are one entry if they have the same dates,
both of them (`SameEntry`), one stands if no row of its entry displaces it (`Stands`), and of those that cover a
moment one with a time scope is in force before the base value, which is before zero (`InForce`, `Stated`). The rule of
the code is a key without the end and the latest opening; the theorems show that the two come to the same wherever no
two rows of one start and different ends, and no tie of Read Order, contend (`IsContested`, `HasContest`).

Theorems: `RowsAreResolved` (stated by no run), `RowsHaveOneFate`, `PropertiesReadTheEntryInForce`,
`FilesAreSharedOut`.

### Only model-checked

`ATableAgreesWithItsTotals` is about sums over sets of rows, which would need induction over the data.
The type invariant of the legs that read Sienna compares the null with
records, which the prover's logic leaves open. OSeMOSYS, the laps and the hub use recursive
operators. Of `PlexosToSienna` and the portfolio nothing is proved yet.

## What is not modelled, and why

- Within the machines of the translations: costs, ramps, commitment, voltages and impedances, which
  the laps and the hub alone hold; reserves, constraints, lifespans and build costs (beyond whether there is
  one), values carried from a column to a column and covered by the repository's own tests; ensembles run a leg once for each sample. The layouts of PLEXOS CSV
  files are taken as parsed.
- OSeMOSYS: how the config and the mappings are parsed and their patterns matched, units, the schema
  version, the parquet files, and the legs out of the canonical stage. Numbers are integers.
- The other translations (the portfolio from PyPSA, results) and the validators of PLEXOS.
  PLEXOS to PyPSA is modelled for one object at a time, as a reading to compare the hub with; the plants
  `_generators_with_a_series` finds are given.
- YAML, params schemas and the search for a manifest on disk: a malformed manifest is a document
  that is refused.
- URLs, archives, streams and `copy_tree`; the HTTP filesystem.
- The Julia solver: provisioning is I/O, and one solve is one subprocess call.
- Files left by an earlier run in the output directory; crashes of the interpreter itself. The
  program keeps no state that a restart recovers.
- The fields of extension records: a record read in part counts as read. `record_for`, which
  reads past the consumption record, serves no translation. A sink that fails between a sidecar
  and its companions ends the chain.
- Prompts, wording, logging, the lints.

## Plan

In this order; the first seven, half of the eighth and the stage of the ninth are done.

1. `CompositionPlan`, `PlanTranslation`: everything else runs a plan.
2. `TranslateRun` over it, `ChainContract` as its abstract specification, and its proofs.
3. `SolveNetworks` and its proofs: the other long-running operation.
4. `ExtensionSidecar` and its proofs (now in `PypsaToSiennaProofs`).
5. `InteractiveShell`, `CompareResults`.
6. The two legs between PyPSA and Sienna, in both directions.
7. `PlexosStaging`, and `PlexosToSienna` over what it stages; `SiennaToPowerSimulations` beside
   `SiennaToPypsa`.
8. `Portfolio` and `PlexosToSiennaInvestments`; then the portfolio from PyPSA over `PypsaToSienna`.
9. `OsemosysCanonical` over `OtooleFiles` and `TzModel`; then the legs that read it, and results.
10. `ValidateRun`, `PipelineCatalog`, `Discovery`: small and sequential.
11. Proofs. Done: the planner, `LegsReadWhatTheyAreHanded` and `ImplementsContract` over it, the
    comparison's joins, the history and its replays, the legs that read Sienna, the leg that writes it
    (one fate for each component, references, megawatts), the rows of PLEXOS staging, the entries in
    force and the series of its Data Files. Next:
    `NothingIsLostInSilence` of `PlexosToSienna`, over what staging is proved to hold.
