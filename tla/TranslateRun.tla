----------------------------- MODULE TranslateRun -----------------------------
(***************************************************************************)
(* One translate run (interop/core/use_cases/translate.py) over the legs   *)
(* that PlanTranslation plans, each leg run by run_pipeline                *)
(* (interop/core/runner.py).                                               *)
(*                                                                         *)
(* The program is sequential.  What makes it hard is that any call of a    *)
(* plugin may raise, at any point, with directories staged, findings       *)
(* collected and files half written, and that three `finally` blocks       *)
(* (staging, decisions report, scratch) and one more around the validators *)
(* decide what is left.  `stage` is the call the run is in, `raised` the   *)
(* exception on its way out of it.                                         *)
(***************************************************************************)
EXTENDS CompositionPlan

CONSTANTS
  Requests,              (* what translate is called with                          *)
  UserFiles,             (* paths on the configured filesystem before the run      *)
  AbsolutePaths,         (* paths LocalFilesystem does not resolve under its root  *)
  UserMappingsPath,      (* the user's own mappings file                           *)
  ValidationReportPath,
  ReportPaths,           (* the decisions reports, in the order MultiReport renders *)
  Consumes,              (* node -> the user-mappings schemas it is built with     *)
  Produces               (* sink -> [schema, param], for sinks that derive a file  *)

Severities == {"CRITICAL", "WARNING"}

ReportFiles == {ValidationReportPath} \union {ReportPaths[i] : i \in DOMAIN ReportPaths}

ASSUME DocumentsAssumption ==
  \A r \in Requests :
    IsDocument(r.document) /\ AreOverrides(r.overrides) /\ r.keep_staging \in BOOLEAN

ASSUME ReportsAssumption == IsSequence(ReportPaths)

VARIABLES
  request,      (* the call; never changes                                     *)
  stage,        (* where in the run, see Stages                                *)
  raised,       (* the failure being propagated, or "nothing"                  *)
  planning,     (* the rule the planner reads next                             *)
  broken,       (* the rule the call's plan broke, or "nothing"                *)
  plan,         (* plan.in_run_order, once planned                             *)
  leg,          (* position of the leg being run, 0 before the first and one    *)
                (* more than there are legs after the last                      *)
  node,         (* position of the validator, step or sink run next            *)
  disk,         (* files: [place, path, by], by the leg that wrote it, 0 user   *)
  writes,       (* run.writes: [place, path, handoff]                          *)
  found,        (* every finding: [leg, by, severity]; by 0 is the source      *)
  crashes,      (* validators of this leg that raised                          *)
  errors,       (* run.errors: the findings of the legs that returned          *)
  report,       (* the validation report: [written, findings]                  *)
  mappings,     (* run.mappings: schema -> the derived file's location         *)
  loaded,       (* mappings files read: [leg, schema, place, path, by]         *)
  got,          (* input files read by sources: [leg, place, path, by]         *)
  staging,      (* legs whose staging directory exists                         *)
  scratch,      (* the run's scratch root: absent, present or discarded        *)
  events,       (* run.event_log: [leg, node]; node 0 is the source            *)
  rendered,     (* how many decisions reports are written                      *)
  decisions     (* the events those reports hold                               *)

callVars     == <<request, planning, broken, plan>>
fileVars     == <<disk, writes>>
findingVars  == <<found, crashes, errors, report>>
mappingVars  == <<mappings, loaded>>
tempVars     == <<staging, scratch>>
eventVars    == <<events, rendered, decisions>>
vars == <<callVars, stage, raised, leg, node, fileVars, findingVars, mappingVars, got,
          tempVars, eventVars>>

Planner == INSTANCE PlanTranslation WITH stage <- planning, legs <- plan, rejected <- broken

Stages ==
  {"document",   \* next: StartRun or RefuseDocument
   "reporter",   \* next: BuildReporter
   "plan",       \* next: one PlanLegs per rule, then LegsPlanned
   "producers",  \* next: FoldProducedMappings
   "mappings",   \* next: LoadUserMappings, once per leg
   "source",     \* next: BuildSource
   "load",       \* next: LoadSource
   "validate",   \* next: one Validate per validator, then RenderValidationReport
   "reject",     \* next: AcceptInput or RejectUntranslatableInput
   "step",       \* next: one RunStep per step, then ReportUnreadExtensions
   "sink",       \* next: one WriteSink per sink, then LeaveSource
   "leave",      \* next: LeaveSource, with an exception on its way out
   "derive",     \* next: DeriveMappings, then "mappings" of the next leg
   "render",     \* next: one RenderDecisions per report
   "discard",    \* next: DiscardScratch
   "done"}

Failures ==
  {"document", "reporter", "plan", "producers", "mappings", "source", "validator", "report",
   "crashed", "rejected", "step", "sink", "derive", "decisions"}

\* The stages a leg goes through, with TheLeg the leg.
LegStages ==
  {"mappings", "source", "load", "validate", "reject", "step", "sink", "leave", "derive"}

TheLeg  == plan[leg]
TheSpec == plan[leg].spec

Continue(next)        == stage' = next /\ UNCHANGED raised
Raise(failure, next)  == stage' = next /\ raised' = failure

(* ------------------------------ filesystems ----------------------------- *)

\* One filesystem for the whole run, whatever hand-off a leg was given.
LocateInTheProject(place, path) == [place |-> Boundary, path |-> path]

\* An absolute path bypasses the root a hand-off's filesystem was given.
Locate(place, path) ==
  [place |-> IF path \in AbsolutePaths THEN Boundary ELSE place, path |-> path]

\* The path-valued params of a node, which its plugin reads (a source) or writes (a sink).
Locations(place, spec_node) ==
  {Locate(place, spec_node.params[p].path) :
     p \in {q \in DOMAIN spec_node.params : spec_node.params[q].kind = "path"}}

FilesAt(location) == {f \in disk : f.place = location.place /\ f.path = location.path}

Exists(location) == FilesAt(location) # {}

\* The disk once leg `by` has opened the locations for writing.
Overwritten(locations, by) ==
  {f \in disk : [place |-> f.place, path |-> f.path] \notin locations}
    \union {[place |-> l.place, path |-> l.path, by |-> by] : l \in locations}

\* What the write tracker of a filesystem reports: hand-off writes are marked apart.
Tracked(locations, handoff) ==
  {[place |-> l.place, path |-> l.path, handoff |-> handoff] : l \in locations}

(* ----------------------------- user mappings ---------------------------- *)

\* collect_schemas_for_translate: the source, the validators and the steps.
ConsumedBy(spec) ==
  UNION {Consumes[n.name] :
           n \in {spec.source} \union {spec.validators[i] : i \in DOMAIN spec.validators}
                               \union {spec.steps[i] : i \in DOMAIN spec.steps}}

\* The sinks of the plan that derive a mappings file.
Producers(legs) ==
  {p \in UNION {{<<i, s>> : s \in DOMAIN legs[i].spec.sinks} : i \in DOMAIN legs} :
     legs[p[1]].spec.sinks[p[2]].name \in DOMAIN Produces}

Produced(legs, p) == Produces[legs[p[1]].spec.sinks[p[2]].name]

OneProducerEach(legs) ==
  \A p, q \in Producers(legs) : Produced(legs, p).schema = Produced(legs, q).schema => p = q

\* The files this leg derived, in the filesystem that wrote them.
DerivedHere == {p \in Producers(plan) : plan[p[1]].pipeline = TheLeg.pipeline}

CanReadDerived ==
  \A p \in DerivedHere :
    CanReadParam(TheSpec, TheSpec.sinks[p[2]].name, Produced(plan, p).param)

DerivedFiles ==
  [schema \in {Produced(plan, p).schema : p \in DerivedHere} |->
     LET p == CHOOSE q \in DerivedHere : Produced(plan, q).schema = schema
     IN  Locate(TheLeg.writes,
                ReadParam(TheSpec, TheSpec.sinks[p[2]].name, Produced(plan, p).param).path)]

OwnFile == Locate(Boundary, UserMappingsPath)

\* The user's own file for whatever no earlier leg derived.
MappingsFilesFor(spec) ==
  IF request.user_mappings
    THEN Overlay([schema \in ConsumedBy(spec) |-> OwnFile], mappings)
    ELSE mappings

(* ------------------------------ before the legs ------------------------- *)

Init ==
  /\ Planner!Init
  /\ stage = "document" /\ raised = "nothing"
  /\ leg = 0 /\ node = 0
  /\ disk = {[place |-> Boundary, path |-> p, by |-> 0] : p \in UserFiles}
  /\ writes = {}
  /\ found = {} /\ crashes = {} /\ errors = {}
  /\ report = [written |-> FALSE, findings |-> {}]
  /\ mappings = << >> /\ loaded = {} /\ got = {}
  /\ staging = {} /\ scratch = "absent"
  /\ events = {} /\ rendered = 0 /\ decisions = {}

\* load_pipeline_document and validate_frameworks, before anything exists to clean up.
StartRun ==
  /\ stage = "document"
  /\ FrameworksMatch(request)
  /\ Continue("reporter")
  /\ UNCHANGED <<callVars, leg, node, fileVars, findingVars, mappingVars, got, tempVars, eventVars>>

RefuseDocument ==
  /\ stage = "document"
  /\ Raise("document", "done")
  /\ UNCHANGED <<callVars, leg, node, fileVars, findingVars, mappingVars, got, tempVars, eventVars>>

\* Built inside the scratch block and before the try that renders it.
BuildReporter ==
  /\ stage = "reporter"
  /\ \/ Continue("plan")
     \/ Raise("reporter", "discard")
  /\ UNCHANGED <<callVars, leg, node, fileVars, findingVars, mappingVars, got, tempVars, eventVars>>

\* plan_translation, rule by rule, inside the try that renders the decisions report.
PlanLegs ==
  /\ stage = "plan"
  /\ Planner!Step
  /\ UNCHANGED <<stage, raised, leg, node, fileVars, findingVars, mappingVars, got, tempVars, eventVars>>

LegsPlanned ==
  /\ stage = "plan" /\ planning = "planned"
  /\ \/ broken = "nothing" /\ Continue("producers")
     \/ broken # "nothing" /\ Raise("plan", "render")
  /\ UNCHANGED <<callVars, leg, node, fileVars, findingVars, mappingVars, got, tempVars, eventVars>>

\* Two producers of one schema stop the run before any leg runs.
FoldProducedMappings ==
  /\ stage = "producers"
  /\ \/ OneProducerEach(plan) /\ leg' = 1 /\ Continue("mappings")
     \/ ~ OneProducerEach(plan) /\ UNCHANGED leg /\ Raise("producers", "render")
  /\ UNCHANGED <<callVars, node, fileVars, findingVars, mappingVars, got, tempVars, eventVars>>

(* ------------------------------- one leg -------------------------------- *)

\* Every schema the leg's nodes need, each from the file chosen for it.
LoadUserMappings ==
  /\ stage = "mappings"
  /\ LET files == MappingsFilesFor(TheSpec)
     IN  /\ \A schema \in ConsumedBy(TheSpec) :
              schema \in DOMAIN files /\ Exists(files[schema])
         /\ loaded' = loaded \union
              UNION {{[leg |-> leg, schema |-> schema,
                       place |-> f.place, path |-> f.path, by |-> f.by] :
                        f \in FilesAt(files[schema])} : schema \in ConsumedBy(TheSpec)}
  /\ Continue("source")
  /\ UNCHANGED <<callVars, leg, node, fileVars, findingVars, mappings, got, tempVars, eventVars>>

\* A missing, unreadable or invalid file, or a node that is not installed.
UserMappingsFail ==
  /\ stage = "mappings"
  /\ Raise("mappings", "render")
  /\ UNCHANGED <<callVars, leg, node, fileVars, findingVars, mappingVars, got, tempVars, eventVars>>

\* The leg's trackers are made first, and the scratch root with the first hand-off.
BuildSource ==
  /\ stage = "source"
  /\ scratch' = IF {TheLeg.reads, TheLeg.writes} = {Boundary} THEN scratch ELSE "present"
  /\ \/ Continue("load")
     \/ Raise("source", "render")
  /\ UNCHANGED <<callVars, leg, node, fileVars, findingVars, mappingVars, got, staging, eventVars>>

FindingsOf(by, severities) ==
  {[leg |-> leg, by |-> by, severity |-> s] : s \in severities}

\* Staged into a directory of its own, from the leg's end of the hand-off.
LoadSource ==
  /\ stage = "load"
  /\ LET inputs == Locations(TheLeg.reads, TheSpec.source)
     IN  /\ \A l \in inputs : Exists(l)
         /\ got' = got \union
              UNION {{[leg |-> leg, place |-> f.place, path |-> f.path, by |-> f.by] :
                        f \in FilesAt(l)} : l \in inputs}
  /\ \E severities \in SUBSET Severities : found' = found \union FindingsOf(0, severities)
  /\ crashes' = {}
  /\ staging' = staging \union {leg}
  /\ events' = events \union {[leg |-> leg, node |-> 0]}
  /\ node' = 1
  /\ Continue("validate")
  /\ UNCHANGED <<callVars, leg, fileVars, errors, report, mappingVars, scratch,
                 rendered, decisions>>

\* Anything load_into_state raises, with the staging directory already made and perhaps
\* something decided: a source has the leg's recorder.
SourceFails ==
  /\ stage = "load"
  /\ staging' = staging \union {leg}
  /\ \E recorded \in SUBSET {[leg |-> leg, node |-> 0]} : events' = events \union recorded
  /\ Raise("source", "leave")
  /\ UNCHANGED <<callVars, leg, node, fileVars, findingVars, mappingVars, got, scratch,
                 rendered, decisions>>

\* A validator that raises keeps what it found and does not stop those after it.
Validate ==
  /\ stage = "validate" /\ raised = "nothing"
  /\ node <= Len(TheSpec.validators)
  /\ \E severities \in SUBSET Severities : found' = found \union FindingsOf(node, severities)
  /\ \E crashed \in SUBSET {node} : crashes' = crashes \union crashed
  /\ node' = node + 1
  /\ Continue("validate")
  /\ UNCHANGED <<callVars, leg, fileVars, errors, report, mappingVars, got, tempVars, eventVars>>

\* A validator that cannot be built, or an interrupt, leaves the loop at once.
ValidatorsAbort ==
  /\ stage = "validate" /\ raised = "nothing"
  /\ node <= Len(TheSpec.validators)
  /\ Raise("validator", "validate")
  /\ UNCHANGED <<callVars, leg, node, fileVars, findingVars, mappingVars, got, tempVars, eventVars>>

StateErrors == {f \in found : f.leg = leg}

\* Crashes forgotten: the run goes on as if the validators had all run.
AfterReportIgnoringCrashes ==
  Continue(IF raised = "nothing" THEN "reject" ELSE "leave")

\* How the run goes on once the findings are handed over: an abort or a crash unwinds.
AfterReport ==
  IF raised = "nothing" /\ crashes # {} THEN Raise("crashed", "leave")
  ELSE Continue(IF raised = "nothing" THEN "reject" ELSE "leave")

ValidatorsComplete ==
  stage = "validate" /\ (node > Len(TheSpec.validators) \/ raised # "nothing")

\* The report of this leg alone, replacing what the legs before it found.
RenderReportOfThisLegOnly ==
  /\ ValidatorsComplete
  /\ report' = [written |-> TRUE, findings |-> StateErrors]
  /\ disk' = Overwritten({Locate(Boundary, ValidationReportPath)}, leg)
  /\ AfterReport
  /\ UNCHANGED <<callVars, leg, node, writes, found, crashes, errors, mappingVars, got, tempVars, eventVars>>

\* on_validators_complete, in the `finally` of _run_validators.
RenderValidationReport ==
  /\ ValidatorsComplete
  /\ report' = [written |-> TRUE, findings |-> errors \union StateErrors]
  /\ disk' = Overwritten({Locate(Boundary, ValidationReportPath)}, leg)
  /\ AfterReport
  /\ UNCHANGED <<callVars, leg, node, writes, found, crashes, errors, mappingVars, got, tempVars, eventVars>>

ValidationReportFails ==
  /\ ValidatorsComplete
  /\ Raise("report", "leave")
  /\ UNCHANGED <<callVars, leg, node, fileVars, findingVars, mappingVars, got, tempVars, eventVars>>

HasCritical == \E f \in StateErrors : f.severity = "CRITICAL"

AcceptInput ==
  /\ stage = "reject"
  /\ ~ HasCritical
  /\ node' = 1
  /\ Continue("step")
  /\ UNCHANGED <<callVars, leg, fileVars, findingVars, mappingVars, got, tempVars, eventVars>>

RejectUntranslatableInput ==
  /\ stage = "reject"
  /\ HasCritical
  /\ Raise("rejected", "leave")
  /\ UNCHANGED <<callVars, leg, node, fileVars, findingVars, mappingVars, got, tempVars, eventVars>>

\* A step records what it decided; one that raises has recorded what it got to.
RunStep ==
  /\ stage = "step"
  /\ node <= Len(TheSpec.steps)
  /\ \E recorded \in SUBSET {[leg |-> leg, node |-> node]} : events' = events \union recorded
  /\ \/ node' = node + 1 /\ Continue("step")
     \/ UNCHANGED node /\ Raise("step", "leave")
  /\ UNCHANGED <<callVars, leg, fileVars, findingVars, mappingVars, got, tempVars, rendered, decisions>>

\* After the last step: what none of them read is reported through the recorder.
ReportUnreadExtensions ==
  /\ stage = "step"
  /\ node > Len(TheSpec.steps)
  /\ \E recorded \in SUBSET {[leg |-> leg, node |-> node]} : events' = events \union recorded
  /\ node' = 1
  /\ Continue("sink")
  /\ UNCHANGED <<callVars, leg, fileVars, findingVars, mappingVars, got, tempVars, rendered, decisions>>

SinkLocations == Locations(TheLeg.writes, TheSpec.sinks[node])

IsHandoff == TheLeg.writes # Boundary

WriteSink ==
  /\ stage = "sink"
  /\ node <= Len(TheSpec.sinks)
  /\ disk' = Overwritten(SinkLocations, leg)
  /\ writes' = writes \union Tracked(SinkLocations, IsHandoff)
  /\ node' = node + 1
  /\ Continue("sink")
  /\ UNCHANGED <<callVars, leg, findingVars, mappingVars, got, tempVars, eventVars>>

\* A sink that raises leaves the files it opened; the one it was in is not tracked.
SinkFails ==
  /\ stage = "sink"
  /\ node <= Len(TheSpec.sinks)
  /\ \E opened \in SUBSET SinkLocations : \E closed \in SUBSET opened :
       /\ disk' = Overwritten(opened, leg)
       /\ writes' = writes \union Tracked(closed, IsHandoff)
  /\ Raise("sink", "leave")
  /\ UNCHANGED <<callVars, leg, node, findingVars, mappingVars, got, tempVars, eventVars>>

\* The staging directory removed only by a leg that returns.
LeaveSourceWithoutFinally ==
  /\ \/ stage = "sink" /\ node > Len(TheSpec.sinks)
     \/ stage = "leave"
  /\ staging' = IF request.keep_staging \/ raised # "nothing" THEN staging ELSE staging \ {leg}
  /\ Continue(IF raised = "nothing" THEN "derive" ELSE "render")
  /\ UNCHANGED <<callVars, leg, node, fileVars, findingVars, mappingVars, got, scratch, eventVars>>

\* The decisions report rendered after the plan, not in a `finally` around it.
LeaveSourceUnreported ==
  /\ \/ stage = "sink" /\ node > Len(TheSpec.sinks)
     \/ stage = "leave"
  /\ staging' = IF request.keep_staging THEN staging ELSE staging \ {leg}
  /\ Continue(IF raised = "nothing" THEN "derive" ELSE "discard")
  /\ UNCHANGED <<callVars, leg, node, fileVars, findingVars, mappingVars, got, scratch, eventVars>>

\* The source's context manager, left normally or by whatever was raised inside it.
LeaveSource ==
  /\ \/ stage = "sink" /\ node > Len(TheSpec.sinks)
     \/ stage = "leave"
  /\ staging' = IF request.keep_staging THEN staging ELSE staging \ {leg}
  /\ Continue(IF raised = "nothing" THEN "derive" ELSE "render")
  /\ UNCHANGED <<callVars, leg, node, fileVars, findingVars, mappingVars, got, scratch, eventVars>>

\* The loop over the legs ended one too late.
IsLastLegTooLate == leg = Len(plan) + 1

IsLastLeg == leg = Len(plan)

\* The leg has returned: its findings and derived files join the run's.
DeriveMappings ==
  /\ stage = "derive"
  /\ errors' = errors \union StateErrors
  /\ \/ /\ CanReadDerived
        /\ mappings' = Overlay(mappings, DerivedFiles)
        /\ leg' = leg + 1
        /\ Continue(IF IsLastLeg THEN "render" ELSE "mappings")
     \/ /\ ~ CanReadDerived
        /\ Raise("derive", "render")
        /\ UNCHANGED <<mappings, leg>>
  /\ UNCHANGED <<callVars, node, fileVars, found, crashes, report, loaded, got, tempVars, eventVars>>

(* ------------------------------ after the legs -------------------------- *)

\* The `finally` around the plan: every reporter, in turn, gets the whole log.
RenderDecisions ==
  /\ stage = "render"
  /\ rendered < Len(ReportPaths)
  /\ LET file == {Locate(Boundary, ReportPaths[rendered + 1])}
     IN  /\ disk' = Overwritten(file, leg)
         /\ writes' = writes \union Tracked(file, FALSE)
  /\ decisions' = events
  /\ rendered' = rendered + 1
  /\ Continue("render")
  /\ UNCHANGED <<callVars, leg, node, findingVars, mappingVars, got, tempVars, events>>

\* A report that cannot be written replaces whatever was raised, and ends the reporting.
DecisionsFail ==
  /\ stage = "render"
  /\ rendered < Len(ReportPaths)
  /\ Raise("decisions", "discard")
  /\ UNCHANGED <<callVars, leg, node, fileVars, findingVars, mappingVars, got, tempVars, eventVars>>

DecisionsRendered ==
  /\ stage = "render"
  /\ rendered = Len(ReportPaths)
  /\ Continue("discard")
  /\ UNCHANGED <<callVars, leg, node, fileVars, findingVars, mappingVars, got, tempVars, eventVars>>

\* _run_scratch's `finally`: the hand-offs go with their root.
DiscardScratch ==
  /\ stage = "discard"
  /\ IF request.keep_staging \/ scratch = "absent"
       THEN UNCHANGED <<scratch, disk>>
       ELSE scratch' = "discarded" /\ disk' = {f \in disk : f.place = Boundary}
  /\ Continue("done")
  /\ UNCHANGED <<callVars, leg, node, writes, findingVars, mappingVars, got, staging, eventVars>>

Step ==
  \/ StartRun \/ RefuseDocument \/ BuildReporter \/ PlanLegs \/ LegsPlanned
  \/ FoldProducedMappings
  \/ LoadUserMappings \/ UserMappingsFail \/ BuildSource \/ LoadSource \/ SourceFails
  \/ Validate \/ ValidatorsAbort \/ RenderValidationReport \/ ValidationReportFails
  \/ AcceptInput \/ RejectUntranslatableInput
  \/ RunStep \/ ReportUnreadExtensions \/ WriteSink \/ SinkFails
  \/ LeaveSource \/ DeriveMappings
  \/ RenderDecisions \/ DecisionsFail \/ DecisionsRendered \/ DiscardScratch

\* A run that is over stays as it is.
Terminated == stage = "done" /\ UNCHANGED vars

Next == Step \/ Terminated

Spec == Init /\ [][Next]_vars

(* ------------------------------- properties ----------------------------- *)

CallTypeOK ==
  /\ request \in Requests
  /\ Planner!StageOK
  /\ stage \in Stages
  /\ raised \in Failures \union {"nothing"}
  /\ leg \in Nat /\ node \in Nat

PlanTypeOK ==
  /\ plan \in Seq(ElementsOf(plan))
  /\ stage \in LegStages => leg \in DOMAIN plan

FindingTypeOK ==
  /\ found \subseteq [leg : Nat, by : Nat, severity : Severities]
  /\ errors \subseteq found
  /\ report.written \in BOOLEAN /\ report.findings \subseteq found
  /\ crashes \subseteq Nat

OutcomeTypeOK ==
  /\ staging \subseteq Nat
  /\ scratch \in {"absent", "present", "discarded"}
  /\ events \subseteq [leg : Nat, node : Nat]
  /\ decisions \subseteq events
  /\ rendered \in 0..Len(ReportPaths)

\* Type correctness of the run, and that a leg is being run where one has to be.
TypeOK == CallTypeOK /\ PlanTypeOK /\ FindingTypeOK /\ OutcomeTypeOK

\* What the sinks wrote: the files of the run that are no report of it.
OutputFiles == {f \in disk : f.by # 0 /\ f.path \notin ReportFiles}

IsCritical(finding) == finding.severity = "CRITICAL"

\* The input of the leg running, or of a leg before it, is not to be translated.
Condemned == crashes # {} \/ \E finding \in found : IsCritical(finding)

\* A leg whose input has a critical finding, or whose validators did not all run, runs no
\* step and writes nothing, and neither does any leg after it: the state the sinks write
\* from has passed every validator of its leg and of the legs before it
\* (_reject_untranslatable_input and the crashes of _run_validators).
OutputsOnlyFromAcceptedInput ==
  /\ \A finding \in found :
       IsCritical(finding) =>
         /\ \A f \in OutputFiles : f.by < finding.leg
         /\ \A e \in events : e.node > 0 => e.leg < finding.leg
  /\ crashes # {} => \A f \in OutputFiles : f.by < leg

\* However a run ends, the validation report names every finding of every leg so far: a
\* later leg's report repeats the findings of the legs before it, an aborted leg's is
\* written all the same.
ReportNamesEveryFinding ==
  stage # "validate" /\ raised \notin {"report", "decisions"} =>
    /\ report.findings = found
    /\ found # {} => report.written

\* A translation leg after the first reads what the translation leg before it wrote in
\* this run, never a file of the same name at the run's boundary; every other leg reads the
\* boundary ("the port that writes a file into it and the port that reads that file back
\* are the same object").
LegsReadWhatTheyAreHanded ==
  \A r \in got : r.path \notin AbsolutePaths =>
    IF r.leg - 1 \in TranslationIndexes(plan)
      THEN r.by = r.leg - 1 /\ r.place = plan[r.leg - 1].writes
      ELSE r.place = Boundary

\* The decisions report of a run that failed half way holds what every leg decided up to
\* the failure, the failing leg included, and every configured reporter got all of it.
DecisionsHoldEveryEvent ==
  stage \in {"discard", "done"} /\ raised \notin {"document", "reporter", "decisions"} =>
    rendered = Len(ReportPaths) /\ (rendered > 0 => decisions = events)

\* Once something is raised the run only unwinds: no leg starts, nothing more is read,
\* decided or handed over, and the exception is replaced only by one of a report that
\* could not be written on the way out.
FailureIsFinal ==
  [][raised # "nothing" =>
       /\ raised' \in {raised, "report", "decisions"}
       /\ UNCHANGED <<leg, got, loaded, mappings, events, errors>>
       /\ OutputFiles' \subseteq OutputFiles]_vars

\* Nothing temporary outlives a run, however it ends, unless it was asked to keep its
\* staging: neither a leg's staging directory nor a hand-off.
NothingTemporaryOutlivesTheRun ==
  stage = "done" =>
    IF request.keep_staging
      THEN scratch # "discarded"
      ELSE staging = {} /\ scratch # "present" /\ \A f \in disk : f.place = Boundary

(* ------------------- what the run promises its caller ------------------- *)

PhaseOf(s) ==
  CASE s \in {"document", "reporter", "plan", "producers"} -> "starting"
    [] s \in LegStages -> "running"
    [] s = "render" -> "reporting"
    [] s = "discard" -> "closing"
    [] s = "done" -> "closed"

Contract ==
  INSTANCE ChainContract WITH
    keep      <- request.keep_staging,
    phase     <- PhaseOf(stage),
    total     <- IF PhaseOf(stage) = "starting" THEN 0 ELSE Len(plan),
    completed <- IF leg = 0 THEN 0 ELSE leg - 1,
    published <- {f.by : f \in OutputFiles},
    condemned <- Condemned,
    failed    <- raised # "nothing",
    kept      <- staging # {} \/ scratch = "present" \/ \E f \in disk : f.place # Boundary

\* The run implements the contract of ChainContract.
ImplementsContract == Contract!Spec

=============================================================================
