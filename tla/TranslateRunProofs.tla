-------------------------- MODULE TranslateRunProofs --------------------------
(***************************************************************************)
(* Theorems about TranslateRun, for every set of requests, every pipeline  *)
(* and every outcome of its plugins.                                       *)
(***************************************************************************)
EXTENDS TranslateRun, FiniteSetTheorems, TLAPS

\* The planner this run plans with, and what is proved of the plans it makes.
Plans == INSTANCE PlanTranslationProofs WITH stage <- planning, legs <- plan, rejected <- broken

\* What the planner assumes of its catalog and its requests, the run assumes too.
LEMMA PlansAssumptions ==
  /\ \A r \in Requests : Plans!IsDocument(r.document) /\ Plans!AreOverrides(r.overrides)
  /\ \A p \in DOMAIN Manifests : Plans!IsSpec(Manifests[p])
  /\ Boundary \notin Plans!Directories
  <1> USE DEF Plans!IsSequence, Plans!ElementsOf, IsSequence, ElementsOf
  <1>1. \A r \in Requests : Plans!IsDocument(r.document) /\ Plans!AreOverrides(r.overrides)
    BY DocumentsAssumption DEF Plans!IsDocument, IsDocument, Plans!AreOverrides, AreOverrides
  <1>2. \A p \in DOMAIN Manifests : Plans!IsSpec(Manifests[p])
    BY ManifestsAssumption DEF Plans!IsSpec, IsSpec, Plans!IsNode, IsNode
  <1>3. Boundary \notin Plans!Directories
    BY BoundaryAssumption DEF Plans!Directories, Directories, Plans!Mapping, Plans!Translation,
       Mapping, Translation
  <1> QED
    BY <1>1, <1>2, <1>3

\* A function over 1..n is a sequence of its own elements.
LEMMA FunctionIsSeq ==
  ASSUME NEW f, NEW n \in Nat, f = [i \in 1..n |-> f[i]]
  PROVE  f \in Seq(ElementsOf(f)) /\ Len(f) = n
  BY PlansAssumptions, Plans!FunctionIsSeq DEF ElementsOf, Plans!ElementsOf

\* A document is a document, and its entries are its entries, to the planner.
LEMMA PlannersDocument ==
  ASSUME NEW document
  PROVE  /\ Plans!IsDocument(document) <=> IsDocument(document)
         /\ Plans!Entries(document) = Entries(document)
  BY DEF IsDocument, Plans!IsDocument, IsSequence, Plans!IsSequence, ElementsOf, Plans!ElementsOf,
         Entries, Plans!Entries

\* The entries of a document are its mapping pipelines and, after them, at least one leg.
LEMMA EntriesOfADocument ==
  ASSUME NEW document, IsDocument(document)
  PROVE  LET m == Len(document.mappings)
             n == Len(Entries(document))
         IN  /\ m \in Nat /\ n \in Nat /\ m < n
             /\ DOMAIN Entries(document) = 1..n
  <1>1. Plans!IsDocument(document) /\ Plans!Entries(document) = Entries(document)
    BY PlannersDocument
  <1>2. LET m == Len(document.mappings)
            n == Len(Plans!Entries(document))
        IN  /\ m \in Nat /\ n \in Nat /\ m < n
            /\ DOMAIN Plans!Entries(document) = 1..n
    BY <1>1, PlansAssumptions, Plans!EntriesOfADocument
  <1> QED
    BY <1>1, <1>2

(* --------------------------------- planning ----------------------------- *)

\* The planner reads the document this module reads.
LEMMA PlannersEntries ==
  ASSUME NEW r \in Requests
  PROVE  /\ Planner!Entries(r.document) = Entries(r.document)
         /\ Len(Planner!Entries(r.document)) \in Nat \ {0}
         /\ DOMAIN Planner!Entries(r.document) = 1..Len(Planner!Entries(r.document))
  <1>1. IsDocument(r.document)
    BY DocumentsAssumption
  <1>2. Planner!Entries(r.document) = Entries(r.document)
    BY DEF Planner!Entries, Entries
  <1> DEFINE m == Len(r.document.mappings)
             n == Len(Entries(r.document))
  <1>3. m \in Nat /\ n \in Nat /\ m < n /\ DOMAIN Entries(r.document) = 1..n
    BY <1>1, EntriesOfADocument
  <1> HIDE DEF m, n
  <1>4. n \in Nat \ {0}
    BY <1>3
  <1> QED
    BY <1>2, <1>3, <1>4 DEF n

\* Planning is a rewrite of each leg in its place: it adds none and drops none.
LEMMA PlannerKeepsLegs ==
  ASSUME CallTypeOK, plan \in Seq(ElementsOf(plan)), Planner!Step
  PROVE  /\ plan' \in Seq(ElementsOf(plan'))
         /\ request' = request
         /\ planning # "load" => DOMAIN plan' = DOMAIN plan
         /\ planning = "load" /\ broken' # "load" => 1 \in DOMAIN plan'
  <1> USE DEF CallTypeOK
  <1>0. request \in Requests /\ request' = request
    BY DEF Planner!Step, Planner!LoadLegs, Planner!ValidateBoundaries, Planner!ValidateReferenceTargets,
           Planner!ValidateWiring, Planner!ApplyOverridesToLegs, Planner!ResolveLegReferences,
           Planner!RejectRequest, Planner!Reject, Planner!Check
  <1>1. CASE Planner!LoadLegs
    <2> DEFINE n == Len(Planner!Entries(request.document))
    <2>1. plan' = Planner!RouteHandoffs(Planner!LegsInRunOrder(request.document)) /\ planning = "load"
      BY <1>1 DEF Planner!LoadLegs, Planner!Check
    <2>2. n \in Nat \ {0} /\ DOMAIN Planner!Entries(request.document) = 1..n
      BY <1>0, PlannersEntries
    <2>3. DOMAIN Planner!LegsInRunOrder(request.document) = 1..n
      BY <2>2 DEF Planner!LegsInRunOrder
    <2>4. plan' = [i \in 1..n |-> plan'[i]]
      BY <2>1, <2>3 DEF Planner!RouteHandoffs
    <2>5. plan' \in Seq(ElementsOf(plan'))
      BY <2>2, <2>4, FunctionIsSeq
    <2>6. DOMAIN plan' = 1..n
      BY <2>4
    <2> QED
      BY <1>0, <2>1, <2>2, <2>5, <2>6
  <1>2. CASE Planner!ApplyOverridesToLegs
    <2>1. plan' = Planner!ApplyRunOverrides(plan, request.overrides) /\ planning # "load"
      BY <1>2 DEF Planner!ApplyOverridesToLegs, Planner!Check
    <2>2. plan = [i \in 1..Len(plan) |-> plan[i]] /\ Len(plan) \in Nat
      OBVIOUS
    <2>3. plan' = [i \in 1..Len(plan) |-> plan'[i]]
      BY <2>1, <2>2 DEF Planner!ApplyRunOverrides
    <2>4. plan' \in Seq(ElementsOf(plan'))
      BY <2>2, <2>3, FunctionIsSeq
    <2>5. DOMAIN plan' = DOMAIN plan
      BY <2>2, <2>3
    <2> QED
      BY <1>0, <2>1, <2>4, <2>5
  <1>3. CASE Planner!ResolveLegReferences
    <2>1. plan' = Planner!ResolveReferences(plan) /\ planning # "load"
      BY <1>3 DEF Planner!ResolveLegReferences, Planner!Check
    <2>2. plan = [i \in 1..Len(plan) |-> plan[i]] /\ Len(plan) \in Nat
      OBVIOUS
    <2>3. plan' = [i \in 1..Len(plan) |-> plan'[i]]
      BY <2>1, <2>2 DEF Planner!ResolveReferences
    <2>4. plan' \in Seq(ElementsOf(plan'))
      BY <2>2, <2>3, FunctionIsSeq
    <2>5. DOMAIN plan' = DOMAIN plan
      BY <2>2, <2>3
    <2> QED
      BY <1>0, <2>1, <2>4, <2>5
  <1>4. CASE Planner!ValidateBoundaries \/ Planner!ValidateReferenceTargets \/ Planner!ValidateWiring
    BY <1>0, <1>4 DEF Planner!ValidateBoundaries, Planner!ValidateReferenceTargets,
                      Planner!ValidateWiring, Planner!Check
  <1>5. CASE Planner!RejectRequest
    BY <1>0, <1>5 DEF Planner!RejectRequest, Planner!Reject
  <1> QED
    BY <1>1, <1>2, <1>3, <1>4, <1>5 DEF Planner!Step

LEMMA PlannerStepTypes ==
  ASSUME CallTypeOK, Planner!Step
  PROVE  Planner!StageOK' /\ planning # "planned" /\ broken = "nothing"
  BY DEF CallTypeOK, Planner!StageOK, Planner!Stages, Planner!Rules, Planner!Step,
         Planner!LoadLegs, Planner!ValidateBoundaries, Planner!ValidateReferenceTargets,
         Planner!ValidateWiring, Planner!ApplyOverridesToLegs, Planner!ResolveLegReferences,
         Planner!RejectRequest, Planner!Reject, Planner!Check

(* ---------------------------- type correctness -------------------------- *)

\* The planner has loaded the legs of the call, of which there is at least one, before a
\* leg is run.
PlanHasALeg ==
  /\ planning # "load" /\ broken # "load" => 1 \in DOMAIN plan
  /\ stage = "producers" => planning = "planned" /\ broken = "nothing"

TypeInv == TypeOK /\ PlanHasALeg

LEMMA TypeInit == Init => TypeInv
  <1> SUFFICES ASSUME Init PROVE TypeInv
    OBVIOUS
  <1>1. plan = << >> /\ plan \in Seq(ElementsOf(plan))
    BY DEF Init, Planner!Init
  <1>2. CallTypeOK /\ PlanHasALeg
    BY DEF Init, Planner!Init, CallTypeOK, Planner!StageOK, Planner!Stages, Planner!Rules, Stages,
           Failures, PlanHasALeg
  <1>3. PlanTypeOK
    BY <1>1 DEF Init, PlanTypeOK, LegStages
  <1>4. FindingTypeOK /\ OutcomeTypeOK
    BY ReportsAssumption DEF IsSequence, Init, FindingTypeOK, OutcomeTypeOK
  <1> QED
    BY <1>2, <1>3, <1>4 DEF TypeInv, TypeOK

LEMMA TypeStep == TypeInv /\ [Next]_vars => TypeInv'
  <1> SUFFICES ASSUME TypeInv, [Next]_vars PROVE TypeInv'
    OBVIOUS
  <1> USE DEF TypeInv, TypeOK, CallTypeOK, PlanTypeOK, FindingTypeOK, OutcomeTypeOK, PlanHasALeg,
              Planner!StageOK, Planner!Stages, Planner!Rules, Stages, LegStages, Failures, Continue,
              Raise, callVars, fileVars, findingVars, mappingVars, tempVars, eventVars
  <1>1. CASE StartRun \/ RefuseDocument \/ BuildReporter
    BY <1>1 DEF StartRun, RefuseDocument, BuildReporter
  <1>2. CASE PlanLegs
    <2>1. Planner!Step /\ stage = "plan" /\ stage' = stage
      BY <1>2 DEF PlanLegs
    <2>2. Planner!StageOK' /\ planning # "planned" /\ broken = "nothing"
      BY <2>1, PlannerStepTypes
    <2>3. /\ plan' \in Seq(ElementsOf(plan'))
          /\ request' = request
          /\ planning # "load" => DOMAIN plan' = DOMAIN plan
          /\ planning = "load" /\ broken' # "load" => 1 \in DOMAIN plan'
      BY <2>1, PlannerKeepsLegs
    <2>4. FindingTypeOK' /\ OutcomeTypeOK'
      BY <1>2 DEF PlanLegs
    <2>5. CallTypeOK' /\ PlanTypeOK' /\ PlanHasALeg'
      BY <1>2, <2>1, <2>2, <2>3 DEF PlanLegs
    <2> QED
      BY <2>4, <2>5
  <1>3. CASE LegsPlanned \/ FoldProducedMappings
    <2>1. CASE LegsPlanned
      BY <2>1 DEF LegsPlanned
    <2>2. CASE FoldProducedMappings
      BY <2>2 DEF FoldProducedMappings
    <2> QED
      BY <1>3, <2>1, <2>2
  <1>4. CASE LoadUserMappings \/ UserMappingsFail \/ BuildSource
    BY <1>4 DEF LoadUserMappings, UserMappingsFail, BuildSource
  <1>5. CASE LoadSource
    BY <1>5 DEF LoadSource, FindingsOf
  <1>6. CASE SourceFails
    BY <1>6 DEF SourceFails
  <1>7. CASE Validate
    BY <1>7 DEF Validate, FindingsOf
  <1>8. CASE ValidatorsAbort \/ ValidationReportFails
    BY <1>8 DEF ValidatorsAbort, ValidationReportFails, ValidatorsComplete
  <1>9. CASE RenderValidationReport
    BY <1>9 DEF RenderValidationReport, ValidatorsComplete, AfterReport, StateErrors
  <1>10. CASE AcceptInput \/ RejectUntranslatableInput
    <2>1. CASE AcceptInput
      BY <2>1 DEF AcceptInput
    <2>2. CASE RejectUntranslatableInput
      BY <2>2 DEF RejectUntranslatableInput
    <2> QED
      BY <1>10, <2>1, <2>2
  <1>11. CASE RunStep \/ ReportUnreadExtensions
    <2>1. CASE RunStep
      BY <2>1 DEF RunStep
    <2>2. CASE ReportUnreadExtensions
      BY <2>2 DEF ReportUnreadExtensions
    <2> QED
      BY <1>11, <2>1, <2>2
  <1>12. CASE WriteSink \/ SinkFails
    <2>1. CASE WriteSink
      BY <2>1 DEF WriteSink
    <2>2. CASE SinkFails
      BY <2>2 DEF SinkFails
    <2> QED
      BY <1>12, <2>1, <2>2
  <1>13. CASE LeaveSource
    BY <1>13 DEF LeaveSource
  <1>14. CASE DeriveMappings
    BY <1>14 DEF DeriveMappings, StateErrors, IsLastLeg
  <1>15. CASE RenderDecisions \/ DecisionsFail \/ DecisionsRendered
    <2>1. CASE RenderDecisions
      BY <2>1, ReportsAssumption DEF RenderDecisions
    <2>2. CASE DecisionsFail
      BY <2>2, ReportsAssumption DEF DecisionsFail
    <2>3. CASE DecisionsRendered
      BY <2>3, ReportsAssumption DEF DecisionsRendered
    <2> QED
      BY <1>15, <2>1, <2>2, <2>3
  <1>16. CASE DiscardScratch
    BY <1>16 DEF DiscardScratch
  <1>17. CASE UNCHANGED vars
    BY <1>17 DEF vars
  <1> QED
    BY <1>1, <1>2, <1>3, <1>4, <1>5, <1>6, <1>7, <1>8, <1>9, <1>10, <1>11, <1>12, <1>13, <1>14,
       <1>15, <1>16, <1>17 DEF Next, Step, Terminated

\* The run keeps the types of its state, and never runs a leg the plan does not have.
THEOREM TypeCorrect == Spec => []TypeOK
  <1>1. TypeInv => TypeOK
    BY DEF TypeInv
  <1> QED
    BY <1>1, TypeInit, TypeStep, PTL DEF Spec

(* --------------------------- a failure only unwinds --------------------- *)

\* Where a run can be with an exception on its way out.
UnwindingStages == {"validate", "leave", "render", "discard", "done"}

Unwinding ==
  /\ raised # "nothing" => stage \in UnwindingStages
  /\ stage = "leave" => raised # "nothing"

LEMMA UnwindingInit == Init => Unwinding
  BY DEF Init, Unwinding

LEMMA UnwindingStep == Unwinding /\ [Next]_vars => Unwinding'
  <1> SUFFICES ASSUME Unwinding, [Next]_vars PROVE Unwinding'
    OBVIOUS
  <1> USE DEF Unwinding, UnwindingStages, Continue, Raise
  <1>1. CASE StartRun \/ RefuseDocument \/ BuildReporter \/ PlanLegs \/ LegsPlanned
             \/ FoldProducedMappings
    BY <1>1 DEF StartRun, RefuseDocument, BuildReporter, PlanLegs, LegsPlanned,
                FoldProducedMappings
  <1>2. CASE LoadUserMappings \/ UserMappingsFail \/ BuildSource \/ LoadSource \/ SourceFails
    BY <1>2 DEF LoadUserMappings, UserMappingsFail, BuildSource, LoadSource, SourceFails
  <1>3. CASE Validate \/ ValidatorsAbort \/ RenderValidationReport \/ ValidationReportFails
    BY <1>3 DEF Validate, ValidatorsAbort, RenderValidationReport, ValidationReportFails,
                AfterReport
  <1>4. CASE AcceptInput \/ RejectUntranslatableInput \/ RunStep \/ ReportUnreadExtensions
    BY <1>4 DEF AcceptInput, RejectUntranslatableInput, RunStep, ReportUnreadExtensions
  <1>5. CASE WriteSink \/ SinkFails \/ LeaveSource \/ DeriveMappings
    BY <1>5 DEF WriteSink, SinkFails, LeaveSource, DeriveMappings
  <1>6. CASE RenderDecisions \/ DecisionsFail \/ DecisionsRendered \/ DiscardScratch
    BY <1>6 DEF RenderDecisions, DecisionsFail, DecisionsRendered, DiscardScratch
  <1>7. CASE UNCHANGED vars
    BY <1>7 DEF vars
  <1> QED
    BY <1>1, <1>2, <1>3, <1>4, <1>5, <1>6, <1>7 DEF Next, Step, Terminated

\* A report file is no output, so writing one changes none.
LEMMA ReportsAreNoOutput ==
  ASSUME NEW place, NEW path \in ReportFiles, NEW by,
         disk' = Overwritten({Locate(place, path)}, by)
  PROVE  OutputFiles' \subseteq OutputFiles
  BY DEF OutputFiles, Overwritten, Locate

\* The paths the decisions reports are rendered to are report files.
LEMMA DecisionsAreReports ==
  ASSUME rendered \in 0..Len(ReportPaths), rendered < Len(ReportPaths)
  PROVE  ReportPaths[rendered + 1] \in ReportFiles
  BY ReportsAssumption DEF ReportFiles

LEMMA FailureStep ==
  TypeInv /\ Unwinding /\ [Next]_vars =>
    (raised # "nothing" =>
       /\ raised' \in {raised, "report", "decisions"}
       /\ UNCHANGED <<leg, got, loaded, mappings, events, errors>>
       /\ OutputFiles' \subseteq OutputFiles)
  <1> SUFFICES ASSUME TypeInv, Unwinding, [Next]_vars, raised # "nothing"
               PROVE  /\ raised' \in {raised, "report", "decisions"}
                      /\ UNCHANGED <<leg, got, loaded, mappings, events, errors>>
                      /\ OutputFiles' \subseteq OutputFiles
    OBVIOUS
  <1> USE DEF Continue, Raise, callVars, fileVars, findingVars, mappingVars, tempVars, eventVars
  <1>1. stage \in UnwindingStages
    BY DEF Unwinding
  <1>2. ASSUME disk' = disk
        PROVE  OutputFiles' \subseteq OutputFiles
    BY <1>2 DEF OutputFiles
  <1>3. CASE RenderValidationReport
    <2>1. ValidationReportPath \in ReportFiles
      BY DEF ReportFiles
    <2>2. OutputFiles' \subseteq OutputFiles
      BY <1>3, <2>1, ReportsAreNoOutput DEF RenderValidationReport
    <2> QED
      BY <1>3, <2>2 DEF RenderValidationReport, AfterReport
  <1>4. CASE RenderDecisions
    <2>1. ReportPaths[rendered + 1] \in ReportFiles
      BY <1>4, DecisionsAreReports DEF RenderDecisions, TypeInv, TypeOK, OutcomeTypeOK
    <2>2. OutputFiles' \subseteq OutputFiles
      BY <1>4, <2>1, ReportsAreNoOutput DEF RenderDecisions
    <2> QED
      BY <1>4, <2>2 DEF RenderDecisions
  <1>5. CASE DiscardScratch
    <2>1. OutputFiles' \subseteq OutputFiles
      BY <1>5 DEF DiscardScratch, OutputFiles
    <2> QED
      BY <1>5, <2>1 DEF DiscardScratch
  <1>6. CASE ValidationReportFails \/ LeaveSource \/ DecisionsFail \/ DecisionsRendered
    BY <1>2, <1>6 DEF ValidationReportFails, LeaveSource, DecisionsFail, DecisionsRendered
  <1>7. CASE UNCHANGED vars
    BY <1>2, <1>7 DEF vars
  <1>8. ~ (StartRun \/ RefuseDocument \/ BuildReporter \/ PlanLegs \/ LegsPlanned
           \/ FoldProducedMappings \/ LoadUserMappings \/ UserMappingsFail \/ BuildSource
           \/ LoadSource \/ SourceFails)
    BY <1>1 DEF UnwindingStages, StartRun, RefuseDocument, BuildReporter, PlanLegs, LegsPlanned,
                FoldProducedMappings, LoadUserMappings, UserMappingsFail, BuildSource, LoadSource,
                SourceFails
  <1>9. ~ (Validate \/ ValidatorsAbort \/ AcceptInput \/ RejectUntranslatableInput \/ RunStep
           \/ ReportUnreadExtensions \/ WriteSink \/ SinkFails \/ DeriveMappings)
    BY <1>1 DEF UnwindingStages, Validate, ValidatorsAbort, AcceptInput,
                RejectUntranslatableInput, RunStep, ReportUnreadExtensions, WriteSink, SinkFails,
                DeriveMappings
  <1> QED
    BY <1>3, <1>4, <1>5, <1>6, <1>7, <1>8, <1>9 DEF Next, Step, Terminated

\* Once something is raised no leg starts, nothing more is read, decided or written by a
\* sink, and only a report that cannot be written replaces the exception.
THEOREM FailuresUnwind == Spec => FailureIsFinal
  <1> QED
    BY TypeInit, TypeStep, UnwindingInit, UnwindingStep, FailureStep, PTL
       DEF Spec, FailureIsFinal

(* ------------------------ only accepted input is written ---------------- *)

StagesBeforeLegs == {"document", "reporter", "plan", "producers"}

\* Up to here the leg's input is still being examined...
ExaminingStages == {"mappings", "source", "load", "validate", "reject"}

\* ...and here it, and the input of every leg before, has been accepted.
AcceptedStages ==
  StagesBeforeLegs \union {"mappings", "source", "load", "step", "sink", "derive"}

\* The leg being run has run no step and written nothing.
NothingPublished ==
  /\ \A f \in OutputFiles : f.by < leg
  /\ \A e \in events : e.node > 0 => e.leg < leg

PublishedSoFar ==
  /\ stage \in StagesBeforeLegs => leg = 0
  /\ \A f \in OutputFiles : f.by \in Nat /\ f.by <= leg
  /\ \A e \in events : e.leg <= leg

Acceptance ==
  /\ PublishedSoFar
  /\ stage \in AcceptedStages => ~ Condemned
  /\ stage = "reject" => crashes = {}
  /\ stage \in ExaminingStages => NothingPublished
  /\ Condemned => NothingPublished /\ \A g \in found : IsCritical(g) => g.leg = leg

LEMMA AcceptanceInit == Init => Acceptance
  <1> SUFFICES ASSUME Init PROVE Acceptance
    OBVIOUS
  <1>1. OutputFiles = {} /\ events = {} /\ ~ Condemned /\ leg = 0 /\ stage = "document"
    BY DEF Init, OutputFiles, Condemned
  <1> QED
    BY <1>1 DEF Acceptance, PublishedSoFar, StagesBeforeLegs, ExaminingStages, AcceptedStages,
                NothingPublished

\* A sink adds outputs of the leg it belongs to, and no others.
LEMMA SinksWriteForTheirLeg ==
  ASSUME NEW locations, disk' = Overwritten(locations, leg)
  PROVE  \A f \in OutputFiles' : f \in OutputFiles \/ f.by = leg
  BY DEF OutputFiles, Overwritten

LEMMA AcceptanceStep == TypeInv /\ Unwinding /\ Acceptance /\ [Next]_vars => Acceptance'
  <1> SUFFICES ASSUME TypeInv, Unwinding, Acceptance, [Next]_vars PROVE Acceptance'
    OBVIOUS
  <1> USE DEF Acceptance, PublishedSoFar, StagesBeforeLegs, ExaminingStages, AcceptedStages,
              NothingPublished, Continue, Raise, callVars, fileVars, findingVars, mappingVars,
              tempVars, eventVars
  <1>1. leg \in Nat /\ events \subseteq [leg : Nat, node : Nat]
    BY DEF TypeInv, TypeOK, CallTypeOK, OutcomeTypeOK
  <1>2. ASSUME disk' = disk
        PROVE  OutputFiles' = OutputFiles
    BY <1>2 DEF OutputFiles
  <1>3. ASSUME crashes' = crashes, found' = found
        PROVE  Condemned' = Condemned
    BY <1>3 DEF Condemned
  <1>4. CASE StartRun \/ RefuseDocument \/ BuildReporter \/ PlanLegs \/ LegsPlanned
    BY <1>2, <1>3, <1>4 DEF StartRun, RefuseDocument, BuildReporter, PlanLegs, LegsPlanned
  <1>5. CASE FoldProducedMappings
    <2>1. /\ OutputFiles' = OutputFiles /\ Condemned' = Condemned /\ events' = events
          /\ leg = 0 /\ leg' \in {0, 1} /\ ~ Condemned
          /\ (stage' = "mappings" /\ leg' = 1) \/ stage' = "render"
      BY <1>2, <1>3, <1>5 DEF FoldProducedMappings
    <2> QED
      BY <1>1, <2>1
  <1>6. CASE LoadUserMappings \/ UserMappingsFail \/ BuildSource
    BY <1>2, <1>3, <1>6 DEF LoadUserMappings, UserMappingsFail, BuildSource
  <1>7. CASE LoadSource
    <2>1. /\ OutputFiles' = OutputFiles /\ leg' = leg
          /\ stage = "load" /\ stage' = "validate"
          /\ events' = events \union {[leg |-> leg, node |-> 0]}
          /\ \A g \in found' : g \in found \/ g.leg = leg
      BY <1>2, <1>7 DEF LoadSource, FindingsOf
    <2>2. ~ Condemned
      BY <2>1
    <2>3. \A g \in found' : IsCritical(g) => g.leg = leg
      BY <2>1, <2>2 DEF Condemned
    <2> QED
      BY <1>1, <2>1, <2>3
  <1>8. CASE SourceFails
    <2>1. /\ OutputFiles' = OutputFiles /\ leg' = leg /\ Condemned' = Condemned
          /\ stage = "load" /\ stage' = "leave" /\ found' = found
          /\ \A e \in events' : e \in events \/ (e.leg = leg /\ e.node = 0)
      BY <1>2, <1>3, <1>8 DEF SourceFails
    <2> QED
      BY <1>1, <2>1
  <1>9. CASE Validate
    <2>1. /\ OutputFiles' = OutputFiles /\ leg' = leg
          /\ stage = "validate" /\ stage' = "validate"
          /\ events' = events
          /\ \A g \in found' : g \in found \/ g.leg = leg
      BY <1>2, <1>9 DEF Validate, FindingsOf
    <2>2. \A g \in found' : IsCritical(g) => g.leg = leg
      BY <2>1 DEF Condemned
    <2> QED
      BY <1>1, <2>1, <2>2
  <1>10. CASE ValidatorsAbort \/ ValidationReportFails
    BY <1>2, <1>3, <1>10 DEF ValidatorsAbort, ValidationReportFails, ValidatorsComplete
  <1>11. CASE RenderValidationReport
    <2>1. ValidationReportPath \in ReportFiles
      BY DEF ReportFiles
    <2>2. OutputFiles' \subseteq OutputFiles
      BY <1>11, <2>1, ReportsAreNoOutput DEF RenderValidationReport
    <2>3. Condemned' = Condemned
      BY <1>3, <1>11 DEF RenderValidationReport
    <2>4. stage = "validate" /\ stage' \in {"reject", "leave"} /\ (stage' = "reject" => crashes' = {})
      BY <1>11 DEF RenderValidationReport, ValidatorsComplete, AfterReport
    <2>5. UNCHANGED <<leg, found, events>>
      BY <1>11 DEF RenderValidationReport
    <2> QED
      BY <2>2, <2>3, <2>4, <2>5
  <1>12. CASE AcceptInput
    <2>1. ~ Condemned
      BY <1>12 DEF AcceptInput, HasCritical, StateErrors, Condemned, IsCritical
    <2> QED
      BY <1>2, <1>3, <1>12, <2>1 DEF AcceptInput
  <1>13. CASE RejectUntranslatableInput
    BY <1>2, <1>3, <1>13 DEF RejectUntranslatableInput
  <1>14. CASE RunStep \/ ReportUnreadExtensions
    <2>1. /\ OutputFiles' = OutputFiles /\ leg' = leg /\ Condemned' = Condemned
          /\ stage = "step" /\ stage' \in {"step", "sink", "leave"}
          /\ \A e \in events' : e \in events \/ e.leg = leg
      BY <1>2, <1>3, <1>14 DEF RunStep, ReportUnreadExtensions
    <2> QED
      BY <1>1, <2>1
  <1>15. CASE WriteSink \/ SinkFails
    <2>1. /\ leg' = leg /\ Condemned' = Condemned /\ events' = events
          /\ stage = "sink" /\ stage' \in {"sink", "leave"}
      BY <1>3, <1>15 DEF WriteSink, SinkFails
    <2>2. \A f \in OutputFiles' : f \in OutputFiles \/ f.by = leg
      BY <1>15, SinksWriteForTheirLeg DEF WriteSink, SinkFails
    <2> QED
      BY <1>1, <2>1, <2>2
  <1>16. CASE LeaveSource
    BY <1>2, <1>3, <1>16 DEF LeaveSource, Unwinding
  <1>17. CASE DeriveMappings
    <2>1. /\ leg' \in {leg, leg + 1} /\ Condemned' = Condemned /\ OutputFiles' = OutputFiles
          /\ events' = events
          /\ stage = "derive" /\ stage' \in {"mappings", "render"}
          /\ stage' = "mappings" => leg' = leg + 1
      BY <1>2, <1>3, <1>17 DEF DeriveMappings
    <2> QED
      BY <1>1, <2>1
  <1>18. CASE RenderDecisions
    <2>1. ReportPaths[rendered + 1] \in ReportFiles
      BY <1>18, DecisionsAreReports DEF RenderDecisions, TypeInv, TypeOK, OutcomeTypeOK
    <2>2. OutputFiles' \subseteq OutputFiles
      BY <1>18, <2>1, ReportsAreNoOutput DEF RenderDecisions
    <2>3. Condemned' = Condemned
      BY <1>3, <1>18 DEF RenderDecisions
    <2>4. UNCHANGED <<leg, found, events>> /\ stage = "render" /\ stage' = "render"
      BY <1>18 DEF RenderDecisions
    <2> QED
      BY <2>2, <2>3, <2>4
  <1>19. CASE DecisionsFail \/ DecisionsRendered
    BY <1>2, <1>3, <1>19 DEF DecisionsFail, DecisionsRendered
  <1>20. CASE DiscardScratch
    <2>1. OutputFiles' \subseteq OutputFiles
      BY <1>20 DEF DiscardScratch, OutputFiles
    <2>2. Condemned' = Condemned
      BY <1>3, <1>20 DEF DiscardScratch
    <2>3. UNCHANGED <<leg, found, events>> /\ stage' = "done"
      BY <1>20 DEF DiscardScratch
    <2> QED
      BY <2>1, <2>2, <2>3
  <1>21. CASE UNCHANGED vars
    BY <1>2, <1>3, <1>21 DEF vars
  <1> QED
    BY <1>4, <1>5, <1>6, <1>7, <1>8, <1>9, <1>10, <1>11, <1>12, <1>13, <1>14, <1>15, <1>16,
       <1>17, <1>18, <1>19, <1>20, <1>21 DEF Next, Step, Terminated

\* No step runs and no sink writes on input that a validator condemned or did not finish
\* examining, in that leg or in any leg after it, whatever raises and when.
THEOREM OutputsAreFromAcceptedInput == Spec => []OutputsOnlyFromAcceptedInput
  <1>1. Acceptance => OutputsOnlyFromAcceptedInput
    BY DEF Acceptance, OutputsOnlyFromAcceptedInput, NothingPublished, Condemned
  <1> QED
    BY <1>1, TypeInit, TypeStep, UnwindingInit, UnwindingStep, AcceptanceInit, AcceptanceStep, PTL
       DEF Spec

(* -------------------------- every finding is reported ------------------- *)

Reporting ==
  /\ stage \in StagesBeforeLegs => found = {}
  /\ \A g \in found : g \in errors \/ g.leg = leg
  /\ ReportNamesEveryFinding

LEMMA ReportingInit == Init => Reporting
  BY DEF Init, Reporting, ReportNamesEveryFinding, StagesBeforeLegs

LEMMA ReportingStep == TypeInv /\ Unwinding /\ Reporting /\ [Next]_vars => Reporting'
  <1> SUFFICES ASSUME TypeInv, Unwinding, Reporting, [Next]_vars PROVE Reporting'
    OBVIOUS
  <1> USE DEF Reporting, ReportNamesEveryFinding, StagesBeforeLegs, Continue, Raise, callVars,
              fileVars, findingVars, mappingVars, tempVars, eventVars
  <1>1. errors \subseteq found
    BY DEF TypeInv, TypeOK, FindingTypeOK
  <1>2. raised # "nothing" => stage \in {"validate", "leave", "render", "discard", "done"}
    BY DEF Unwinding, UnwindingStages
  <1>3. CASE StartRun \/ RefuseDocument \/ BuildReporter \/ PlanLegs \/ LegsPlanned
    BY <1>2, <1>3 DEF StartRun, RefuseDocument, BuildReporter, PlanLegs, LegsPlanned
  <1>4. CASE FoldProducedMappings
    BY <1>2, <1>4 DEF FoldProducedMappings
  <1>5. CASE LoadUserMappings \/ UserMappingsFail \/ BuildSource \/ SourceFails
    BY <1>2, <1>5 DEF LoadUserMappings, UserMappingsFail, BuildSource, SourceFails
  <1>6. CASE LoadSource
    BY <1>6 DEF LoadSource, FindingsOf
  <1>7. CASE Validate
    BY <1>7 DEF Validate, FindingsOf
  <1>8. CASE ValidatorsAbort \/ ValidationReportFails
    BY <1>8 DEF ValidatorsAbort, ValidationReportFails, ValidatorsComplete
  <1>9. CASE RenderValidationReport
    <2>1. errors \union StateErrors = found
      BY <1>1 DEF StateErrors
    <2>2. report' = [written |-> TRUE, findings |-> found] /\ UNCHANGED <<leg, found, errors>>
      BY <1>9, <2>1 DEF RenderValidationReport
    <2>3. stage' \notin StagesBeforeLegs
      BY <1>9 DEF RenderValidationReport, AfterReport
    <2> QED
      BY <2>2, <2>3
  <1>10. CASE AcceptInput \/ RejectUntranslatableInput
    BY <1>2, <1>10 DEF AcceptInput, RejectUntranslatableInput
  <1>11. CASE RunStep \/ ReportUnreadExtensions
    BY <1>2, <1>11 DEF RunStep, ReportUnreadExtensions
  <1>12. CASE WriteSink \/ SinkFails
    BY <1>2, <1>12 DEF WriteSink, SinkFails
  <1>13. CASE LeaveSource
    BY <1>13 DEF LeaveSource
  <1>14. CASE DeriveMappings
    <2>1. errors' = found /\ found' = found /\ report' = report /\ raised = "nothing"
      BY <1>1, <1>2, <1>14 DEF DeriveMappings, StateErrors
    <2>2. stage' \notin StagesBeforeLegs /\ stage = "derive"
      BY <1>14 DEF DeriveMappings
    <2> QED
      BY <2>1, <2>2
  <1>15. CASE RenderDecisions \/ DecisionsFail \/ DecisionsRendered \/ DiscardScratch
    BY <1>15 DEF RenderDecisions, DecisionsFail, DecisionsRendered, DiscardScratch
  <1>16. CASE UNCHANGED vars
    BY <1>16 DEF vars
  <1> QED
    BY <1>3, <1>4, <1>5, <1>6, <1>7, <1>8, <1>9, <1>10, <1>11, <1>12, <1>13, <1>14, <1>15, <1>16
       DEF Next, Step, Terminated

\* The validation report names every finding of the legs run so far however the run ends,
\* unless a report itself could not be written.
THEOREM EveryFindingIsReported == Spec => []ReportNamesEveryFinding
  <1>1. Reporting => ReportNamesEveryFinding
    BY DEF Reporting
  <1> QED
    BY <1>1, TypeInit, TypeStep, UnwindingInit, UnwindingStep, ReportingInit, ReportingStep, PTL
       DEF Spec

(* ------------------------- nothing temporary is left -------------------- *)

\* The stages with the source's context manager entered.
StagedStages == {"validate", "reject", "step", "sink", "leave"}

\* The stages that follow the making of the leg's trackers.
TrackedStages == {"load", "validate", "reject", "step", "sink"}

Temporaries ==
  /\ ~ request.keep_staging => staging \subseteq {leg} /\ (stage \notin StagedStages => staging = {})
  /\ \A f \in disk : f.place # Boundary => scratch = "present"
  /\ stage \in TrackedStages /\ TheLeg.writes # Boundary => scratch = "present"
  /\ stage = "document" => scratch = "absent"
  /\ scratch = "discarded" => stage = "done" /\ ~ request.keep_staging
  /\ stage = "done" /\ ~ request.keep_staging => scratch # "present"

LEMMA TemporariesInit == Init => Temporaries
  BY DEF Init, Temporaries, StagedStages, TrackedStages

\* A leg writes nowhere but at the boundary and in its own hand-off directory.
LEMMA LegsWriteInTwoPlaces ==
  ASSUME NEW written \in SUBSET SinkLocations, disk' = Overwritten(written, leg)
  PROVE  \A f \in disk' : f \in disk \/ f.place \in {Boundary, TheLeg.writes}
  BY DEF SinkLocations, Locations, Locate, Overwritten

LEMMA ReportsAreWrittenAtTheBoundary ==
  ASSUME NEW path, NEW by, disk' = Overwritten({Locate(Boundary, path)}, by)
  PROVE  \A f \in disk' : f \in disk \/ f.place = Boundary
  BY DEF Locate, Overwritten

LEMMA TemporariesStep == TypeInv /\ Unwinding /\ Temporaries /\ [Next]_vars => Temporaries'
  <1> SUFFICES ASSUME TypeInv, Unwinding, Temporaries, [Next]_vars PROVE Temporaries'
    OBVIOUS
  <1> USE DEF Temporaries, StagedStages, TrackedStages, TheLeg, Continue, Raise, callVars,
              fileVars, findingVars, mappingVars, tempVars, eventVars
  <1>1. scratch \in {"absent", "present", "discarded"}
    BY DEF TypeInv, TypeOK, OutcomeTypeOK
  <1>2. CASE StartRun \/ RefuseDocument \/ BuildReporter
    BY <1>2 DEF StartRun, RefuseDocument, BuildReporter
  <1>3. CASE PlanLegs
    <2>1. request' = request
      BY <1>3, PlannerKeepsLegs DEF PlanLegs, TypeInv, TypeOK, PlanTypeOK
    <2> QED
      BY <1>3, <2>1 DEF PlanLegs
  <1>4. CASE LegsPlanned
    BY <1>4 DEF LegsPlanned
  <1>5. CASE FoldProducedMappings
    BY <1>5 DEF FoldProducedMappings
  <1>6. CASE LoadUserMappings \/ UserMappingsFail
    BY <1>6 DEF LoadUserMappings, UserMappingsFail
  <1>7. CASE BuildSource
    BY <1>1, <1>7 DEF BuildSource
  <1>8. CASE LoadSource
    BY <1>8 DEF LoadSource
  <1>9. CASE SourceFails
    BY <1>9 DEF SourceFails
  <1>10. CASE Validate \/ ValidatorsAbort \/ ValidationReportFails
    BY <1>10 DEF Validate, ValidatorsAbort, ValidationReportFails, ValidatorsComplete
  <1>11. CASE RenderValidationReport
    <2>1. \A f \in disk' : f \in disk \/ f.place = Boundary
      BY <1>11, ReportsAreWrittenAtTheBoundary DEF RenderValidationReport
    <2> QED
      BY <1>11, <2>1 DEF RenderValidationReport, ValidatorsComplete, AfterReport
  <1>12. CASE AcceptInput \/ RejectUntranslatableInput
    BY <1>12 DEF AcceptInput, RejectUntranslatableInput
  <1>13. CASE RunStep \/ ReportUnreadExtensions
    BY <1>13 DEF RunStep, ReportUnreadExtensions
  <1>14. CASE WriteSink \/ SinkFails
    <2>1. \A f \in disk' : f \in disk \/ f.place \in {Boundary, TheLeg.writes}
      BY <1>14, LegsWriteInTwoPlaces DEF WriteSink, SinkFails
    <2>2. /\ UNCHANGED <<request, plan, leg, staging, scratch>>
          /\ stage = "sink" /\ stage' \in {"sink", "leave"}
      BY <1>14 DEF WriteSink, SinkFails
    <2> QED
      BY <2>1, <2>2
  <1>15. CASE LeaveSource
    BY <1>15 DEF LeaveSource
  <1>16. CASE DeriveMappings
    BY <1>16 DEF DeriveMappings
  <1>17. CASE RenderDecisions
    <2>1. \A f \in disk' : f \in disk \/ f.place = Boundary
      BY <1>17, ReportsAreWrittenAtTheBoundary DEF RenderDecisions
    <2> QED
      BY <1>17, <2>1 DEF RenderDecisions
  <1>18. CASE DecisionsFail \/ DecisionsRendered
    BY <1>18 DEF DecisionsFail, DecisionsRendered
  <1>19. CASE DiscardScratch
    BY <1>1, <1>19 DEF DiscardScratch
  <1>20. CASE UNCHANGED vars
    BY <1>20 DEF vars
  <1> QED
    BY <1>2, <1>3, <1>4, <1>5, <1>6, <1>7, <1>8, <1>9, <1>10, <1>11, <1>12, <1>13, <1>14, <1>15,
       <1>16, <1>17, <1>18, <1>19, <1>20 DEF Next, Step, Terminated

\* Wherever a run stops, its staging directories and its hand-offs are gone when it returns,
\* unless it was asked to keep them, and then none is discarded.
THEOREM NothingTemporaryIsLeft == Spec => []NothingTemporaryOutlivesTheRun
  <1>1. Temporaries => NothingTemporaryOutlivesTheRun
    BY DEF Temporaries, NothingTemporaryOutlivesTheRun, StagedStages
  <1> QED
    BY <1>1, TypeInit, TypeStep, UnwindingInit, UnwindingStep, TemporariesInit, TemporariesStep,
       PTL DEF Spec

(* ------------------------- every decision is reported ------------------- *)

ReportingStages == {"render", "discard", "done"}

DecisionsKept ==
  /\ stage \notin ReportingStages => rendered = 0
  /\ rendered > 0 => decisions = events
  /\ DecisionsHoldEveryEvent

LEMMA DecisionsInit == Init => DecisionsKept
  BY DEF Init, DecisionsKept, ReportingStages, DecisionsHoldEveryEvent

LEMMA DecisionsStep == TypeInv /\ Unwinding /\ DecisionsKept /\ [Next]_vars => DecisionsKept'
  <1> SUFFICES ASSUME TypeInv, Unwinding, DecisionsKept, [Next]_vars PROVE DecisionsKept'
    OBVIOUS
  <1> USE DEF DecisionsKept, ReportingStages, DecisionsHoldEveryEvent, Continue, Raise, callVars,
              fileVars, findingVars, mappingVars, tempVars, eventVars
  <1>1. rendered \in 0..Len(ReportPaths) /\ Len(ReportPaths) \in Nat
    BY ReportsAssumption DEF TypeInv, TypeOK, OutcomeTypeOK
  <1>2. CASE StartRun \/ RefuseDocument \/ BuildReporter \/ PlanLegs \/ LegsPlanned
             \/ FoldProducedMappings
    BY <1>1, <1>2 DEF StartRun, RefuseDocument, BuildReporter, PlanLegs, LegsPlanned,
                      FoldProducedMappings
  <1>3. CASE LoadUserMappings \/ UserMappingsFail \/ BuildSource \/ LoadSource \/ SourceFails
    BY <1>1, <1>3 DEF LoadUserMappings, UserMappingsFail, BuildSource, LoadSource, SourceFails
  <1>4. CASE Validate \/ ValidatorsAbort \/ RenderValidationReport \/ ValidationReportFails
    BY <1>1, <1>4 DEF Validate, ValidatorsAbort, RenderValidationReport, ValidationReportFails,
                      ValidatorsComplete, AfterReport
  <1>5. CASE AcceptInput \/ RejectUntranslatableInput \/ RunStep \/ ReportUnreadExtensions
    BY <1>1, <1>5 DEF AcceptInput, RejectUntranslatableInput, RunStep, ReportUnreadExtensions
  <1>6. CASE WriteSink \/ SinkFails \/ LeaveSource \/ DeriveMappings
    BY <1>1, <1>6 DEF WriteSink, SinkFails, LeaveSource, DeriveMappings
  <1>7. CASE RenderDecisions
    BY <1>1, <1>7 DEF RenderDecisions
  <1>8. CASE DecisionsFail \/ DecisionsRendered
    BY <1>1, <1>8 DEF DecisionsFail, DecisionsRendered
  <1>9. CASE DiscardScratch
    BY <1>9 DEF DiscardScratch
  <1>10. CASE UNCHANGED vars
    BY <1>10 DEF vars
  <1> QED
    BY <1>2, <1>3, <1>4, <1>5, <1>6, <1>7, <1>8, <1>9, <1>10 DEF Next, Step, Terminated

\* However far a run got, every decisions report holds what every leg decided, the one that
\* failed included, unless the report itself could not be built or written.
THEOREM EveryDecisionIsReported == Spec => []DecisionsHoldEveryEvent
  <1>1. DecisionsKept => DecisionsHoldEveryEvent
    BY DEF DecisionsKept
  <1> QED
    BY <1>1, TypeInit, TypeStep, UnwindingInit, UnwindingStep, DecisionsInit, DecisionsStep, PTL
       DEF Spec

(* ---------------------- legs read what they are handed ------------------ *)

\* What the planner does to its legs is what the lemmas about plans are about.
LEMMA PlannersRouting ==
  ASSUME NEW legs, NEW document
  PROVE  /\ Planner!RouteHandoffs(legs) = Plans!RouteHandoffs(legs)
         /\ Planner!LegsInRunOrder(document) = Plans!LegsInRunOrder(document)
  <1>1. Planner!TranslationIndexes(legs) = Plans!TranslationIndexes(legs)
    BY DEF Planner!TranslationIndexes, Plans!TranslationIndexes, Planner!Translation, Plans!Translation
  <1>2. Planner!FinalTranslation(legs) = Plans!FinalTranslation(legs)
    BY <1>1, Zenon DEF Planner!FinalTranslation, Plans!FinalTranslation
  <1>3. \A i : Planner!HandoffDirectory(legs, i) = Plans!HandoffDirectory(legs, i)
    BY Zenon DEF Planner!HandoffDirectory, Plans!HandoffDirectory, Planner!Cardinality, Plans!Cardinality
  <1>4. Planner!RouteHandoffs(legs) = Plans!RouteHandoffs(legs)
    <2> DEFINE Reads(i)   == IF i - 1 \in Plans!TranslationIndexes(legs)
                               THEN Plans!HandoffDirectory(legs, i - 1) ELSE Boundary
               Writes(i)  == IF i = Plans!FinalTranslation(legs)
                               THEN Boundary ELSE Plans!HandoffDirectory(legs, i)
               TheirReads(i)  == IF i - 1 \in Planner!TranslationIndexes(legs)
                                   THEN Planner!HandoffDirectory(legs, i - 1) ELSE Boundary
               TheirWrites(i) == IF i = Planner!FinalTranslation(legs)
                                   THEN Boundary ELSE Planner!HandoffDirectory(legs, i)
               Routing(i, r, w) == [legs[i] EXCEPT !.reads = r, !.writes = w]
    <2>1. \A i : TheirReads(i) = Reads(i) /\ TheirWrites(i) = Writes(i)
      BY <1>1, <1>2, <1>3, Zenon
    <2>2. /\ Plans!RouteHandoffs(legs) = [i \in DOMAIN legs |-> Routing(i, Reads(i), Writes(i))]
          /\ Planner!RouteHandoffs(legs) =
               [i \in DOMAIN legs |-> Routing(i, TheirReads(i), TheirWrites(i))]
      BY Zenon DEF Planner!RouteHandoffs, Plans!RouteHandoffs
    <2> HIDE DEF Reads, Writes, TheirReads, TheirWrites, Routing
    <2> QED
      BY <2>1, <2>2
  <1>5. \A spec, params : Planner!ApplyLegParams(spec, params) = Plans!ApplyLegParams(spec, params)
    BY Zenon DEF Planner!ApplyLegParams, Plans!ApplyLegParams, Planner!RewriteNodes, Plans!RewriteNodes,
           Planner!WithParams, Plans!WithParams, Planner!NodeSet, Plans!NodeSet, Planner!NodesOf, Plans!NodesOf,
           Planner!Overlay, Plans!Overlay, Planner!ParamsFor, Plans!ParamsFor
  <1>6. \A entry, kind : Planner!PlanLeg(entry, kind) = Plans!PlanLeg(entry, kind)
    BY <1>5, Zenon DEF Planner!PlanLeg, Plans!PlanLeg
  <1>7. /\ Planner!Entries(document) = Plans!Entries(document)
        /\ \A i : Planner!KindAt(document, i) = Plans!KindAt(document, i)
    BY Zenon DEF Planner!Entries, Plans!Entries, Planner!KindAt, Plans!KindAt, Planner!Mapping, Plans!Mapping,
           Planner!Translation, Plans!Translation
  <1>8. Planner!LegsInRunOrder(document) = Plans!LegsInRunOrder(document)
    BY <1>6, <1>7, Zenon DEF Planner!LegsInRunOrder, Plans!LegsInRunOrder
  <1> QED
    BY <1>4, <1>8

LEMMA PlannersRewrites ==
  ASSUME NEW legs, NEW overrides
  PROVE  /\ Planner!ApplyRunOverrides(legs, overrides) = Plans!ApplyRunOverrides(legs, overrides)
         /\ Planner!ResolveReferences(legs) = Plans!ResolveReferences(legs)
  <1>1. Planner!TranslationIndexes(legs) = Plans!TranslationIndexes(legs)
    BY DEF Planner!TranslationIndexes, Plans!TranslationIndexes, Planner!Translation, Plans!Translation
  <1>2. /\ Planner!FinalTranslation(legs) = Plans!FinalTranslation(legs)
        /\ Planner!FirstTranslation(legs) = Plans!FirstTranslation(legs)
    BY <1>1, Zenon DEF Planner!FinalTranslation, Plans!FinalTranslation, Planner!FirstTranslation,
                       Plans!FirstTranslation
  <1>3. /\ Planner!InputsOf(overrides) = Plans!InputsOf(overrides)
        /\ Planner!OutputsOf(overrides) = Plans!OutputsOf(overrides)
    BY Zenon DEF Planner!InputsOf, Plans!InputsOf, Planner!OutputsOf, Plans!OutputsOf, Planner!NoParams, Plans!NoParams
  <1>4. \A spec, over : Planner!ApplyOverrides(spec, over) = Plans!ApplyOverrides(spec, over)
    BY Zenon DEF Planner!ApplyOverrides, Plans!ApplyOverrides, Planner!OverlayNode, Plans!OverlayNode,
           Planner!Overlay, Plans!Overlay, Planner!OverridesAt, Plans!OverridesAt, Planner!NoParams, Plans!NoParams
  <1>5. Planner!ApplyRunOverrides(legs, overrides) = Plans!ApplyRunOverrides(legs, overrides)
    BY <1>2, <1>3, <1>4, Zenon DEF Planner!ApplyRunOverrides, Plans!ApplyRunOverrides
  <1>6. \A spec : Planner!NodesOf(spec) = Plans!NodesOf(spec) /\ Planner!NodeSet(spec) = Plans!NodeSet(spec)
    BY Zenon DEF Planner!NodesOf, Plans!NodesOf, Planner!NodeSet, Plans!NodeSet
  <1>7. \A spec, nd, param : Planner!ReadParam(spec, nd, param) = Plans!ReadParam(spec, nd, param)
    BY <1>6, Zenon DEF Planner!ReadParam, Plans!ReadParam, Planner!FindNode, Plans!FindNode, Planner!PositionsOf,
                       Plans!PositionsOf
  <1>8. \A name : Planner!FindLeg(name, legs) = Plans!FindLeg(name, legs)
    BY Zenon DEF Planner!FindLeg, Plans!FindLeg
  <1>9. \A nd : Planner!ResolvedParams(nd, legs) = Plans!ResolvedParams(nd, legs)
    BY <1>7, <1>8, Zenon DEF Planner!ResolvedParams, Plans!ResolvedParams, Planner!ReferencedValue,
                       Plans!ReferencedValue, Planner!IsReference, Plans!IsReference
  <1>10. Planner!ResolveReferences(legs) = Plans!ResolveReferences(legs)
    <2> DEFINE Ours(spec)   == [nd \in Plans!NodeSet(spec) |-> Plans!ResolvedParams(nd, legs)]
               Theirs(spec) == [nd \in Planner!NodeSet(spec) |-> Planner!ResolvedParams(nd, legs)]
               With(l, params) == Plans!Respecify(l, Plans!RewriteNodes(l.spec, params))
    <2>1. \A spec : Theirs(spec) = Ours(spec)
      BY <1>6, <1>9
    <2>2. \A spec, params : Planner!RewriteNodes(spec, params) = Plans!RewriteNodes(spec, params)
      BY Zenon DEF Planner!RewriteNodes, Plans!RewriteNodes, Planner!WithParams, Plans!WithParams
    <2>3. /\ Plans!ResolveReferences(legs) = [i \in DOMAIN legs |-> With(legs[i], Ours(legs[i].spec))]
          /\ Planner!ResolveReferences(legs) =
               [i \in DOMAIN legs |->
                  Plans!Respecify(legs[i], Planner!RewriteNodes(legs[i].spec, Theirs(legs[i].spec)))]
      BY Zenon DEF Planner!ResolveReferences, Plans!ResolveReferences, Plans!Respecify
    <2> HIDE DEF Ours, Theirs
    <2>4. Planner!ResolveReferences(legs) = [i \in DOMAIN legs |-> With(legs[i], Theirs(legs[i].spec))]
      <3>1. \A i : Plans!Respecify(legs[i], Planner!RewriteNodes(legs[i].spec, Theirs(legs[i].spec))) =
                    With(legs[i], Theirs(legs[i].spec))
        BY <2>2, Zenon
      <3> HIDE DEF With
      <3> QED
        BY <2>3, <3>1
    <2> HIDE DEF With
    <2> QED
      BY <2>1, <2>3, <2>4
  <1> QED
    BY <1>5, <1>10

\* A plan whose legs' hand-offs are routed, so that each reads what the one before it writes.
IsRouted(legs) == Plans!IsRouted(legs)

\* The planner routes the legs it loads, and no rewrite after that changes a route.
LEMMA PlannerRoutesLegs ==
  ASSUME CallTypeOK, Planner!Step, planning # "load" => IsRouted(plan), broken' = "nothing"
  PROVE  IsRouted(plan')
  <1> USE DEF CallTypeOK, IsRouted
  <1>1. CASE Planner!LoadLegs
    <2> DEFINE d == request.document
    <2>1. Plans!IsDocument(d)
      BY DocumentsAssumption, PlannersDocument
    <2>2. plan' = Plans!RouteHandoffs(Plans!LegsInRunOrder(d))
      BY <1>1, PlannersRouting DEF Planner!LoadLegs
    <2>3. \A i \in DOMAIN Plans!Entries(d) : Plans!Entries(d)[i].pipeline \in DOMAIN Manifests
      <3>1. Planner!Entries(d) = Plans!Entries(d)
        BY DEF Planner!Entries, Plans!Entries
      <3>2. Planner!AllLegsLoad
        BY <1>1 DEF Planner!LoadLegs, Planner!Check
      <3> QED
        BY <3>1, <3>2 DEF Planner!AllLegsLoad, Planner!LegLoads
    <2>4. Plans!IsRouted(Plans!RouteHandoffs(Plans!LegsInRunOrder(d)))
      BY <2>1, <2>3, PlansAssumptions, Plans!LoadedLegsAreRouted
    <2> QED
      BY <2>2, <2>4
  <1>2. CASE Planner!ApplyOverridesToLegs
    <2>1. IsRouted(plan) /\ plan' = Planner!ApplyRunOverrides(plan, request.overrides)
      BY <1>2 DEF Planner!ApplyOverridesToLegs, Planner!Check
    <2>2. plan' = Plans!ApplyRunOverrides(plan, request.overrides)
      BY <2>1, PlannersRewrites
    <2>3. Plans!IsRouted(Plans!ApplyRunOverrides(plan, request.overrides))
      BY <2>1, PlansAssumptions, Plans!RewritesKeepRoutes
    <2> QED
      BY <2>2, <2>3
  <1>3. CASE Planner!ResolveLegReferences
    <2>1. IsRouted(plan) /\ plan' = Planner!ResolveReferences(plan)
      BY <1>3 DEF Planner!ResolveLegReferences, Planner!Check
    <2>2. plan' = Plans!ResolveReferences(plan)
      BY <2>1, PlannersRewrites
    <2>3. Plans!IsRouted(Plans!ResolveReferences(plan))
      BY <2>1, PlansAssumptions, Plans!RewritesKeepRoutes
    <2> QED
      BY <2>2, <2>3
  <1>4. CASE Planner!ValidateBoundaries \/ Planner!ValidateReferenceTargets \/ Planner!ValidateWiring
    BY <1>4 DEF Planner!ValidateBoundaries, Planner!ValidateReferenceTargets,
                Planner!ValidateWiring, Planner!Check
  <1>5. CASE Planner!RejectRequest
    BY <1>5 DEF Planner!RejectRequest, Planner!Reject
  <1> QED
    BY <1>1, <1>2, <1>3, <1>4, <1>5 DEF Planner!Step

\* What a routed plan's hand-offs are like, in the run's own words.
LEMMA RoutesOfAPlan ==
  ASSUME NEW legs, IsRouted(legs)
  PROVE  /\ PairsUp(legs)
         /\ \A i \in TranslationIndexes(legs) :
              i + 1 \in DOMAIN legs => i + 1 \in TranslationIndexes(legs)
  <1>1. Plans!TranslationIndexes(legs) = TranslationIndexes(legs)
    BY DEF Plans!TranslationIndexes, TranslationIndexes, Plans!Translation, Translation
  <1>2. Plans!PairsUp(legs) /\ Plans!TranslationsRunOn(legs)
    BY DEF IsRouted, Plans!IsRouted
  <1> QED
    BY <1>1, <1>2 DEF Plans!PairsUp, PairsUp, Plans!TranslationsRunOn

StagesBeforeThePlan == {"document", "reporter", "plan"}

\* Every file outside the boundary is in the hand-off directory of the leg that wrote it.
HandoffsAreTheirWriters ==
  \A f \in disk : f.place # Boundary => f.by \in DOMAIN plan /\ f.place = plan[f.by].writes

Handing ==
  /\ planning # "load" /\ broken = "nothing" => IsRouted(plan)
  /\ stage \in LegStages => planning = "planned" /\ broken = "nothing"
  /\ stage \in StagesBeforeThePlan => got = {} /\ \A f \in disk : f.place = Boundary
  /\ HandoffsAreTheirWriters
  /\ LegsReadWhatTheyAreHanded

LEMMA HandingInit == Init => Handing
  BY DEF Init, Planner!Init, Handing, LegStages, StagesBeforeThePlan, HandoffsAreTheirWriters,
         LegsReadWhatTheyAreHanded

\* A source reads the files of the directory its leg is handed, which the leg before it wrote.
LEMMA SourceReadsItsHandoff ==
  ASSUME TypeInv, Handing, LoadSource
  PROVE  LegsReadWhatTheyAreHanded'
  <1> DEFINE inputs == Locations(TheLeg.reads, TheSpec.source)
  <1>1. /\ leg \in DOMAIN plan /\ plan' = plan /\ stage = "load"
        /\ got' = got \union UNION {{[leg |-> leg, place |-> f.place, path |-> f.path, by |-> f.by] :
                                       f \in FilesAt(l)} : l \in inputs}
    BY DEF LoadSource, callVars, TypeInv, TypeOK, PlanTypeOK, LegStages
  <1>2. /\ PairsUp(plan)
        /\ \A i \in TranslationIndexes(plan) :
             i + 1 \in DOMAIN plan => i + 1 \in TranslationIndexes(plan)
        /\ DOMAIN plan = 1..Len(plan) /\ Len(plan) \in Nat
    BY <1>1, RoutesOfAPlan DEF Handing, LegStages, TypeInv, TypeOK, PlanTypeOK
  <1>3. TranslationIndexes(plan)' = TranslationIndexes(plan)
    BY <1>1
  <1> SUFFICES ASSUME NEW r \in got', r.path \notin AbsolutePaths
               PROVE  IF r.leg - 1 \in TranslationIndexes(plan)
                        THEN r.by = r.leg - 1 /\ r.place = plan[r.leg - 1].writes
                        ELSE r.place = Boundary
    BY <1>1, <1>3 DEF LegsReadWhatTheyAreHanded
  <1>4. CASE r \in got
    BY <1>4 DEF Handing, LegsReadWhatTheyAreHanded
  <1>5. CASE r \notin got
    <2> DEFINE ReadAs(f) == [leg |-> leg, place |-> f.place, path |-> f.path, by |-> f.by]
    <2>0. PICK l \in inputs : \E f \in FilesAt(l) : r = ReadAs(f)
      BY <1>1, <1>5
    <2>1. PICK f \in FilesAt(l) : r = ReadAs(f)
      BY <2>0
    <2>2. /\ f \in disk /\ f.place = l.place /\ f.path = l.path
          /\ r.leg = leg /\ r.place = f.place /\ r.path = f.path /\ r.by = f.by
      BY <2>1 DEF FilesAt
    <2>3. f.place = TheLeg.reads
      <3>1. PICK path : l = Locate(TheLeg.reads, path)
        BY DEF Locations
      <3>2. l.path = path
        BY <3>1 DEF Locate
      <3> QED
        BY <2>2, <3>1, <3>2 DEF Locate
    <2>4. CASE leg - 1 \in TranslationIndexes(plan)
      <3>1. leg - 1 \in DOMAIN plan /\ leg \in TranslationIndexes(plan)
        BY <1>1, <1>2, <2>4 DEF TranslationIndexes
      <3>2. TheLeg.reads = plan[leg - 1].writes
        BY <1>1, <1>2, <2>4, <3>1 DEF PairsUp, TheLeg
      <3>3. plan[leg - 1].writes # Boundary
        BY <1>1, <1>2, <3>1 DEF PairsUp
      <3>4. f.by \in DOMAIN plan /\ f.place = plan[f.by].writes
        BY <2>2, <2>3, <3>2, <3>3 DEF Handing, HandoffsAreTheirWriters
      <3>5. f.by = leg - 1
        BY <1>2, <2>3, <3>1, <3>2, <3>4 DEF PairsUp
      <3> QED
        BY <2>2, <2>3, <2>4, <3>2, <3>5
    <2>5. CASE leg - 1 \notin TranslationIndexes(plan)
      <3>1. TheLeg.reads = Boundary
        BY <1>1, <1>2, <2>5 DEF PairsUp, TheLeg
      <3> QED
        BY <2>2, <2>3, <2>5, <3>1
    <2> QED
      BY <2>4, <2>5
  <1> QED
    BY <1>4, <1>5

LEMMA HandingStep == TypeInv /\ Handing /\ [Next]_vars => Handing'
  <1> SUFFICES ASSUME TypeInv, Handing, [Next]_vars PROVE Handing'
    OBVIOUS
  <1> USE DEF LegStages, StagesBeforeThePlan, Continue, Raise, callVars, fileVars, findingVars,
              mappingVars, tempVars, eventVars
  <1>1. ASSUME UNCHANGED <<planning, broken, plan, disk, got>>,
               stage' \in LegStages => stage \in LegStages \union {"producers"},
               stage' \in StagesBeforeThePlan => stage \in StagesBeforeThePlan
        PROVE  Handing'
    <2>1. LegsReadWhatTheyAreHanded' <=> LegsReadWhatTheyAreHanded
      BY <1>1 DEF LegsReadWhatTheyAreHanded
    <2>2. stage \in {"producers"} => planning = "planned" /\ broken = "nothing"
      BY DEF TypeInv, PlanHasALeg
    <2> QED
      BY <1>1, <2>1, <2>2 DEF Handing, HandoffsAreTheirWriters
  <1>2. ASSUME UNCHANGED <<planning, broken, plan, got>>,
               stage \notin StagesBeforeThePlan, stage' \notin StagesBeforeThePlan,
               stage' \in LegStages => stage \in LegStages,
               \A f \in disk' : \/ f \in disk
                                \/ f.place # Boundary => f.by \in DOMAIN plan /\ f.place = plan[f.by].writes
        PROVE  Handing'
    <2>1. LegsReadWhatTheyAreHanded' <=> LegsReadWhatTheyAreHanded
      BY <1>2 DEF LegsReadWhatTheyAreHanded
    <2> QED
      BY <1>2, <2>1 DEF Handing, HandoffsAreTheirWriters
  <1>3. CASE StartRun \/ RefuseDocument \/ BuildReporter
    BY <1>1, <1>3 DEF StartRun, RefuseDocument, BuildReporter
  <1>4. CASE PlanLegs
    <2>1. /\ Planner!Step /\ stage = "plan" /\ stage' = stage
          /\ disk' = disk /\ got' = got
      BY <1>4 DEF PlanLegs
    <2>2. planning # "load" => IsRouted(plan)
      BY <2>1, PlannerStepTypes DEF Handing, TypeInv, TypeOK
    <2>3. broken' = "nothing" => IsRouted(plan')
      BY <2>1, <2>2, PlannerRoutesLegs DEF TypeInv, TypeOK
    <2>4. got = {} /\ \A f \in disk : f.place = Boundary
      BY <2>1 DEF Handing
    <2>5. HandoffsAreTheirWriters' /\ LegsReadWhatTheyAreHanded'
      BY <2>1, <2>4 DEF HandoffsAreTheirWriters, LegsReadWhatTheyAreHanded
    <2> QED
      BY <2>1, <2>3, <2>4, <2>5 DEF Handing
  <1>5. CASE LegsPlanned \/ FoldProducedMappings
    BY <1>1, <1>5 DEF LegsPlanned, FoldProducedMappings
  <1>6. CASE LoadUserMappings \/ UserMappingsFail \/ BuildSource \/ SourceFails
    BY <1>1, <1>6 DEF LoadUserMappings, UserMappingsFail, BuildSource, SourceFails
  <1>7. CASE LoadSource
    <2>1. LegsReadWhatTheyAreHanded'
      BY <1>7, SourceReadsItsHandoff
    <2>2. UNCHANGED <<planning, broken, plan, disk>> /\ stage = "load" /\ stage' = "validate"
      BY <1>7 DEF LoadSource
    <2> QED
      BY <2>1, <2>2 DEF Handing, HandoffsAreTheirWriters
  <1>8. CASE Validate \/ ValidatorsAbort \/ ValidationReportFails
    BY <1>1, <1>8 DEF Validate, ValidatorsAbort, ValidationReportFails, ValidatorsComplete
  <1>9. CASE RenderValidationReport
    <2>1. \A f \in disk' : f \in disk \/ f.place = Boundary
      BY <1>9, ReportsAreWrittenAtTheBoundary DEF RenderValidationReport
    <2>2. /\ UNCHANGED <<planning, broken, plan, got>>
          /\ stage = "validate" /\ stage' \in {"leave", "reject"}
      BY <1>9 DEF RenderValidationReport, ValidatorsComplete, AfterReport
    <2> QED
      BY <1>2, <2>1, <2>2
  <1>10. CASE AcceptInput \/ RejectUntranslatableInput \/ RunStep \/ ReportUnreadExtensions
    BY <1>1, <1>10 DEF AcceptInput, RejectUntranslatableInput, RunStep, ReportUnreadExtensions
  <1>11. CASE WriteSink \/ SinkFails
    <2>1. PICK written \in SUBSET SinkLocations : disk' = Overwritten(written, leg)
      BY <1>11 DEF WriteSink, SinkFails
    <2>2. /\ UNCHANGED <<planning, broken, plan, got>>
          /\ stage = "sink" /\ stage' \in {"sink", "leave"}
      BY <1>11 DEF WriteSink, SinkFails
    <2>3. leg \in DOMAIN plan
      BY <2>2 DEF TypeInv, TypeOK, PlanTypeOK
    <2>4. \A f \in disk' : \/ f \in disk
                           \/ f.by = leg /\ f.place \in {Boundary, plan[leg].writes}
      BY <2>1 DEF SinkLocations, Locations, Locate, Overwritten, TheLeg
    <2> QED
      BY <1>2, <2>2, <2>3, <2>4
  <1>12. CASE LeaveSource \/ DeriveMappings
    BY <1>1, <1>12 DEF LeaveSource, DeriveMappings
  <1>13. CASE RenderDecisions
    <2>1. \A f \in disk' : f \in disk \/ f.place = Boundary
      BY <1>13, ReportsAreWrittenAtTheBoundary DEF RenderDecisions
    <2>2. UNCHANGED <<planning, broken, plan, got>> /\ stage = "render" /\ stage' = "render"
      BY <1>13 DEF RenderDecisions
    <2> QED
      BY <1>2, <2>1, <2>2
  <1>14. CASE DecisionsFail \/ DecisionsRendered
    BY <1>1, <1>14 DEF DecisionsFail, DecisionsRendered
  <1>15. CASE DiscardScratch
    <2>1. /\ UNCHANGED <<planning, broken, plan, got>> /\ stage = "discard" /\ stage' = "done"
          /\ \A f \in disk' : f \in disk
      BY <1>15 DEF DiscardScratch
    <2> QED
      BY <1>2, <2>1
  <1>16. CASE UNCHANGED vars
    BY <1>1, <1>16 DEF vars
  <1> QED
    BY <1>3, <1>4, <1>5, <1>6, <1>7, <1>8, <1>9, <1>10, <1>11, <1>12, <1>13, <1>14, <1>15, <1>16
       DEF Next, Step, Terminated

\* A translation leg reads what the translation leg before it wrote in this run, and every
\* other leg reads the boundary, whatever files of the same names lie where.
THEOREM LegsReadTheirHandoffs == Spec => []LegsReadWhatTheyAreHanded
  <1>1. Handing => LegsReadWhatTheyAreHanded
    BY DEF Handing
  <1> QED
    BY <1>1, TypeInit, TypeStep, HandingInit, HandingStep, PTL DEF Spec

(* ---------------------------- the run's contract ------------------------ *)

\* A report is no output, and writing one leaves the hand-offs alone.
LEMMA ReportsChangeNeitherOutputsNorHandoffs ==
  ASSUME NEW path \in ReportFiles, NEW by, disk' = Overwritten({Locate(Boundary, path)}, by)
  PROVE  /\ OutputFiles' = OutputFiles
         /\ (\E f \in disk : f.place # Boundary)' <=> \E f \in disk : f.place # Boundary
  <1>1. OutputFiles' = OutputFiles
    BY DEF OutputFiles, Overwritten, Locate
  <1>2. \A f : f.place # Boundary => (f \in disk' <=> f \in disk)
    BY DEF Overwritten, Locate
  <1> QED
    BY <1>1, <1>2

\* While a leg's source is loaded its staging directory is there, and before planning there
\* is no plan.
Staged ==
  /\ stage \in StagedStages => leg \in staging
  /\ stage \in {"document", "reporter"} => plan = << >>

LEMMA StagedInit == Init => Staged
  BY DEF Init, Planner!Init, Staged, StagedStages

LEMMA StagedStep == Staged /\ [Next]_vars => Staged'
  <1> SUFFICES ASSUME Staged, [Next]_vars PROVE Staged'
    OBVIOUS
  <1> USE DEF Staged, StagedStages, Continue, Raise, callVars, tempVars
  <1>1. CASE StartRun \/ RefuseDocument \/ BuildReporter \/ PlanLegs \/ LegsPlanned
             \/ FoldProducedMappings
    BY <1>1 DEF StartRun, RefuseDocument, BuildReporter, PlanLegs, LegsPlanned,
                FoldProducedMappings
  <1>2. CASE LoadUserMappings \/ UserMappingsFail \/ BuildSource \/ LoadSource \/ SourceFails
    BY <1>2 DEF LoadUserMappings, UserMappingsFail, BuildSource, LoadSource, SourceFails
  <1>3. CASE Validate \/ ValidatorsAbort \/ RenderValidationReport \/ ValidationReportFails
    BY <1>3 DEF Validate, ValidatorsAbort, RenderValidationReport, ValidationReportFails,
                ValidatorsComplete, AfterReport
  <1>4. CASE AcceptInput \/ RejectUntranslatableInput \/ RunStep \/ ReportUnreadExtensions
    BY <1>4 DEF AcceptInput, RejectUntranslatableInput, RunStep, ReportUnreadExtensions
  <1>5. CASE WriteSink \/ SinkFails \/ LeaveSource \/ DeriveMappings
    BY <1>5 DEF WriteSink, SinkFails, LeaveSource, DeriveMappings
  <1>6. CASE RenderDecisions \/ DecisionsFail \/ DecisionsRendered \/ DiscardScratch
    BY <1>6 DEF RenderDecisions, DecisionsFail, DecisionsRendered, DiscardScratch
  <1>7. CASE UNCHANGED vars
    BY <1>7 DEF vars
  <1> QED
    BY <1>1, <1>2, <1>3, <1>4, <1>5, <1>6, <1>7 DEF Next, Step, Terminated

LEMMA ContractInit == Init => Contract!Init
  <1> SUFFICES ASSUME Init PROVE Contract!Init
    OBVIOUS
  <1>1. /\ stage = "document" /\ leg = 0 /\ raised = "nothing" /\ ~ Condemned
        /\ staging = {} /\ scratch = "absent" /\ \A f \in disk : f.place = Boundary
        /\ OutputFiles = {}
    BY DEF Init, Condemned, OutputFiles
  <1>2. request.keep_staging \in BOOLEAN
    BY DocumentsAssumption DEF Init, Planner!Init
  <1>3. /\ PhaseOf(stage) = "starting" /\ {f.by : f \in OutputFiles} = {}
        /\ (IF leg = 0 THEN 0 ELSE leg - 1) = 0
        /\ (IF PhaseOf(stage) = "starting" THEN 0 ELSE Len(plan)) = 0
    BY <1>1 DEF PhaseOf, LegStages
  <1>4. /\ Condemned = FALSE /\ (raised # "nothing") = FALSE
        /\ (staging # {} \/ scratch = "present" \/ \E f \in disk : f.place # Boundary) = FALSE
    BY <1>1
  <1> QED
    BY <1>2, <1>3, <1>4, Zenon DEF Contract!Init

\* What a step leaves of the run's contract.
SameRun      == UNCHANGED <<request, plan, leg>>
SameOutputs  == OutputFiles' = OutputFiles
SameVerdict  == Condemned' = Condemned
InUse        == staging # {} \/ scratch = "present" \/ \E f \in disk : f.place # Boundary
SameSpace    == InUse' = InUse

\* A leg being run is the one after those completed.
LEMMA LegBeingRun ==
  ASSUME TypeInv, stage \in LegStages
  PROVE  /\ leg \in Nat \ {0} /\ leg <= Len(plan) /\ Len(plan) \in Nat
         /\ PhaseOf(stage) = "running"
  BY DEF TypeInv, TypeOK, PlanTypeOK, PhaseOf, LegStages

LEMMA RunStutters ==
  ASSUME UNCHANGED <<request, leg>>, PhaseOf(stage)' = PhaseOf(stage),
         PhaseOf(stage) = "starting" \/ plan' = plan,
         raised' = raised, SameOutputs, SameVerdict, SameSpace
  PROVE  UNCHANGED Contract!contractVars
  BY DEF SameOutputs, SameVerdict, SameSpace, InUse, Contract!contractVars

LEMMA RunFails ==
  ASSUME TypeInv, stage \in LegStages, raised = "nothing", raised' # "nothing", SameRun, SameVerdict,
         PhaseOf(stage)' \in {"running", "reporting"},
         \A f \in OutputFiles' : f \in OutputFiles \/ (f.by = leg /\ ~ Condemned)
  PROVE  Contract!Fail
  <1>1. /\ leg \in Nat \ {0} /\ leg - 1 + 1 = leg /\ PhaseOf(stage) = "running"
    BY LegBeingRun
  <1>2. {f.by : f \in OutputFiles'} \in
          SUBSET (IF Condemned THEN {f.by : f \in OutputFiles}
                  ELSE {f.by : f \in OutputFiles} \union {leg})
    OBVIOUS
  <1> QED
    BY <1>1, <1>2 DEF SameRun, SameVerdict, Contract!Fail

LEMMA RunExamines ==
  ASSUME TypeInv, stage \in LegStages, PhaseOf(stage)' = "running", raised = "nothing", raised' = raised,
         SameRun, SameOutputs,
         Condemned => Condemned',
         Condemned' => Condemned \/ \A f \in OutputFiles : f.by # leg
  PROVE  Contract!Examine
  <1>1. /\ leg \in Nat \ {0} /\ leg - 1 + 1 = leg /\ PhaseOf(stage) = "running"
    BY LegBeingRun
  <1>2. Condemned' => Condemned \/ leg \notin {f.by : f \in OutputFiles}
    OBVIOUS
  <1>3. Condemned \in BOOLEAN /\ Condemned' \in BOOLEAN
    BY DEF Condemned
  <1> QED
    BY <1>1, <1>2, <1>3 DEF SameRun, SameOutputs, Contract!Examine

\* Every step of the run is a step of its contract, or none.
LEMMA ContractStep ==
  /\ TypeInv /\ Unwinding /\ Acceptance /\ Temporaries /\ Staged
  /\ [Next]_vars
  => [Contract!Next]_(Contract!contractVars)
  <1> SUFFICES ASSUME TypeInv, Unwinding, Acceptance, Temporaries, Staged, [Next]_vars
               PROVE  Contract!Next \/ UNCHANGED Contract!contractVars
    OBVIOUS
  <1> USE DEF Continue, Raise, callVars, fileVars, findingVars, mappingVars, tempVars, eventVars
  <1>1. ASSUME disk' = disk
        PROVE  SameOutputs /\ (UNCHANGED <<staging, scratch>> => SameSpace)
    BY <1>1 DEF SameOutputs, SameSpace, InUse, OutputFiles
  <1>2. ASSUME UNCHANGED <<found, crashes>>
        PROVE  SameVerdict
    BY <1>2 DEF SameVerdict, Condemned
  <1>3. ASSUME stage \in LegStages \ {"validate", "leave"}
        PROVE  raised = "nothing"
    BY <1>3 DEF Unwinding, UnwindingStages, LegStages
  <1>4. stage \in LegStages => leg \in DOMAIN plan
    BY DEF TypeInv, TypeOK, PlanTypeOK
  <1>5. ASSUME stage \in LegStages, stage' \in LegStages \union {"render"}, raised = "nothing",
               raised' # "nothing", SameRun, UNCHANGED <<disk, found, crashes>>
        PROVE  Contract!Fail
    <2>1. PhaseOf(stage)' \in {"running", "reporting"}
      BY <1>5 DEF PhaseOf, LegStages
    <2>2. SameVerdict /\ SameOutputs
      BY <1>1, <1>2, <1>5
    <2> QED
      BY <1>5, <2>1, <2>2, RunFails DEF SameOutputs
  <1>6. ASSUME stage \in LegStages, stage' \in LegStages, raised' = raised, SameRun,
               UNCHANGED <<disk, found, crashes, staging, scratch>>
        PROVE  UNCHANGED Contract!contractVars
    <2>1. PhaseOf(stage)' = PhaseOf(stage)
      BY <1>6 DEF PhaseOf, LegStages
    <2>2. SameVerdict /\ SameOutputs /\ SameSpace
      BY <1>1, <1>2, <1>6
    <2> QED
      BY <1>6, <2>1, <2>2, RunStutters DEF SameRun
  <1>7. ASSUME stage \in StagesBeforeLegs, stage' \in StagesBeforeLegs, raised' = raised,
               UNCHANGED <<request, leg, disk, found, crashes, staging, scratch>>
        PROVE  UNCHANGED Contract!contractVars
    <2>1. PhaseOf(stage) = "starting" /\ PhaseOf(stage)' = "starting"
      BY <1>7 DEF PhaseOf, StagesBeforeLegs, LegStages
    <2>2. SameVerdict /\ SameOutputs /\ SameSpace
      BY <1>1, <1>2, <1>7
    <2> QED
      BY <1>7, <2>1, <2>2, RunStutters
  <1>8. CASE StartRun
    BY <1>7, <1>8 DEF StartRun, StagesBeforeLegs
  <1>9. CASE PlanLegs
    <2>1. request' = request
      BY <1>9, PlannerKeepsLegs DEF PlanLegs, TypeInv, TypeOK, PlanTypeOK
    <2> QED
      BY <1>7, <1>9, <2>1 DEF PlanLegs, StagesBeforeLegs
  <1>10. ASSUME stage \in {"document", "reporter"}, stage' \in {"discard", "done"},
                raised' # "nothing", SameRun, UNCHANGED <<disk, found, crashes, staging, scratch>>
         PROVE  Contract!Refuse
    <2>1. PhaseOf(stage) = "starting" /\ PhaseOf(stage)' \in {"closing", "closed"}
      BY <1>10 DEF PhaseOf, LegStages
    <2>2. SameVerdict /\ SameOutputs /\ SameSpace
      BY <1>1, <1>2, <1>10
    <2>3. Len(plan) = 0
      BY <1>10 DEF Staged
    <2> QED
      BY <1>10, <2>1, <2>2, <2>3 DEF Contract!Refuse, SameRun, SameVerdict, SameOutputs, SameSpace, InUse
  <1>11. CASE RefuseDocument
    BY <1>10, <1>11 DEF RefuseDocument, SameRun, Contract!Next
  <1>12. CASE BuildReporter
    <2>1. CASE Continue("plan")
      BY <1>7, <1>12, <2>1 DEF BuildReporter, StagesBeforeLegs
    <2>2. CASE Raise("reporter", "discard")
      BY <1>10, <1>12, <2>2 DEF BuildReporter, SameRun, Contract!Next
    <2> QED
      BY <1>12, <2>1, <2>2 DEF BuildReporter
  <1>13. ASSUME stage \in {"plan", "producers"}, stage' = "render", raised' # "nothing", SameRun,
                UNCHANGED <<disk, found, crashes, staging, scratch>>
         PROVE  Contract!RefusePlan
    <2>1. PhaseOf(stage) = "starting" /\ PhaseOf(stage)' = "reporting"
      BY <1>13 DEF PhaseOf, LegStages
    <2>2. SameVerdict /\ SameOutputs /\ SameSpace
      BY <1>1, <1>2, <1>13
    <2>3. Len(plan') \in Nat
      BY <1>13 DEF TypeInv, TypeOK, PlanTypeOK, SameRun
    <2> QED
      BY <1>13, <2>1, <2>2, <2>3
         DEF Contract!RefusePlan, SameRun, SameVerdict, SameOutputs, SameSpace, InUse
  <1>14. CASE LegsPlanned
    <2>1. CASE Continue("producers")
      BY <1>7, <1>14, <2>1 DEF LegsPlanned, StagesBeforeLegs
    <2>2. CASE Raise("plan", "render")
      BY <1>13, <1>14, <2>2 DEF LegsPlanned, SameRun, Contract!Next
    <2> QED
      BY <1>14, <2>1, <2>2 DEF LegsPlanned
  <1>15. CASE FoldProducedMappings
    <2>1. CASE leg' = 1 /\ Continue("mappings")
      <3>1. PhaseOf(stage) = "starting" /\ PhaseOf(stage)' = "running"
        BY <1>15, <2>1 DEF FoldProducedMappings, PhaseOf, LegStages
      <3>2. SameVerdict /\ SameOutputs /\ SameSpace
        BY <1>1, <1>2, <1>15 DEF FoldProducedMappings
      <3>3. Len(plan) \in Nat \ {0} /\ plan' = plan
        BY <1>15 DEF FoldProducedMappings, TypeInv, TypeOK, PlanTypeOK, PlanHasALeg
      <3>4. leg = 0 /\ (raised # "nothing")' = (raised # "nothing") /\ request' = request
        BY <1>15, <2>1 DEF FoldProducedMappings, Acceptance, PublishedSoFar, StagesBeforeLegs
      <3>5. Contract!Start
        BY <2>1, <3>1, <3>2, <3>3, <3>4 DEF Contract!Start, SameVerdict, SameOutputs, SameSpace, InUse
      <3> QED
        BY <3>5 DEF Contract!Next
    <2>2. CASE UNCHANGED leg /\ Raise("producers", "render")
      BY <1>13, <1>15, <2>2 DEF FoldProducedMappings, SameRun, Contract!Next
    <2> QED
      BY <1>15, <2>1, <2>2 DEF FoldProducedMappings
  <1>16. CASE LoadUserMappings \/ UserMappingsFail
    <2>1. CASE LoadUserMappings
      BY <1>6, <2>1 DEF LoadUserMappings, LegStages, SameRun
    <2>2. CASE UserMappingsFail
      BY <1>3, <1>5, <2>2 DEF UserMappingsFail, LegStages, SameRun, Contract!Next
    <2> QED
      BY <1>16, <2>1, <2>2
  <1>17. CASE BuildSource
    <2>1. stage = "source" /\ SameRun /\ UNCHANGED <<disk, found, crashes>>
      BY <1>17 DEF BuildSource, SameRun
    <2>2. CASE Continue("load")
      <3>1. PhaseOf(stage)' = "running"
        BY <2>2 DEF PhaseOf, LegStages
      <3>2. Contract!Examine
        BY <1>1, <1>2, <1>3, <2>1, <2>2, <3>1, RunExamines DEF LegStages, SameVerdict
      <3> QED
        BY <3>2 DEF Contract!Next
    <2>3. CASE Raise("source", "render")
      BY <1>3, <1>5, <2>1, <2>3 DEF LegStages, Contract!Next
    <2> QED
      BY <1>17, <2>2, <2>3 DEF BuildSource
  <1>18. CASE LoadSource
    <2>1. /\ stage = "load" /\ stage' = "validate" /\ raised' = raised
          /\ SameRun /\ UNCHANGED disk
      BY <1>18 DEF LoadSource, SameRun
    <2>2. PhaseOf(stage)' = "running"
      BY <2>1 DEF PhaseOf, LegStages
    <2>3. ~ Condemned /\ \A f \in OutputFiles : f.by # leg
      BY <2>1 DEF Acceptance, AcceptedStages, ExaminingStages, NothingPublished, TypeInv, TypeOK,
                  CallTypeOK, PublishedSoFar
    <2>4. Contract!Examine
      BY <1>1, <1>3, <2>1, <2>2, <2>3, RunExamines DEF LegStages
    <2> QED
      BY <2>4 DEF Contract!Next
  <1>19. CASE SourceFails
    BY <1>3, <1>5, <1>19 DEF SourceFails, LegStages, SameRun, Contract!Next
  <1>20. CASE Validate
    <2>1. /\ stage = "validate" /\ stage' = "validate" /\ raised = "nothing" /\ raised' = raised
          /\ SameRun /\ UNCHANGED disk /\ found \subseteq found' /\ crashes \subseteq crashes'
      BY <1>20 DEF Validate, SameRun
    <2>2. PhaseOf(stage)' = "running"
      BY <2>1 DEF PhaseOf, LegStages
    <2>3. Condemned => Condemned'
      BY <2>1 DEF Condemned
    <2>4. \A f \in OutputFiles : f.by # leg
      BY <2>1 DEF Acceptance, ExaminingStages, NothingPublished, TypeInv, TypeOK, CallTypeOK,
                  PublishedSoFar
    <2>5. Contract!Examine
      BY <1>1, <2>1, <2>2, <2>3, <2>4, RunExamines DEF LegStages
    <2> QED
      BY <2>5 DEF Contract!Next
  <1>21. CASE ValidatorsAbort
    BY <1>5, <1>21 DEF ValidatorsAbort, LegStages, SameRun, Contract!Next
  <1>22. CASE RenderValidationReport
    <2>1. /\ stage = "validate" /\ stage' \in {"reject", "leave"} /\ SameRun
          /\ UNCHANGED <<found, crashes, staging, scratch>>
          /\ raised' = raised \/ (raised = "nothing" /\ raised' = "crashed")
      BY <1>22 DEF RenderValidationReport, ValidatorsComplete, AfterReport, SameRun
    <2>2. SameOutputs /\ SameSpace
      <3>1. ValidationReportPath \in ReportFiles
        BY DEF ReportFiles
      <3> QED
        BY <1>22, <2>1, <3>1, ReportsChangeNeitherOutputsNorHandoffs
           DEF RenderValidationReport, SameOutputs, SameSpace, InUse
    <2>3. PhaseOf(stage) = "running" /\ PhaseOf(stage)' = "running"
      BY <2>1 DEF PhaseOf, LegStages
    <2>4. SameVerdict
      BY <1>2, <2>1
    <2>5. CASE raised' = raised
      BY <2>1, <2>2, <2>3, <2>4, <2>5, RunStutters DEF SameRun
    <2>6. CASE raised = "nothing" /\ raised' = "crashed"
      <3>1. Contract!Fail
        BY <2>1, <2>2, <2>3, <2>4, <2>6, RunFails DEF LegStages, SameOutputs
      <3> QED
        BY <3>1 DEF Contract!Next
    <2> QED
      BY <2>1, <2>5, <2>6
  <1>23. CASE ValidationReportFails
    <2>1. /\ stage = "validate" /\ stage' = "leave" /\ raised' = "report" /\ SameRun
          /\ UNCHANGED <<disk, found, crashes, staging, scratch>>
      BY <1>23 DEF ValidationReportFails, ValidatorsComplete, SameRun
    <2>2. CASE raised = "nothing"
      BY <1>5, <2>1, <2>2 DEF LegStages, Contract!Next
    <2>3. CASE raised # "nothing"
      <3>1. PhaseOf(stage) = "running" /\ PhaseOf(stage)' = "running"
        BY <2>1 DEF PhaseOf, LegStages
      <3>2. SameVerdict /\ SameOutputs /\ SameSpace
        BY <1>1, <1>2, <2>1
      <3> QED
        BY <2>1, <2>3, <3>1, <3>2
           DEF SameRun, SameVerdict, SameOutputs, SameSpace, InUse, Contract!contractVars
    <2> QED
      BY <2>2, <2>3
  <1>24. CASE AcceptInput \/ RejectUntranslatableInput
    <2>1. CASE AcceptInput
      BY <1>6, <2>1 DEF AcceptInput, LegStages, SameRun
    <2>2. CASE RejectUntranslatableInput
      BY <1>3, <1>5, <2>2 DEF RejectUntranslatableInput, LegStages, SameRun, Contract!Next
    <2> QED
      BY <1>24, <2>1, <2>2
  <1>25. CASE RunStep
    <2>1. /\ stage = "step" /\ SameRun /\ UNCHANGED <<disk, found, crashes, staging, scratch>>
          /\ Continue("step") \/ Raise("step", "leave")
      BY <1>25 DEF RunStep, SameRun
    <2>2. CASE Continue("step")
      BY <1>6, <2>1, <2>2 DEF LegStages
    <2>3. CASE Raise("step", "leave")
      BY <1>3, <1>5, <2>1, <2>3 DEF LegStages, Contract!Next
    <2> QED
      BY <2>1, <2>2, <2>3
  <1>26. CASE ReportUnreadExtensions
    BY <1>6, <1>26 DEF ReportUnreadExtensions, LegStages, SameRun
  <1>27. ASSUME stage = "sink", NEW locations, disk' = Overwritten(locations, leg)
         PROVE  /\ \A f \in OutputFiles' : f \in OutputFiles \/ (f.by = leg /\ ~ Condemned)
                /\ leg \in staging
    <2>1. ~ Condemned /\ leg \in staging
      BY <1>27 DEF Acceptance, AcceptedStages, Staged, StagedStages
    <2> QED
      BY <1>27, <2>1, SinksWriteForTheirLeg
  <1>28. CASE WriteSink
    <2>1. /\ stage = "sink" /\ stage' = "sink" /\ raised' = raised /\ SameRun
          /\ UNCHANGED <<found, crashes, staging, scratch>>
          /\ disk' = Overwritten(SinkLocations, leg)
      BY <1>28 DEF WriteSink, SameRun
    <2>2. PhaseOf(stage) = "running" /\ PhaseOf(stage)' = "running"
      BY <2>1 DEF PhaseOf, LegStages
    <2>3. leg \in Nat \ {0} /\ leg - 1 + 1 = leg /\ raised = "nothing" /\ ~ Condemned /\ SameVerdict
      BY <1>2, <1>3, <2>1, LegBeingRun DEF LegStages, Acceptance, AcceptedStages
    <2>4. {f.by : f \in OutputFiles'} \in SUBSET ({f.by : f \in OutputFiles} \union {leg})
      BY <1>27, <2>1
    <2>5. InUse = TRUE /\ InUse' = TRUE
      BY <1>27, <2>1 DEF InUse
    <2>6. Contract!Publish
      BY <2>1, <2>2, <2>3, <2>4, <2>5 DEF Contract!Publish, SameRun, SameVerdict, InUse
    <2> QED
      BY <2>6 DEF Contract!Next
  <1>29. CASE SinkFails
    <2>1. /\ stage = "sink" /\ stage' = "leave" /\ raised' = "sink" /\ SameRun
          /\ UNCHANGED <<found, crashes>>
          /\ \E written : disk' = Overwritten(written, leg)
      BY <1>29 DEF SinkFails, SameRun
    <2>2. PhaseOf(stage)' = "running"
      BY <2>1 DEF PhaseOf, LegStages
    <2>3. raised = "nothing" /\ SameVerdict
      BY <1>2, <1>3, <2>1 DEF LegStages
    <2>4. Contract!Fail
      BY <1>27, <2>1, <2>2, <2>3, RunFails DEF LegStages
    <2> QED
      BY <2>4 DEF Contract!Next
  <1>30. CASE LeaveSource
    <2>1. /\ stage \in {"sink", "leave"} /\ raised' = raised /\ SameRun
          /\ stage' = (IF raised = "nothing" THEN "derive" ELSE "render")
          /\ UNCHANGED <<disk, found, crashes>>
      BY <1>30 DEF LeaveSource, SameRun
    <2>2. SameVerdict /\ SameOutputs
      BY <1>1, <1>2, <2>1
    <2>3. CASE raised = "nothing"
      <3>1. PhaseOf(stage)' = "running"
        BY <2>1, <2>3 DEF PhaseOf, LegStages
      <3>2. Contract!Examine
        BY <2>1, <2>2, <2>3, <3>1, RunExamines DEF LegStages, SameVerdict
      <3> QED
        BY <3>2 DEF Contract!Next
    <2>4. CASE raised # "nothing"
      <3>1. PhaseOf(stage) = "running" /\ PhaseOf(stage)' = "reporting"
        BY <2>1, <2>4 DEF PhaseOf, LegStages
      <3>2. Contract!Unwind
        BY <2>1, <2>2, <2>4, <3>1 DEF Contract!Unwind, SameRun, SameVerdict, SameOutputs
      <3> QED
        BY <3>2 DEF Contract!Next
    <2> QED
      BY <2>3, <2>4
  <1>31. CASE DeriveMappings
    <2>1. /\ stage = "derive" /\ UNCHANGED <<request, plan, disk, found, crashes, staging, scratch>>
          /\ \/ leg' = leg + 1 /\ Continue(IF IsLastLeg THEN "render" ELSE "mappings")
             \/ UNCHANGED leg /\ Raise("derive", "render")
      BY <1>31 DEF DeriveMappings
    <2>2. SameVerdict /\ SameOutputs /\ SameSpace
      BY <1>1, <1>2, <2>1
    <2>3. /\ leg \in Nat \ {0} /\ Len(plan) \in Nat /\ raised = "nothing" /\ ~ Condemned
          /\ PhaseOf(stage) = "running"
      BY <1>3, <2>1, LegBeingRun DEF LegStages, Acceptance, AcceptedStages
    <2>4. CASE leg' = leg + 1 /\ Continue(IF IsLastLeg THEN "render" ELSE "mappings")
      <3>1. PhaseOf(stage)' = IF leg = Len(plan) THEN "reporting" ELSE "running"
        BY <2>4 DEF PhaseOf, LegStages, IsLastLeg
      <3>2. /\ (IF leg = 0 THEN 0 ELSE leg - 1) + 1 = leg
            /\ (IF leg' = 0 THEN 0 ELSE leg' - 1) = leg
        BY <2>3, <2>4
      <3>3. Contract!CompleteLeg
        BY <2>1, <2>2, <2>3, <2>4, <3>1, <3>2
           DEF Contract!CompleteLeg, SameVerdict, SameOutputs, SameSpace, InUse
      <3> QED
        BY <3>3 DEF Contract!Next
    <2>5. CASE UNCHANGED leg /\ Raise("derive", "render")
      BY <1>5, <2>1, <2>3, <2>5 DEF LegStages, SameRun, Contract!Next
    <2> QED
      BY <2>1, <2>4, <2>5
  <1>32. CASE RenderDecisions
    <2>1. /\ stage = "render" /\ stage' = "render" /\ raised' = raised
          /\ UNCHANGED <<request, plan, leg, found, crashes, staging, scratch>>
      BY <1>32 DEF RenderDecisions
    <2>2. SameOutputs /\ SameSpace
      <3>1. ReportPaths[rendered + 1] \in ReportFiles
        BY <1>32, DecisionsAreReports DEF RenderDecisions, TypeInv, TypeOK, OutcomeTypeOK
      <3> QED
        BY <1>32, <2>1, <3>1, ReportsChangeNeitherOutputsNorHandoffs
           DEF RenderDecisions, SameOutputs, SameSpace, InUse
    <2>3. SameVerdict
      BY <1>2, <2>1
    <2> QED
      BY <2>1, <2>2, <2>3, RunStutters
  <1>33. CASE DecisionsFail \/ DecisionsRendered
    <2>1. /\ stage = "render" /\ stage' = "discard" /\ raised' \in {raised, "decisions"}
          /\ UNCHANGED <<request, plan, leg, disk, found, crashes, staging, scratch>>
      BY <1>33 DEF DecisionsFail, DecisionsRendered
    <2>2. SameVerdict /\ SameOutputs /\ SameSpace
      BY <1>1, <1>2, <2>1
    <2>3. PhaseOf(stage) = "reporting" /\ PhaseOf(stage)' = "closing"
      BY <2>1 DEF PhaseOf, LegStages
    <2>4. Contract!Report
      BY <2>1, <2>2, <2>3 DEF Contract!Report, SameVerdict, SameOutputs, SameSpace, InUse
    <2> QED
      BY <2>4 DEF Contract!Next
  <1>34. CASE DiscardScratch
    <2>1. /\ stage = "discard" /\ stage' = "done" /\ raised' = raised
          /\ UNCHANGED <<request, plan, leg, found, crashes, staging>>
          /\ IF request.keep_staging \/ scratch = "absent"
               THEN UNCHANGED <<scratch, disk>>
               ELSE scratch' = "discarded" /\ disk' = {f \in disk : f.place = Boundary}
      BY <1>34 DEF DiscardScratch
    <2>2. PhaseOf(stage) = "closing" /\ PhaseOf(stage)' = "closed"
      BY <2>1 DEF PhaseOf, LegStages
    <2>3. SameVerdict /\ {f.by : f \in OutputFiles'} \in SUBSET {f.by : f \in OutputFiles}
      BY <1>2, <2>1 DEF OutputFiles
    <2>4. InUse' = (InUse /\ request.keep_staging)
      <3>1. request.keep_staging \in BOOLEAN
        BY DocumentsAssumption DEF TypeInv, TypeOK, CallTypeOK
      <3>2. CASE request.keep_staging
        BY <2>1, <3>2 DEF InUse
      <3>3. CASE ~ request.keep_staging
        <4>1. staging = {}
          BY <2>1, <3>3 DEF Temporaries, StagedStages
        <4>2. CASE scratch = "absent"
          BY <2>1, <3>3, <4>1, <4>2 DEF Temporaries, InUse
        <4>3. CASE scratch # "absent"
          BY <2>1, <3>3, <4>1, <4>3 DEF InUse
        <4> QED
          BY <4>2, <4>3
      <3> QED
        BY <3>1, <3>2, <3>3
    <2>5. Contract!Close
      BY <2>1, <2>2, <2>3, <2>4 DEF Contract!Close, SameVerdict, InUse
    <2> QED
      BY <2>5 DEF Contract!Next
  <1>35. CASE UNCHANGED vars
    <2>1. SameVerdict /\ SameOutputs /\ SameSpace
      BY <1>1, <1>2, <1>35 DEF vars
    <2> QED
      BY <1>35, <2>1, RunStutters DEF vars
  <1> QED
    BY <1>8, <1>9, <1>11, <1>12, <1>14, <1>15, <1>16, <1>17, <1>18, <1>19, <1>20, <1>21, <1>22,
       <1>23, <1>24, <1>25, <1>26, <1>28, <1>29, <1>30, <1>31, <1>32, <1>33, <1>34, <1>35
       DEF Next, Step, Terminated

\* A run implements its contract: what it leaves published, reported and staged, and when, is
\* what ChainContract promises, whatever its plugins do.
THEOREM RunsKeepTheContract == Spec => ImplementsContract
  <1> QED
    BY TypeInit, TypeStep, UnwindingInit, UnwindingStep, AcceptanceInit, AcceptanceStep,
       TemporariesInit, TemporariesStep, StagedInit, StagedStep, ContractInit, ContractStep, PTL
       DEF Spec, ImplementsContract, Contract!Spec

=============================================================================
