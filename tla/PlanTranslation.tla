--------------------------- MODULE PlanTranslation ---------------------------
(***************************************************************************)
(* plan_translation (interop/core/composition/planning.py) as the sequence *)
(* of rules it applies to one request: load the legs, route the hand-offs, *)
(* check the chain, lay the run's overrides over it, resolve references.   *)
(* The first rule a request breaks is the one error the user reads.        *)
(***************************************************************************)
EXTENDS CompositionPlan

CONSTANT Requests     (* the documents and overrides planned *)

ASSUME RequestsAssumption ==
  \A r \in Requests : IsDocument(r.document) /\ AreOverrides(r.overrides)

VARIABLES
  request,    (* what is planned; never changes *)
  stage,      (* the rule read next *)
  legs,       (* planned legs, mapping pipelines first *)
  rejected    (* the rule the request broke, or "nothing" *)

vars == <<request, stage, legs, rejected>>

Stages == {"load", "boundaries", "targets", "wiring", "overrides", "references", "planned"}
Rules  == {"load", "boundaries", "targets", "wiring", "overrides", "references"}

Init ==
  /\ request \in Requests
  /\ stage = "load"
  /\ legs = << >>
  /\ rejected = "nothing"

\* The rule `name` holds and the next one is read, or it is broken and planning stops.
Check(name, holds, next) ==
  /\ stage = name
  /\ holds
  /\ stage' = next
  /\ UNCHANGED <<request, rejected>>

\* A broken rule noted, and the rules after it read all the same.
RejectAndReadOn(name, holds) ==
  /\ stage = name
  /\ ~ holds
  /\ rejected' = name
  /\ UNCHANGED <<request, stage, legs>>

Reject(name, holds) ==
  /\ stage = name
  /\ ~ holds
  /\ stage' = "planned"
  /\ rejected' = name
  /\ UNCHANGED <<request, legs>>

AllLegsLoad ==
  \A i \in DOMAIN Entries(request.document) : LegLoads(Entries(request.document)[i])

LoadLegs ==
  /\ Check("load", AllLegsLoad, "boundaries")
  /\ legs' = RouteHandoffs(LegsInRunOrder(request.document))

ValidateBoundaries ==
  /\ Check("boundaries", BoundariesAgree(Translations(legs)), "targets")
  /\ UNCHANGED legs

ValidateReferenceTargets ==
  /\ Check("targets", ReferencesHaveTargets(legs), "wiring")
  /\ UNCHANGED legs

ValidateWiring ==
  /\ Check("wiring", IsWired(Translations(legs)), "overrides")
  /\ UNCHANGED legs

ApplyOverridesToLegs ==
  /\ Check("overrides", OverridesFit(legs, request.overrides), "references")
  /\ legs' = ApplyRunOverrides(legs, request.overrides)

ResolveLegReferences ==
  /\ Check("references", ReferencesResolve(legs), "planned")
  /\ legs' = ResolveReferences(legs)

RejectRequest ==
  \/ Reject("load", AllLegsLoad)
  \/ Reject("boundaries", BoundariesAgree(Translations(legs)))
  \/ Reject("targets", ReferencesHaveTargets(legs))
  \/ Reject("wiring", IsWired(Translations(legs)))
  \/ Reject("overrides", OverridesFit(legs, request.overrides))
  \/ Reject("references", ReferencesResolve(legs))

\* A planned or refused request is left as it is.
Finished == stage = "planned" /\ UNCHANGED vars

Step ==
  \/ LoadLegs \/ ValidateBoundaries \/ ValidateReferenceTargets \/ ValidateWiring
  \/ ApplyOverridesToLegs \/ ResolveLegReferences \/ RejectRequest

Next == Step \/ Finished

Spec == Init /\ [][Next]_vars

(* ------------------------------- properties ----------------------------- *)

IsPlanned == stage = "planned" /\ rejected = "nothing"

\* The legs of the request as load_legs returns them: no reference resolved, no override.
WrittenLegs == LegsInRunOrder(request.document)

\* How far the planner is, and the rule that stopped it.
StageOK ==
  /\ stage \in Stages
  /\ rejected \in Rules \union {"nothing"}
  /\ rejected # "nothing" => stage = "planned"

\* Type correctness of the planner's state; the params of a planned leg are values:
\* _resolve_references leaves no text of a reference behind for a node to be built from,
\* whichever leg holds it and whatever an override put there.
TypeOK ==
  /\ StageOK
  /\ IsPlanned =>
       \A i \in DOMAIN legs : ParsesReferences(legs[i]) /\ PendingReferences(legs[i]) = {}

\* Both ends of one hand-off are one directory and no two legs write into one: every leg
\* but the last translation leg writes a directory of its own, a translation leg reads the
\* directory of the translation leg before it, and everything else is the run's boundary.
HandoffsPairUp == IsPlanned => PairsUp(legs)

\* The pipelines a request names are distinct, so a name addresses one leg.
NamesOneLegEach ==
  \A i, j \in DOMAIN Entries(request.document) :
    Entries(request.document)[i].pipeline = Entries(request.document)[j].pipeline => i = j

\* An override of the run's output replaced the param before references were resolved.
IsOverridden(i, node, param) ==
  /\ i = FinalTranslation(legs)
  /\ \E n \in DOMAIN request.overrides.sinks :
       /\ legs[i].spec.sinks[n].name = node
       /\ param \in DOMAIN request.overrides.sinks[n]

\* A leg's reference to the leg before it becomes the very value the leg before it is run
\* with, overrides included, so the path it reads is the path that was written
\* ("the consuming leg reads back the exact relative path the producing leg wrote",
\* docs/developer_documentation/pipeline-composition.md).
ConsumerIsGivenWhatItsUpstreamProduces ==
  IsPlanned =>
    \A i \in TranslationIndexes(legs) \ {FirstTranslation(legs)} :
      \A pending \in PendingReferences(WrittenLegs[i]) :
        /\ pending.to.pipeline = legs[i - 1].pipeline
        /\ ~ IsOverridden(i, pending.node, pending.param)
        => ReadParam(legs[i].spec, pending.node, pending.param) =
             ReadParam(legs[i - 1].spec, pending.to.node, pending.to.param)

\* The same of a composed pipeline that runs each pipeline once, which every manifest of
\* the repository does.
ConsumerIsGivenWhatItsNamedUpstreamProduces ==
  NamesOneLegEach => ConsumerIsGivenWhatItsUpstreamProduces

=============================================================================
