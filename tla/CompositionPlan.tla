--------------------------- MODULE CompositionPlan ---------------------------
(***************************************************************************)
(* How a pipeline document becomes the ordered list of legs a run executes *)
(* (interop/core/composition/planning.py, addressing.py, document.py and   *)
(* cli_overrides.py).                                                      *)
(*                                                                         *)
(* A pipeline is a source, steps, sinks and validators; each node has a    *)
(* name and params.  A composed document lists mapping pipelines and at    *)
(* least two legs, each with params of its own laid over its manifest.  A  *)
(* plain document is the one-leg case.  A param's value is a path or       *)
(* `$<pipeline>.<node>.<param>`, a reference to a param of another leg.    *)
(*                                                                         *)
(* This module is operators only: PlanTranslation.tla steps through them   *)
(* in the order plan_translation calls them, TranslateRun.tla runs the     *)
(* plan they build.                                                        *)
(***************************************************************************)
EXTENDS Integers, Sequences, FiniteSets

CONSTANTS
  Manifests,      (* Plain pipelines: name -> spec, as load_leg_spec reads them. *)
  Boundary        (* The hand-off directory None: the run's own boundary.        *)

Mapping     == "mapping"
Translation == "translation"

NoParams == << >>                       \* the function with no argument

ElementsOf(s) == {s[i] : i \in DOMAIN s}

IsSequence(s) == s \in Seq(ElementsOf(s))

(* --------------------------- what a file declares ----------------------- *)

Directories ==
  [kind : {Mapping, Translation}, position : Nat, pipeline : DOMAIN Manifests]

\* None is no path of a directory.
ASSUME BoundaryAssumption == Boundary \notin Directories

IsNode(node) == node = [name |-> node.name, params |-> node.params]

\* A manifest as the YAML schema reads it: a source, and lists of steps, sinks, validators.
IsSpec(spec) ==
  /\ spec = [source_framework      |-> spec.source_framework,
             destination_framework |-> spec.destination_framework,
             source     |-> spec.source,
             steps      |-> spec.steps,
             sinks      |-> spec.sinks,
             validators |-> spec.validators]
  /\ IsNode(spec.source)
  /\ IsSequence(spec.steps) /\ \A n \in DOMAIN spec.steps : IsNode(spec.steps[n])
  /\ IsSequence(spec.sinks) /\ \A n \in DOMAIN spec.sinks : IsNode(spec.sinks[n])

ASSUME ManifestsAssumption == \A p \in DOMAIN Manifests : IsSpec(Manifests[p])

\* A document composes at least one leg; a plain pipeline is a document of one.
IsDocument(document) ==
  /\ IsSequence(document.mappings)
  /\ IsSequence(document.compose) /\ document.compose # << >>

AreOverrides(overrides) ==
  overrides = [source |-> overrides.source, steps |-> overrides.steps, sinks |-> overrides.sinks]

ReferenceTo(pipeline, node, param) ==
  [kind |-> "reference", pipeline |-> pipeline, node |-> node, param |-> param]

PathValue(path) == [kind |-> "path", path |-> path]

IsReference(value) == value.kind = "reference"
IsMalformed(value) == value.kind = "malformed"

(* ------------------------------- addressing ----------------------------- *)

\* Validators are not addressable: they are no part of what a leg hands over.
NodesOf(spec) == <<spec.source>> \o spec.steps \o spec.sinks

PositionsOf(spec, node) == {n \in DOMAIN NodesOf(spec) : NodesOf(spec)[n].name = node}

\* find_node raises unless exactly one node has the name.
CanFindNode(spec, node) == \E n \in DOMAIN NodesOf(spec) : PositionsOf(spec, node) = {n}

FindNode(spec, node) == NodesOf(spec)[CHOOSE n \in PositionsOf(spec, node) : TRUE]

CanReadParam(spec, node, param) ==
  /\ CanFindNode(spec, node)
  /\ param \in DOMAIN FindNode(spec, node).params

ReadParam(spec, node, param) == FindNode(spec, node).params[param]

\* The params `over` laid on top of `under`: Python's {**under, **over}.
Overlay(under, over) ==
  [p \in DOMAIN under \union DOMAIN over |-> IF p \in DOMAIN over THEN over[p] ELSE under[p]]

\* `params` is the new params of each node of the spec.
WithParams(spec, params) ==
  LET Rewritten(node) == [node EXCEPT !.params = params[node]]
  IN  [spec EXCEPT !.source = Rewritten(spec.source),
                   !.steps  = [n \in DOMAIN spec.steps |-> Rewritten(spec.steps[n])],
                   !.sinks  = [n \in DOMAIN spec.sinks |-> Rewritten(spec.sinks[n])]]

\* Every addressable node of the spec with its params replaced; the rest of it is kept.
RewriteNodes(spec, params) == WithParams(spec, params)

NodeSet(spec) == {NodesOf(spec)[n] : n \in DOMAIN NodesOf(spec)}

\* `params` is keyed by <node, param>: apply_leg_params sets each one with set_param.
ParamsFor(node, params) ==
  [p \in {a[2] : a \in {b \in DOMAIN params : b[1] = node.name}} |-> params[<<node.name, p>>]]

ApplyLegParams(spec, params) ==
  RewriteNodes(spec, [node \in NodeSet(spec) |-> Overlay(node.params, ParamsFor(node, params))])

(* -------------------------------- the legs ------------------------------ *)

\* A leg that names no manifest, or a composed one, cannot be loaded; a leg param must
\* address one node.
LegLoads(entry) ==
  /\ entry.pipeline \in DOMAIN Manifests
  /\ \A address \in DOMAIN entry.params :
       CanFindNode(Manifests[entry.pipeline], address[1])

PlanLeg(entry, kind) ==
  [pipeline |-> entry.pipeline,
   spec     |-> ApplyLegParams(Manifests[entry.pipeline], entry.params),
   kind     |-> kind,
   reads    |-> Boundary,
   writes   |-> Boundary]

Entries(document) == document.mappings \o document.compose

KindAt(document, i) == IF i <= Len(document.mappings) THEN Mapping ELSE Translation

LegsInRunOrder(document) ==
  [i \in DOMAIN Entries(document) |-> PlanLeg(Entries(document)[i], KindAt(document, i))]

TranslationIndexes(legs) == {i \in DOMAIN legs : legs[i].kind = Translation}

FirstTranslation(legs) ==
  CHOOSE i \in TranslationIndexes(legs) : \A j \in TranslationIndexes(legs) : i <= j

FinalTranslation(legs) ==
  CHOOSE i \in TranslationIndexes(legs) : \A j \in TranslationIndexes(legs) : j <= i

\* The translation legs, which follow the mapping legs.
Translations(legs) == SubSeq(legs, FirstTranslation(legs), FinalTranslation(legs))

(* ----------------------------- routing hand-offs ------------------------ *)

\* Numbered within its own kind, so a mapping pipeline does not renumber the legs.
HandoffDirectory(legs, i) ==
  [kind     |-> legs[i].kind,
   position |-> Cardinality({j \in 1..(i - 1) : legs[j].kind = legs[i].kind}),
   pipeline |-> legs[i].pipeline]

\* Routing that takes the last leg planned before this one, mapping or not, as upstream.
RouteHandoffsThroughMappings(legs) ==
  [i \in DOMAIN legs |->
     [legs[i] EXCEPT
        !.reads  = IF i > 1 THEN HandoffDirectory(legs, i - 1) ELSE Boundary,
        !.writes = IF i = FinalTranslation(legs)
                     THEN Boundary ELSE HandoffDirectory(legs, i)]]

\* Both ends of one hand-off name one directory.
RouteHandoffs(legs) ==
  [i \in DOMAIN legs |->
     [legs[i] EXCEPT
        !.reads  = IF i - 1 \in TranslationIndexes(legs)
                     THEN HandoffDirectory(legs, i - 1) ELSE Boundary,
        !.writes = IF i = FinalTranslation(legs)
                     THEN Boundary ELSE HandoffDirectory(legs, i)]]

\* What the routing is for, which planning and running it rely on.
PairsUp(planned) ==
  /\ \A i, j \in DOMAIN planned : planned[i].writes = planned[j].writes => i = j
  /\ \A i \in DOMAIN planned :
       /\ planned[i].writes = Boundary <=> i = Len(planned)
       /\ planned[i].reads =
            IF i > 1 /\ {i - 1, i} \subseteq TranslationIndexes(planned)
              THEN planned[i - 1].writes ELSE Boundary

(* ------------------------------ the chain rules ------------------------- *)

BoundariesAgree(translations) ==
  \A i \in 1..(Len(translations) - 1) :
    translations[i].spec.destination_framework = translations[i + 1].spec.source_framework

\* The references in a leg's params, with the param that holds each.
PendingReferences(leg) ==
  UNION {{[node |-> node.name, param |-> p, to |-> node.params[p]] :
            p \in {q \in DOMAIN node.params : IsReference(node.params[q])}} :
         node \in NodeSet(leg.spec)}

\* parse_reference raises on a value with the prefix and not the three segments.
ParsesReferences(leg) ==
  \A n \in DOMAIN NodesOf(leg.spec) :
    \A p \in DOMAIN NodesOf(leg.spec)[n].params : ~ IsMalformed(NodesOf(leg.spec)[n].params[p])

CanFindLeg(pipeline, legs) == \E i \in DOMAIN legs : legs[i].pipeline = pipeline

\* The first leg with the name.
FindLeg(pipeline, legs) ==
  legs[CHOOSE i \in DOMAIN legs :
         /\ legs[i].pipeline = pipeline
         /\ \A j \in 1..(i - 1) : legs[j].pipeline # pipeline]

HasTarget(reference, legs) ==
  /\ CanFindLeg(reference.pipeline, legs)
  /\ CanReadParam(FindLeg(reference.pipeline, legs).spec, reference.node, reference.param)

ReferencesHaveTargets(legs) ==
  \A i \in DOMAIN legs :
    /\ ParsesReferences(legs[i])
    /\ \A pending \in PendingReferences(legs[i]) : HasTarget(pending.to, legs)

IsWired(translations) ==
  \A i \in 1..(Len(translations) - 1) :
    \E pending \in PendingReferences(translations[i + 1]) :
      pending.to.pipeline = translations[i].pipeline

(* ------------------------------- run overrides -------------------------- *)

OverridesAt(overrides, n) == IF n \in DOMAIN overrides THEN overrides[n] ELSE NoParams

OverlayNode(node, params) == [node EXCEPT !.params = Overlay(node.params, params)]

ApplyOverrides(spec, overrides) ==
  [spec EXCEPT
     !.source = OverlayNode(spec.source, overrides.source),
     !.steps = [n \in DOMAIN spec.steps |->
                  OverlayNode(spec.steps[n], OverridesAt(overrides.steps, n))],
     !.sinks = [n \in DOMAIN spec.sinks |->
                  OverlayNode(spec.sinks[n], OverridesAt(overrides.sinks, n))]]

InputsOf(overrides)  == [overrides EXCEPT !.sinks = NoParams]
OutputsOf(overrides) == [overrides EXCEPT !.source = NoParams, !.steps = NoParams]

\* No step override on a chain, and every position an override names exists.
OverridesFit(legs, overrides) ==
  /\ DOMAIN overrides.steps # {} => Cardinality(TranslationIndexes(legs)) = 1
  /\ DOMAIN overrides.steps \subseteq DOMAIN legs[FirstTranslation(legs)].spec.steps
  /\ DOMAIN overrides.sinks \subseteq DOMAIN legs[FinalTranslation(legs)].spec.sinks

\* Source and step overrides go to the first translation leg, sink overrides to the last.
ApplyRunOverrides(legs, overrides) ==
  LET first == FirstTranslation(legs)
      inputs == [legs EXCEPT ![first].spec = ApplyOverrides(@, InputsOf(overrides))]
  IN  [inputs EXCEPT ![FinalTranslation(legs)].spec = ApplyOverrides(@, OutputsOf(overrides))]

(* --------------------------- resolving references ----------------------- *)

\* A resolution that does not look at what the reference points at.
ResolvesWithoutLooking(reference, legs) == HasTarget(reference, legs)

\* A reference points at a value, never at another reference.
Resolves(reference, legs) ==
  /\ HasTarget(reference, legs)
  /\ LET value == ReadParam(FindLeg(reference.pipeline, legs).spec,
                            reference.node, reference.param)
     IN  ~ IsReference(value) /\ ~ IsMalformed(value)

ReferencesResolve(legs) ==
  \A i \in DOMAIN legs :
    /\ ParsesReferences(legs[i])
    /\ \A pending \in PendingReferences(legs[i]) :
         /\ CanFindNode(legs[i].spec, pending.node)
         /\ Resolves(pending.to, legs)

\* The value in the pipeline's own manifest, without the params the chain gives that leg.
ManifestValue(reference, legs) ==
  ReadParam(Manifests[reference.pipeline], reference.node, reference.param)

ReferencedValue(reference, legs) ==
  ReadParam(FindLeg(reference.pipeline, legs).spec, reference.node, reference.param)

ResolvedParams(node, legs) ==
  [p \in DOMAIN node.params |->
     IF IsReference(node.params[p]) THEN ReferencedValue(node.params[p], legs)
                                    ELSE node.params[p]]

\* Resolved against the unresolved list, so the order of the legs does not matter.
ResolveReferences(legs) ==
  [i \in DOMAIN legs |->
     [legs[i] EXCEPT
        !.spec = RewriteNodes(@, [node \in NodeSet(@) |-> ResolvedParams(node, legs)])]]

\* validate_frameworks: the caller names the frameworks the document declares.
FrameworksMatch(request) ==
  /\ request.source_framework = request.document.source_framework
  /\ request.destination_framework = request.document.destination_framework

=============================================================================
