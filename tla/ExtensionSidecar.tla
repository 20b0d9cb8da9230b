---------------------------- MODULE ExtensionSidecar ----------------------------
(***************************************************************************)
(* What a chain of translations does with the records no destination has a *)
(* home for: interop/core/extensions.py, the State that holds them         *)
(* (interop/core/pipeline.py), the runner that reports them                *)
(* (interop/core/runner.py), and the files they travel in                  *)
(* (interop/plugins/shared/extensions_sidecar.py).                         *)
(*                                                                         *)
(* A hop stages the sidecar the hop before it wrote, its steps read a      *)
(* record, relay it or let it be, the run reports what none of them asked  *)
(* for, and a sink writes what the steps set aside.  A record that varies  *)
(* over time states no value: a row of its kind's companion file does.     *)
(*                                                                         *)
(* A record is a subject (a kind and a name), the hop that made it, and    *)
(* whether it varies; its other fields are left out.  An empty sidecar and *)
(* an absent one are the same, as they are to a source.                    *)
(***************************************************************************)
EXTENDS Integers, Sequences

CONSTANTS
  Kinds,          (* ExtensionKind                                            *)
  CompanionKinds, (* those whose records may name a companion                 *)
  Subjects,       (* [kind, name]: what there may be a record of              *)
  Chains          (* sequences of hops                                        *)

Places == UNION {{c[h].place : h \in DOMAIN c} : c \in Chains}

\* A step of a pipeline: whether it builds a reader, the kinds it looks up by the names of
\* the components it maps, reads whole, relays with their series, and makes records of,
\* and among the last those it makes a companion for.
Steps ==
  [opens : BOOLEAN, asks : SUBSET Kinds, reads_all : SUBSET Kinds, relays : SUBSET Kinds,
   makes : SUBSET Kinds, varies : SUBSET CompanionKinds]

\* A hop: whether its source takes a sidecar and the companions beside it, the records the
\* source appends of its own, its steps, whether a sink writes a sidecar, and where to.
Hops ==
  [takes_sidecar : BOOLEAN, takes_companions : BOOLEAN, own : SUBSET Subjects,
   steps : Seq(Steps), emits : BOOLEAN, place : Places]

Records ==
  {r \in [subject : Subjects, hop : Nat, varies : BOOLEAN] :
     r.varies => r.subject.kind \in CompanionKinds}

ASSUME KindsAssumption ==
  CompanionKinds \subseteq Kinds /\ \A s \in Subjects : s.kind \in Kinds

\* Only a step with a reader reads, the records of a kind are made or relayed by one step of
\* a hop at most, and what a source states for itself no step makes again.
ASSUME ChainsAssumption ==
  \A c \in Chains :
    /\ c \in Seq(Hops) /\ c # << >>
    /\ \A h \in DOMAIN c : \A i, j \in DOMAIN c[h].steps :
         LET one == c[h].steps[i]  other == c[h].steps[j]
         IN  /\ one.opens \/ one.asks \union one.reads_all \union one.relays = {}
             /\ one.makes \intersect one.relays = {}
             /\ i # j => (one.makes \union one.relays)
                           \intersect (other.makes \union other.relays) = {}
             /\ one.varies \subseteq one.makes
             /\ \A s \in c[h].own : s.kind \notin one.makes

VARIABLES
  chain,        (* the hops; never changes                                       *)
  position,     (* of the hop being run                                          *)
  stage,        (* what it does next                                             *)
  next_step,    (* the step it runs next                                         *)
  staged,       (* source_extensions                                             *)
  staged_series,(* source_extension_series: kind -> the records it has values of *)
  opened,       (* consumed_extensions is not None                               *)
  consumed,     (* the subjects a reader of this hop was asked for               *)
  read,         (* the records it answered with                                  *)
  carried,      (* destination_extensions                                        *)
  carried_series,(* destination_extension_series                                 *)
  sidecars,     (* place -> the records of the sidecar there                     *)
  companions,   (* place, kind -> the records the companion there has values of  *)
  unwritten,    (* the companions the sink has still to write                    *)
  made,         (* every record ever made                                        *)
  used,         (* those the mappings of a hop that has run read                 *)
  reported,     (* those reported as dropped                                     *)
  unoffered     (* those staged by a hop that has no mapping for any             *)

hopVars  == <<next_step, staged, staged_series, opened, consumed, read>>
fileVars == <<sidecars, companions, unwritten>>
pastVars == <<made, used, reported, unoffered>>
sidecarVars == <<chain, position, stage, hopVars, carried, carried_series, fileVars, pastVars>>

Hop   == chain[position]
Step  == Hop.steps[next_step]
NoSeries == [k \in CompanionKinds |-> {}]

SidecarInit ==
  /\ chain \in Chains /\ position = 1 /\ stage = "load" /\ next_step = 1
  /\ staged = {} /\ staged_series = NoSeries /\ opened = FALSE /\ consumed = {} /\ read = {}
  /\ carried = {} /\ carried_series = NoSeries
  /\ sidecars = [p \in Places |-> {}] /\ companions = [p \in Places |-> NoSeries]
  /\ unwritten = {}
  /\ made = {} /\ used = {} /\ reported = {} /\ unoffered = {}

(* ------------------------------- the source ----------------------------- *)

\* The hop before this one, whose sidecar the source is given.
HasSidecar == position > 1 /\ Hop.takes_sidecar /\ chain[position - 1].emits

Source == chain[position - 1].place

Sidecar == IF HasSidecar THEN sidecars[Source] ELSE {}

\* names_companion_series: the records are asked, not the files.
Named(records) == {k \in CompanionKinds : \E r \in records : r.subject.kind = k /\ r.varies}

MissesACompanion ==
  Hop.takes_companions /\ \E k \in Named(Sidecar) : companions[Source][k] = {}

\* What the source states for itself, such as a network's attributes.
OwnRecords == [subject : Hop.own, hop : {position}, varies : {FALSE}]

StageSidecar ==
  /\ stage = "load"
  /\ ~ MissesACompanion
  /\ \E own \in SUBSET OwnRecords :
       /\ staged' = Sidecar \union own
       /\ made' = made \union own
  /\ staged_series' =
       [k \in CompanionKinds |->
          IF Hop.takes_companions /\ k \in Named(Sidecar) THEN companions[Source][k] ELSE {}]
  /\ stage' = "steps" /\ next_step' = 1
  /\ opened' = FALSE /\ consumed' = {} /\ read' = {}
  /\ carried' = {} /\ carried_series' = NoSeries
  /\ UNCHANGED <<chain, position, fileVars, used, reported, unoffered>>

\* MissingInputError: a companion that is named but not there.
RefuseBrokenPair ==
  /\ stage = "load"
  /\ MissesACompanion
  /\ stage' = "failed"
  /\ UNCHANGED <<chain, position, hopVars, carried, carried_series, fileVars, pastVars>>

(* ------------------------------- the steps ------------------------------ *)

OfKinds(records, kinds) == {r \in records : r.subject.kind \in kinds}

\* The records a step carries on as they are.
Relayed == OfKinds(staged, Step.relays)

\* append_extensions, and what it is there to prevent.
ReplaceExtensions(records) == records

AppendExtensions(records) == carried \union records

\* The names every reader of the hop was asked for.
Consumption(subjects) == consumed \union subjects

\* A relayed kind whose series is left behind.
SeriesOfMade(varying) ==
  [k \in CompanionKinds |->
     IF OfKinds(varying, {k}) # {} THEN OfKinds(varying, {k}) ELSE carried_series[k]]

\* The series beside the records a step relays, and of those it makes.
Series(varying) ==
  [k \in CompanionKinds |->
     IF k \in Step.relays /\ staged_series[k] # {} THEN staged_series[k]
     ELSE IF OfKinds(varying, {k}) # {} THEN OfKinds(varying, {k})
     ELSE carried_series[k]]

\* The records made of some subjects, some of which vary.
MadeOf(subjects, varying) ==
  {[subject |-> s, hop |-> position, varies |-> s \in varying] : s \in subjects}

\* What the readers of a step answer with: the records of the components it maps, and every
\* record of a kind it reads whole.
Answers(mapped) == {r \in staged : r.subject \in mapped} \union OfKinds(staged, Step.reads_all)

\* A step maps some components of the model, the others being out of its scope.
RunStep ==
  /\ stage = "steps"
  /\ next_step <= Len(Hop.steps)
  /\ \E mapped \in SUBSET {s \in Subjects : s.kind \in Step.asks} :
       LET answers == Answers(mapped)
       IN  /\ read' = read \union answers
           /\ consumed' = Consumption(mapped \union {r.subject : r \in answers \union Relayed})
  /\ \E subjects \in SUBSET {s \in Subjects : s.kind \in Step.makes} :
       \E varying \in SUBSET {s \in subjects : s.kind \in Step.varies} :
         /\ made' = made \union MadeOf(subjects, varying)
         /\ carried' = AppendExtensions(Relayed \union MadeOf(subjects, varying))
         /\ carried_series' = Series(MadeOf(varying, varying))
  /\ opened' = (opened \/ Step.opens)
  /\ next_step' = next_step + 1
  /\ UNCHANGED <<chain, position, stage, staged, staged_series, fileVars, used, reported,
                 unoffered>>

\* report_unread_extensions, once the last step has run.
ReportUnread ==
  /\ stage = "steps"
  /\ next_step > Len(Hop.steps)
  /\ IF opened
       THEN reported' = reported \union {r \in staged : r.subject \notin consumed}
            /\ UNCHANGED unoffered
       ELSE unoffered' = unoffered \union staged /\ UNCHANGED reported
  /\ used' = used \union read
  /\ stage' = "sinks"
  /\ UNCHANGED <<chain, position, hopVars, carried, carried_series, fileVars, made>>

(* ------------------------------- the sinks ------------------------------ *)

\* The document, and then each companion the steps staged a series for.
WriteDocument ==
  /\ stage = "sinks"
  /\ Hop.emits
  /\ sidecars' = [sidecars EXCEPT ![Hop.place] = carried]
  /\ unwritten' = {k \in CompanionKinds : carried_series[k] # {}}
  /\ stage' = "companions"
  /\ UNCHANGED <<chain, position, hopVars, carried, carried_series, companions, pastVars>>

WriteCompanion ==
  /\ stage = "companions"
  /\ \E k \in unwritten :
       /\ companions' = [companions EXCEPT ![Hop.place][k] = carried_series[k]]
       /\ unwritten' = unwritten \ {k}
  /\ UNCHANGED <<chain, position, stage, hopVars, carried, carried_series, sidecars, pastVars>>

\* Written: \/ nothing to write, \/ all of it written.
SinksAreDone ==
  \/ stage = "sinks" /\ ~ Hop.emits
  \/ stage = "companions" /\ unwritten = {}

\* The hop after the last one.
FinishHopAndGoOn ==
  /\ SinksAreDone
  /\ position' = position + 1 /\ stage' = "load"
  /\ UNCHANGED <<chain, hopVars, carried, carried_series, fileVars, pastVars>>

FinishHop ==
  /\ SinksAreDone
  /\ IF position < Len(chain) THEN position' = position + 1 /\ stage' = "load"
                              ELSE stage' = "done" /\ UNCHANGED position
  /\ UNCHANGED <<chain, hopVars, carried, carried_series, fileVars, pastVars>>

IsOver == stage \in {"done", "failed"}

\* A step, a source or a sink that raises, what was written staying behind.
FailHop ==
  /\ ~ IsOver
  /\ stage' = "failed"
  /\ UNCHANGED <<chain, position, hopVars, carried, carried_series, fileVars, pastVars>>

SidecarNext ==
  \/ StageSidecar \/ RefuseBrokenPair \/ RunStep \/ ReportUnread
  \/ WriteDocument \/ WriteCompanion \/ FinishHop \/ FailHop
  \/ IsOver /\ UNCHANGED sidecarVars

SidecarSpec == SidecarInit /\ [][SidecarNext]_sidecarVars

(* ------------------------------- properties ----------------------------- *)

SeriesFrames == [CompanionKinds -> SUBSET Records]

\* The state is well formed.
TypeOK ==
  /\ chain \in Chains /\ position \in DOMAIN chain
  /\ stage \in {"load", "steps", "sinks", "companions", "done", "failed"}
  /\ next_step \in 1..(Len(Hop.steps) + 1) \/ stage # "steps"
  /\ staged \subseteq Records /\ staged_series \in SeriesFrames
  /\ opened \in BOOLEAN /\ consumed \subseteq Subjects /\ read \subseteq Records
  /\ carried \subseteq Records /\ carried_series \in SeriesFrames
  /\ sidecars \in [Places -> SUBSET Records] /\ companions \in [Places -> SeriesFrames]
  /\ unwritten \subseteq CompanionKinds
  /\ made \subseteq Records /\ used \subseteq Records
  /\ reported \subseteq Records /\ unoffered \subseteq Records

\* What the chain left: its last sidecar, or what its last hop set aside and does not write.
Left == IF Hop.emits THEN sidecars[Hop.place] ELSE carried

\* A chain whose every hop is given the sidecar of the one before it.
IsUnbroken ==
  \A h \in DOMAIN chain : h > 1 => chain[h].takes_sidecar /\ chain[h - 1].emits

\* No record vanishes over an unbroken chain: it was read by some mapping, reported as dropped,
\* offered to a hop with no mapping for any, or is in the sidecar the chain leaves.
EveryRecordIsAccountedFor ==
  stage = "done" /\ IsUnbroken => made \subseteq used \union reported \union unoffered \union Left

\* A record reported as dropped was read by no mapping of the hop that staged it, and travels
\* no further.
NothingReportedIsKept == reported \intersect (read \union carried) = {}

\* The place of the last sidecar written in full.
IsWritten(place) ==
  \/ stage = "load" /\ position > 1 /\ chain[position - 1].emits
       /\ place = chain[position - 1].place
  \/ stage = "done" /\ Hop.emits /\ place = Hop.place

\* The values of every record of a sidecar that states none are in the companion beside it.
SeriesTravelWithTheirRecords ==
  \A place \in Places : IsWritten(place) =>
    \A r \in sidecars[place] : r.varies => r \in companions[place][r.subject.kind]

\* They are at least where every source stages the companions with the records.
SeriesTravelWhereTheyAreStaged ==
  (\A h \in DOMAIN chain : chain[h].takes_sidecar => chain[h].takes_companions)
    => SeriesTravelWithTheirRecords
=============================================================================
