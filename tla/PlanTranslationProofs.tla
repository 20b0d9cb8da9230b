------------------------- MODULE PlanTranslationProofs -------------------------
(***************************************************************************)
(* Theorems about PlanTranslation, for every set of requests and manifests. *)
(*                                                                         *)
(* A plan is built by three rewrites of the written legs, and every rule    *)
(* read on the way is a fact about one of them.  The invariant says which   *)
(* rewrite the planner holds and what the rules it has read establish; what *)
(* a finished plan promises then follows from the lemmas about the         *)
(* operators of CompositionPlan that come first here: what rewriting a spec *)
(* keeps, and how the hand-offs of a plan lie.                             *)
(***************************************************************************)
EXTENDS PlanTranslation, FiniteSetTheorems, TLAPS

\* A function over 1..n is a sequence of its own elements.
LEMMA FunctionIsSeq ==
  ASSUME NEW f, NEW n \in Nat, f = [i \in 1..n |-> f[i]]
  PROVE  f \in Seq(ElementsOf(f)) /\ Len(f) = n
  <1>1. \A i \in 1..n : f[i] \in ElementsOf(f)
    BY DEF ElementsOf
  <1>2. f \in [1..n -> ElementsOf(f)]
    BY <1>1
  <1> QED
    BY <1>2

\* The entries of a document are its mapping pipelines and, after them, at least one leg.
LEMMA EntriesOfADocument ==
  ASSUME NEW document, IsDocument(document)
  PROVE  LET m == Len(document.mappings)
             n == Len(Entries(document))
         IN  /\ m \in Nat /\ n \in Nat /\ m < n
             /\ DOMAIN Entries(document) = 1..n
  <1> DEFINE m == document.mappings
             c == document.compose
  <1>1. m \in Seq(ElementsOf(m)) /\ c \in Seq(ElementsOf(c)) /\ c # << >>
    BY DEF IsDocument, IsSequence
  <1>2. m \in Seq(ElementsOf(m) \union ElementsOf(c)) /\ c \in Seq(ElementsOf(m) \union ElementsOf(c))
    BY <1>1
  <1>3. Len(c) \in Nat \ {0} /\ Len(m) \in Nat
    BY <1>1
  <1>4. /\ m \o c \in Seq(ElementsOf(m) \union ElementsOf(c))
        /\ Len(m \o c) = Len(m) + Len(c)
    BY <1>2
  <1>5. Entries(document) = m \o c
    BY DEF Entries
  <1> HIDE DEF m, c
  <1>6. /\ Len(m) \in Nat /\ Len(m \o c) \in Nat /\ Len(m) < Len(m \o c)
        /\ DOMAIN (m \o c) = 1..Len(m \o c)
    BY <1>3, <1>4
  <1> QED
    BY <1>5, <1>6 DEF m

(* ------------------------------ the hand-offs --------------------------- *)

\* Everything a planned leg holds, so that a rewrite of its spec keeps the rest.
IsLeg(l) ==
  l = [pipeline |-> l.pipeline, spec |-> l.spec, kind |-> l.kind,
       reads |-> l.reads, writes |-> l.writes]

ArePlanned(plan) == IsSequence(plan) /\ \A i \in DOMAIN plan : IsLeg(plan[i])

\* `after` is `before` with the legs' specs rewritten and nothing else.
SameRoutes(before, after) ==
  /\ DOMAIN after = DOMAIN before /\ Len(after) = Len(before)
  /\ \A i \in DOMAIN before :
       /\ after[i].pipeline = before[i].pipeline
       /\ after[i].kind = before[i].kind
       /\ after[i].reads = before[i].reads
       /\ after[i].writes = before[i].writes

\* After a translation leg there are only translation legs.
TranslationsRunOn(plan) ==
  \A i \in TranslationIndexes(plan) : i + 1 \in DOMAIN plan => i + 1 \in TranslationIndexes(plan)

\* The legs of a document: its mapping pipelines are of one kind, the rest of the other.
LEMMA LegsOfADocument ==
  ASSUME NEW document, IsDocument(document)
  PROVE  LET plan == LegsInRunOrder(document)
             n == Len(Entries(document))
         IN  /\ plan = [i \in 1..n |-> plan[i]] /\ Len(plan) = n
             /\ ArePlanned(plan)
             /\ \A i \in 1..n : plan[i].kind = KindAt(document, i)
             /\ \A i \in 1..n : plan[i].pipeline = Entries(document)[i].pipeline
             /\ \A i \in 1..n : plan[i].reads = Boundary /\ plan[i].writes = Boundary
  <1> DEFINE plan == LegsInRunOrder(document)
             n == Len(Entries(document))
  <1>1. n \in Nat /\ DOMAIN Entries(document) = 1..n
    BY EntriesOfADocument
  <1>2. plan = [i \in 1..n |-> PlanLeg(Entries(document)[i], KindAt(document, i))]
    BY <1>1 DEF LegsInRunOrder
  <1>3. \A i \in 1..n : /\ IsLeg(plan[i])
                        /\ plan[i].kind = KindAt(document, i)
                        /\ plan[i].pipeline = Entries(document)[i].pipeline
                        /\ plan[i].reads = Boundary /\ plan[i].writes = Boundary
    BY <1>2 DEF PlanLeg, IsLeg
  <1> HIDE DEF plan
  <1>4. plan = [i \in 1..n |-> plan[i]] /\ DOMAIN plan = 1..n
    BY <1>2
  <1>5. plan \in Seq(ElementsOf(plan)) /\ Len(plan) = n
    BY <1>1, <1>4, FunctionIsSeq
  <1> HIDE DEF n
  <1>6. ArePlanned(plan)
    BY <1>3, <1>4, <1>5 DEF ArePlanned, IsSequence
  <1> QED
    BY <1>3, <1>4, <1>5, <1>6 DEF plan, n

\* The translation legs are the legs after the mapping pipelines; the last leg is the last
\* of them.
LEMMA TranslationsComeLast ==
  ASSUME NEW plan, NEW m \in Nat, NEW n \in Nat, m < n,
         DOMAIN plan = 1..n,
         \A i \in 1..n : plan[i].kind = IF i <= m THEN Mapping ELSE Translation
  PROVE  /\ TranslationIndexes(plan) = (m + 1)..n
         /\ FinalTranslation(plan) = n
         /\ FirstTranslation(plan) = m + 1
  <1>1. TranslationIndexes(plan) = (m + 1)..n
    <2>1. Mapping # Translation
      BY DEF Mapping, Translation
    <2> QED
      BY <2>1 DEF TranslationIndexes
  <1>2. n \in TranslationIndexes(plan) /\ \A j \in TranslationIndexes(plan) : j <= n
    BY <1>1
  <1>3. FinalTranslation(plan) = n
    <2>1. /\ FinalTranslation(plan) \in TranslationIndexes(plan)
          /\ \A j \in TranslationIndexes(plan) : j <= FinalTranslation(plan)
      BY <1>2, Zenon DEF FinalTranslation
    <2> QED
      BY <1>1, <1>2, <2>1
  <1>4. m + 1 \in TranslationIndexes(plan) /\ \A j \in TranslationIndexes(plan) : m + 1 <= j
    BY <1>1
  <1>5. FirstTranslation(plan) = m + 1
    <2>1. /\ FirstTranslation(plan) \in TranslationIndexes(plan)
          /\ \A j \in TranslationIndexes(plan) : FirstTranslation(plan) <= j
      BY <1>4, Zenon DEF FirstTranslation
    <2>2. FirstTranslation(plan) \in (m + 1)..n /\ FirstTranslation(plan) <= m + 1
      BY <1>1, <1>4, <2>1
    <2> QED
      BY <2>2
  <1> QED
    BY <1>1, <1>3, <1>5

\* Two legs have two directories: of one kind, the later leg has the higher number.
LEMMA DirectoriesDiffer ==
  ASSUME NEW plan, NEW n \in Nat, NEW i \in 1..n, NEW j \in 1..n, i < j,
         HandoffDirectory(plan, i) = HandoffDirectory(plan, j)
  PROVE  FALSE
  <1> DEFINE Before(k) == {h \in 1..(k - 1) : plan[h].kind = plan[k].kind}
  <1>1. /\ plan[i].kind = plan[j].kind
        /\ Cardinality(Before(i)) = Cardinality(Before(j))
    BY DEF HandoffDirectory
  <1>2. Before(i) \subseteq Before(j) /\ i \in Before(j) /\ i \notin Before(i)
    BY <1>1
  <1>3. IsFiniteSet(Before(j))
    <2>1. IsFiniteSet(1..(j - 1)) /\ Before(j) \subseteq 1..(j - 1)
      BY FS_Interval
    <2> HIDE DEF Before
    <2> QED
      BY <2>1, FS_Subset
  <1> HIDE DEF Before
  <1>4. Before(i) = Before(j)
    BY <1>1, <1>2, <1>3, FS_Subset
  <1> QED
    BY <1>2, <1>4

\* A hand-off is a directory of its pipeline, never the run's boundary.
LEMMA DirectoryIsNoBoundary ==
  ASSUME NEW plan, NEW i \in Nat \ {0},
         plan[i].kind \in {Mapping, Translation}, plan[i].pipeline \in DOMAIN Manifests
  PROVE  HandoffDirectory(plan, i) # Boundary
  <1> DEFINE before == {h \in 1..(i - 1) : plan[h].kind = plan[i].kind}
  <1>1. IsFiniteSet(1..(i - 1)) /\ before \subseteq 1..(i - 1)
    BY FS_Interval
  <1> HIDE DEF before
  <1>2. Cardinality(before) \in Nat
    BY <1>1, FS_Subset, FS_CardinalityType
  <1>3. HandoffDirectory(plan, i) \in Directories
    BY <1>2 DEF HandoffDirectory, Directories, before
  <1> QED
    BY <1>3, BoundaryAssumption

\* A rewrite of the specs keeps what the legs read, write and are.
LEMMA SameRoutesPairUp ==
  ASSUME NEW before, NEW after, SameRoutes(before, after)
  PROVE  /\ TranslationIndexes(after) = TranslationIndexes(before)
         /\ PairsUp(before) => PairsUp(after)
         /\ TranslationsRunOn(before) => TranslationsRunOn(after)
  <1>1. TranslationIndexes(after) = TranslationIndexes(before)
    BY DEF SameRoutes, TranslationIndexes
  <1>2. PairsUp(before) => PairsUp(after)
    BY <1>1 DEF SameRoutes, PairsUp
  <1> QED
    BY <1>1, <1>2 DEF SameRoutes, TranslationsRunOn

\* The hand-offs of a document pair up.
LEMMA RoutesPairUp ==
  ASSUME NEW document, IsDocument(document),
         \A i \in DOMAIN Entries(document) : Entries(document)[i].pipeline \in DOMAIN Manifests
  PROVE  LET plan == LegsInRunOrder(document)
             routed == RouteHandoffs(plan)
         IN  /\ ArePlanned(routed)
             /\ DOMAIN routed = DOMAIN plan /\ Len(routed) = Len(plan)
             /\ TranslationIndexes(routed) = TranslationIndexes(plan)
             /\ \A i \in DOMAIN plan : /\ routed[i].spec = plan[i].spec
                                      /\ routed[i].kind = plan[i].kind
                                      /\ routed[i].pipeline = plan[i].pipeline
             /\ TranslationsRunOn(routed)
             /\ PairsUp(routed)
  <1> DEFINE m == Len(document.mappings)
             n == Len(Entries(document))
             plan == LegsInRunOrder(document)
             routed == RouteHandoffs(plan)
  <1>1. m \in Nat /\ n \in Nat /\ m < n /\ DOMAIN Entries(document) = 1..n
    BY EntriesOfADocument
  <1>2. /\ plan = [i \in 1..n |-> plan[i]] /\ DOMAIN plan = 1..n /\ Len(plan) = n
        /\ \A i \in 1..n : IsLeg(plan[i])
        /\ \A i \in 1..n : plan[i].kind = IF i <= m THEN Mapping ELSE Translation
        /\ \A i \in 1..n : plan[i].pipeline \in DOMAIN Manifests
    BY <1>1, LegsOfADocument DEF KindAt, ArePlanned
  <1> HIDE DEF plan, m, n
  <1>3. TranslationIndexes(plan) = (m + 1)..n /\ FinalTranslation(plan) = n
    BY <1>1, <1>2, TranslationsComeLast
  <1>4. routed = [i \in 1..n |->
                    [plan[i] EXCEPT
                       !.reads  = IF i - 1 \in TranslationIndexes(plan)
                                    THEN HandoffDirectory(plan, i - 1) ELSE Boundary,
                       !.writes = IF i = FinalTranslation(plan)
                                    THEN Boundary ELSE HandoffDirectory(plan, i)]]
    BY <1>2 DEF RouteHandoffs
  <1>5. \A i \in 1..n :
          /\ IsLeg(routed[i])
          /\ routed[i].spec = plan[i].spec
          /\ routed[i].kind = plan[i].kind
          /\ routed[i].pipeline = plan[i].pipeline
          /\ routed[i].reads = IF i - 1 \in (m + 1)..n THEN HandoffDirectory(plan, i - 1) ELSE Boundary
          /\ routed[i].writes = IF i = n THEN Boundary ELSE HandoffDirectory(plan, i)
    <2> SUFFICES ASSUME NEW i \in 1..n
                 PROVE  /\ IsLeg(routed[i])
                        /\ routed[i].spec = plan[i].spec
                        /\ routed[i].kind = plan[i].kind
                        /\ routed[i].pipeline = plan[i].pipeline
                        /\ routed[i].reads = IF i - 1 \in (m + 1)..n THEN HandoffDirectory(plan, i - 1) ELSE Boundary
                        /\ routed[i].writes = IF i = n THEN Boundary ELSE HandoffDirectory(plan, i)
      OBVIOUS
    <2>1. plan[i] = [pipeline |-> plan[i].pipeline, spec |-> plan[i].spec, kind |-> plan[i].kind,
                     reads |-> plan[i].reads, writes |-> plan[i].writes]
      BY <1>2 DEF IsLeg
    <2> DEFINE r == IF i - 1 \in (m + 1)..n THEN HandoffDirectory(plan, i - 1) ELSE Boundary
               w == IF i = n THEN Boundary ELSE HandoffDirectory(plan, i)
    <2>2. routed[i] = [plan[i] EXCEPT !.reads = r, !.writes = w]
      BY <1>3, <1>4
    <2> HIDE DEF routed, r, w
    <2>3. routed[i] = [pipeline |-> plan[i].pipeline, spec |-> plan[i].spec,
                       kind |-> plan[i].kind, reads |-> r, writes |-> w]
      BY <2>1, <2>2
    <2> QED
      BY <2>3 DEF IsLeg, r, w
  <1> HIDE DEF routed
  <1>6. DOMAIN routed = 1..n /\ routed = [i \in 1..n |-> routed[i]]
    BY <1>4
  <1>7. routed \in Seq(ElementsOf(routed)) /\ Len(routed) = n
    BY <1>1, <1>6, FunctionIsSeq
  <1>8. ArePlanned(routed)
    BY <1>5, <1>6, <1>7 DEF ArePlanned, IsSequence
  <1>9. TranslationIndexes(routed) = (m + 1)..n
    <2>1. \A i \in 1..n : routed[i].kind = IF i <= m THEN Mapping ELSE Translation
      BY <1>2, <1>5
    <2> QED
      BY <1>1, <1>6, <2>1, TranslationsComeLast
  <1>10. \A i \in 1..n : i # n => HandoffDirectory(plan, i) # Boundary
    BY <1>1, <1>2, DirectoryIsNoBoundary
  <1>11. \A i, j \in 1..n : HandoffDirectory(plan, i) = HandoffDirectory(plan, j) => i = j
    <2> SUFFICES ASSUME NEW i \in 1..n, NEW j \in 1..n, i < j,
                        HandoffDirectory(plan, i) = HandoffDirectory(plan, j)
                 PROVE  FALSE
      OBVIOUS
    <2> QED
      BY <1>1, DirectoriesDiffer
  <1>12. \A i, j \in 1..n : routed[i].writes = routed[j].writes => i = j
    BY <1>5, <1>10, <1>11
  <1>13. \A i \in 1..n : routed[i].writes = Boundary <=> i = n
    BY <1>5, <1>10
  <1>14. \A i \in 1..n :
           routed[i].reads = IF i > 1 /\ {i - 1, i} \subseteq (m + 1)..n
                               THEN routed[i - 1].writes ELSE Boundary
    BY <1>1, <1>5
  <1>15. PairsUp(routed)
    <2>1. \A i \in DOMAIN routed :
            /\ routed[i].writes = Boundary <=> i = Len(routed)
            /\ routed[i].reads =
                 IF i > 1 /\ {i - 1, i} \subseteq TranslationIndexes(routed)
                   THEN routed[i - 1].writes ELSE Boundary
      <3> SUFFICES ASSUME NEW i \in 1..n
                   PROVE  /\ routed[i].writes = Boundary <=> i = Len(routed)
                          /\ routed[i].reads =
                               IF i > 1 /\ {i - 1, i} \subseteq TranslationIndexes(routed)
                                 THEN routed[i - 1].writes ELSE Boundary
        BY <1>6
      <3> QED
        BY <1>7, <1>9, <1>13, <1>14
    <2> QED
      BY <1>6, <1>12, <2>1 DEF PairsUp
  <1>16. TranslationsRunOn(routed)
    BY <1>1, <1>6, <1>9 DEF TranslationsRunOn
  <1> QED
    BY <1>2, <1>3, <1>5, <1>6, <1>7, <1>8, <1>9, <1>15, <1>16 DEF plan, routed

(* --------------------------- the nodes of a spec ------------------------ *)

\* A position among the nodes of a spec is the source's, a step's or a sink's.
LEMMA PositionsOfASpec ==
  ASSUME NEW a \in Nat, NEW b \in Nat, NEW n \in 1..(1 + a + b)
  PROVE  \/ n = 1
         \/ \E h \in 1..a : n = 1 + h
         \/ \E h \in 1..b : n = 1 + a + h
  <1>1. CASE n \in 2..(1 + a)
    <2>1. n - 1 \in 1..a /\ n = 1 + (n - 1)
      BY <1>1
    <2> QED
      BY <2>1
  <1>2. CASE n \in (2 + a)..(1 + a + b)
    <2>1. n - 1 - a \in 1..b /\ n = 1 + a + (n - 1 - a)
      BY <1>2
    <2> QED
      BY <2>1
  <1> QED
    BY <1>1, <1>2

\* The nodes of a spec, at their positions: the source, the steps, the sinks.
LEMMA NodesOfASpec ==
  ASSUME NEW spec, IsSpec(spec)
  PROVE  LET a == Len(spec.steps)
             b == Len(spec.sinks)
         IN  /\ a \in Nat /\ b \in Nat
             /\ DOMAIN spec.steps = 1..a /\ DOMAIN spec.sinks = 1..b
             /\ DOMAIN NodesOf(spec) = 1..(1 + a + b)
             /\ NodesOf(spec)[1] = spec.source
             /\ \A n \in 1..a : NodesOf(spec)[1 + n] = spec.steps[n]
             /\ \A n \in 1..b : NodesOf(spec)[1 + a + n] = spec.sinks[n]
             /\ \A n \in DOMAIN NodesOf(spec) : IsNode(NodesOf(spec)[n])
  <1> DEFINE x == spec.source
             s == spec.steps
             k == spec.sinks
             U == {x} \union ElementsOf(s) \union ElementsOf(k)
             a == Len(s)
             b == Len(k)
  <1>1. /\ s \in Seq(ElementsOf(s)) /\ k \in Seq(ElementsOf(k)) /\ IsNode(x)
        /\ \A n \in DOMAIN s : IsNode(s[n])
        /\ \A n \in DOMAIN k : IsNode(k[n])
    BY DEF IsSpec, IsSequence
  <1>2. NodesOf(spec) = <<x>> \o s \o k
    BY DEF NodesOf
  <1> HIDE DEF x, s, k
  <1>3. s \in Seq(U) /\ k \in Seq(U) /\ <<x>> \in Seq(U) /\ Len(<<x>>) = 1 /\ <<x>>[1] = x
    BY <1>1
  <1> HIDE DEF U
  <1>4. /\ <<x>> \o s \in Seq(U) /\ Len(<<x>> \o s) = 1 + a
        /\ (<<x>> \o s)[1] = x /\ \A n \in 1..a : (<<x>> \o s)[1 + n] = s[n]
    BY <1>3
  <1>5. /\ a \in Nat /\ b \in Nat /\ DOMAIN s = 1..a /\ DOMAIN k = 1..b
    BY <1>3
  <1> DEFINE h == <<x>> \o s
  <1> HIDE DEF h
  <1>6. /\ h \o k \in Seq(U) /\ Len(h \o k) = 1 + a + b
        /\ \A n \in 1..(1 + a) : (h \o k)[n] = h[n]
        /\ \A n \in 1..b : (h \o k)[1 + a + n] = k[n]
    BY <1>3, <1>4, <1>5 DEF h
  <1> DEFINE all == h \o k
  <1> HIDE DEF all
  <1>7. /\ DOMAIN all = 1..(1 + a + b) /\ all[1] = x
        /\ \A n \in 1..a : all[1 + n] = s[n]
        /\ \A n \in 1..b : all[1 + a + n] = k[n]
    BY <1>4, <1>5, <1>6 DEF h, all
  <1>8. \A n \in DOMAIN all : IsNode(all[n])
    <2> SUFFICES ASSUME NEW n \in 1..(1 + a + b) PROVE IsNode(all[n])
      BY <1>7
    <2> HIDE DEF a, b
    <2>1. n = 1 \/ (\E g \in 1..a : n = 1 + g) \/ \E g \in 1..b : n = 1 + a + g
      BY <1>5, PositionsOfASpec
    <2>2. CASE n = 1
      BY <1>1, <1>7, <2>2
    <2>3. ASSUME NEW g \in 1..a, n = 1 + g PROVE IsNode(all[n])
      <3>1. all[n] = s[g] /\ g \in DOMAIN s
        BY <1>5, <1>7, <2>3
      <3> QED
        BY <1>1, <3>1
    <2>4. ASSUME NEW g \in 1..b, n = 1 + a + g PROVE IsNode(all[n])
      <3>1. all[n] = k[g] /\ g \in DOMAIN k
        BY <1>5, <1>7, <2>4
      <3> QED
        BY <1>1, <3>1
    <2> QED
      BY <2>1, <2>2, <2>3, <2>4
  <1> QED
    BY <1>2, <1>5, <1>7, <1>8 DEF x, s, k, h, all

\* A spec whose lists are those of another spec, node for node.
SameShape(before, after) ==
  /\ Len(after.steps) = Len(before.steps) /\ Len(after.sinks) = Len(before.sinks)
  /\ DOMAIN NodesOf(after) = DOMAIN NodesOf(before)
  /\ \A n \in DOMAIN NodesOf(before) : NodesOf(after)[n].name = NodesOf(before)[n].name

\* Rewriting the params of a spec keeps its nodes, in their places, under their names.
LEMMA RewrittenNodes ==
  ASSUME NEW spec, IsSpec(spec), NEW params
  PROVE  LET after == WithParams(spec, params)
         IN  /\ IsSpec(after)
             /\ SameShape(spec, after)
             /\ \A n \in DOMAIN NodesOf(spec) :
                  NodesOf(after)[n].params = params[NodesOf(spec)[n]]
  <1> DEFINE after == WithParams(spec, params)
             New(node) == [node EXCEPT !.params = params[node]]
             a == Len(spec.steps)
             b == Len(spec.sinks)
  <1>1. /\ a \in Nat /\ b \in Nat /\ DOMAIN spec.steps = 1..a /\ DOMAIN spec.sinks = 1..b
        /\ IsNode(spec.source)
        /\ \A n \in 1..a : IsNode(spec.steps[n])
        /\ \A n \in 1..b : IsNode(spec.sinks[n])
    BY NodesOfASpec DEF IsSpec
  <1>2. \A node : IsNode(node) => New(node) = [name |-> node.name, params |-> params[node]]
    BY DEF IsNode
  <1> DEFINE s == [n \in 1..a |-> New(spec.steps[n])]
             k == [n \in 1..b |-> New(spec.sinks[n])]
             x == New(spec.source)
  <1>3. after = [spec EXCEPT !.source = x, !.steps = s, !.sinks = k]
    BY <1>1 DEF WithParams
  <1>4. /\ IsNode(x) /\ x.name = spec.source.name /\ x.params = params[spec.source]
        /\ \A n \in 1..a : /\ IsNode(s[n]) /\ s[n].name = spec.steps[n].name
                           /\ s[n].params = params[spec.steps[n]]
        /\ \A n \in 1..b : /\ IsNode(k[n]) /\ k[n].name = spec.sinks[n].name
                           /\ k[n].params = params[spec.sinks[n]]
    BY <1>1, <1>2 DEF IsNode
  <1>5. /\ s = [n \in 1..a |-> s[n]] /\ DOMAIN s = 1..a
        /\ k = [n \in 1..b |-> k[n]] /\ DOMAIN k = 1..b
    OBVIOUS
  <1> HIDE DEF x, s, k, New, after
  <1>6. /\ after = [source_framework |-> spec.source_framework,
                    destination_framework |-> spec.destination_framework,
                    source |-> x, steps |-> s, sinks |-> k, validators |-> spec.validators]
    BY <1>3 DEF IsSpec
  <1>7. s \in Seq(ElementsOf(s)) /\ Len(s) = a /\ k \in Seq(ElementsOf(k)) /\ Len(k) = b
    BY <1>1, <1>5, FunctionIsSeq
  <1>8. after.source = x /\ after.steps = s /\ after.sinks = k
    BY <1>6
  <1>9. IsSpec(after)
    BY <1>4, <1>5, <1>6, <1>7, <1>8 DEF IsSpec, IsSequence
  <1>10. \A n \in DOMAIN NodesOf(spec) :
           /\ NodesOf(after)[n].name = NodesOf(spec)[n].name
           /\ NodesOf(after)[n].params = params[NodesOf(spec)[n]]
    <2> SUFFICES ASSUME NEW n \in DOMAIN NodesOf(spec)
                 PROVE  /\ NodesOf(after)[n].name = NodesOf(spec)[n].name
                        /\ NodesOf(after)[n].params = params[NodesOf(spec)[n]]
      OBVIOUS
    <2>1. /\ DOMAIN NodesOf(spec) = 1..(1 + a + b)
          /\ NodesOf(spec)[1] = spec.source
          /\ \A h \in 1..a : NodesOf(spec)[1 + h] = spec.steps[h]
          /\ \A h \in 1..b : NodesOf(spec)[1 + a + h] = spec.sinks[h]
      BY NodesOfASpec
    <2>2. /\ NodesOf(after)[1] = x
          /\ \A h \in 1..a : NodesOf(after)[1 + h] = s[h]
          /\ \A h \in 1..b : NodesOf(after)[1 + a + h] = k[h]
      <3>1. /\ NodesOf(after)[1] = after.source
            /\ \A h \in 1..Len(after.steps) : NodesOf(after)[1 + h] = after.steps[h]
            /\ \A h \in 1..Len(after.sinks) :
                 NodesOf(after)[1 + Len(after.steps) + h] = after.sinks[h]
        BY <1>9, NodesOfASpec
      <3> QED
        BY <1>7, <1>8, <3>1
    <2> HIDE DEF a, b
    <2>3. n = 1 \/ (\E h \in 1..a : n = 1 + h) \/ \E h \in 1..b : n = 1 + a + h
      <3>1. a \in Nat /\ b \in Nat
        BY <1>1
      <3>2. n \in 1..(1 + a + b)
        BY <2>1
      <3> QED
        BY <3>1, <3>2, PositionsOfASpec
    <2>4. CASE n = 1
      BY <1>4, <2>1, <2>2, <2>4
    <2>5. CASE \E h \in 1..a : n = 1 + h
      <3>1. PICK h \in 1..a : n = 1 + h
        BY <2>5
      <3>2. NodesOf(after)[n] = s[h] /\ NodesOf(spec)[n] = spec.steps[h]
        BY <2>1, <2>2, <3>1
      <3> QED
        BY <1>4, <3>2
    <2>6. CASE \E h \in 1..b : n = 1 + a + h
      <3>1. PICK h \in 1..b : n = 1 + a + h
        BY <2>6
      <3>2. NodesOf(after)[n] = k[h] /\ NodesOf(spec)[n] = spec.sinks[h]
        BY <2>1, <2>2, <3>1
      <3> QED
        BY <1>4, <3>2
    <2> QED
      BY <2>3, <2>4, <2>5, <2>6
  <1>11. SameShape(spec, after)
    BY <1>7, <1>8, <1>9, <1>10, NodesOfASpec DEF SameShape
  <1> QED
    BY <1>9, <1>10, <1>11 DEF after

\* An override keeps the nodes of a spec, in their places, under their names, and lays its
\* params over theirs.
LEMMA OverriddenNodes ==
  ASSUME NEW spec, IsSpec(spec), NEW over
  PROVE  LET after == ApplyOverrides(spec, over)
             a == Len(spec.steps)
             b == Len(spec.sinks)
         IN  /\ IsSpec(after)
             /\ SameShape(spec, after)
             /\ NodesOf(after)[1].params = Overlay(spec.source.params, over.source)
             /\ \A h \in 1..a : NodesOf(after)[1 + h].params =
                                Overlay(spec.steps[h].params, OverridesAt(over.steps, h))
             /\ \A h \in 1..b : NodesOf(after)[1 + a + h].params =
                                Overlay(spec.sinks[h].params, OverridesAt(over.sinks, h))
  <1> DEFINE after == ApplyOverrides(spec, over)
             a == Len(spec.steps)
             b == Len(spec.sinks)
  <1>1. /\ a \in Nat /\ b \in Nat /\ DOMAIN spec.steps = 1..a /\ DOMAIN spec.sinks = 1..b
        /\ IsNode(spec.source)
        /\ \A n \in 1..a : IsNode(spec.steps[n])
        /\ \A n \in 1..b : IsNode(spec.sinks[n])
    BY NodesOfASpec DEF IsSpec
  <1>2. \A node, params : IsNode(node) =>
          OverlayNode(node, params) = [name |-> node.name, params |-> Overlay(node.params, params)]
    BY DEF IsNode, OverlayNode
  <1> DEFINE s == [n \in 1..a |-> OverlayNode(spec.steps[n], OverridesAt(over.steps, n))]
             k == [n \in 1..b |-> OverlayNode(spec.sinks[n], OverridesAt(over.sinks, n))]
             x == OverlayNode(spec.source, over.source)
  <1>3. after = [spec EXCEPT !.source = x, !.steps = s, !.sinks = k]
    BY <1>1 DEF ApplyOverrides
  <1>4. /\ IsNode(x) /\ x.name = spec.source.name
        /\ x.params = Overlay(spec.source.params, over.source)
        /\ \A n \in 1..a : /\ IsNode(s[n]) /\ s[n].name = spec.steps[n].name
                           /\ s[n].params = Overlay(spec.steps[n].params, OverridesAt(over.steps, n))
        /\ \A n \in 1..b : /\ IsNode(k[n]) /\ k[n].name = spec.sinks[n].name
                           /\ k[n].params = Overlay(spec.sinks[n].params, OverridesAt(over.sinks, n))
    <2>1. /\ x = [name |-> spec.source.name, params |-> Overlay(spec.source.params, over.source)]
          /\ \A n \in 1..a : s[n] = [name |-> spec.steps[n].name,
                                    params |-> Overlay(spec.steps[n].params, OverridesAt(over.steps, n))]
          /\ \A n \in 1..b : k[n] = [name |-> spec.sinks[n].name,
                                    params |-> Overlay(spec.sinks[n].params, OverridesAt(over.sinks, n))]
      BY <1>1, <1>2
    <2> HIDE DEF x, s, k
    <2>2. IsNode(x) /\ x.name = spec.source.name /\ x.params = Overlay(spec.source.params, over.source)
      BY <2>1 DEF IsNode
    <2>3. ASSUME NEW n \in 1..a
          PROVE  /\ IsNode(s[n]) /\ s[n].name = spec.steps[n].name
                 /\ s[n].params = Overlay(spec.steps[n].params, OverridesAt(over.steps, n))
      <3>1. s[n] = [name |-> spec.steps[n].name,
                    params |-> Overlay(spec.steps[n].params, OverridesAt(over.steps, n))]
        BY <2>1
      <3> QED
        BY <3>1 DEF IsNode
    <2>4. ASSUME NEW n \in 1..b
          PROVE  /\ IsNode(k[n]) /\ k[n].name = spec.sinks[n].name
                 /\ k[n].params = Overlay(spec.sinks[n].params, OverridesAt(over.sinks, n))
      <3>1. k[n] = [name |-> spec.sinks[n].name,
                    params |-> Overlay(spec.sinks[n].params, OverridesAt(over.sinks, n))]
        BY <2>1
      <3> QED
        BY <3>1 DEF IsNode
    <2> QED
      BY <2>2, <2>3, <2>4
  <1>5. /\ s = [n \in 1..a |-> s[n]] /\ DOMAIN s = 1..a
        /\ k = [n \in 1..b |-> k[n]] /\ DOMAIN k = 1..b
    OBVIOUS
  <1> HIDE DEF x, s, k, after
  <1>6. /\ after = [source_framework |-> spec.source_framework,
                    destination_framework |-> spec.destination_framework,
                    source |-> x, steps |-> s, sinks |-> k, validators |-> spec.validators]
    BY <1>3 DEF IsSpec
  <1>7. s \in Seq(ElementsOf(s)) /\ Len(s) = a /\ k \in Seq(ElementsOf(k)) /\ Len(k) = b
    BY <1>1, <1>5, FunctionIsSeq
  <1>8. after.source = x /\ after.steps = s /\ after.sinks = k
    BY <1>6
  <1>9. IsSpec(after)
    BY <1>4, <1>5, <1>6, <1>7, <1>8 DEF IsSpec, IsSequence
  <1>10. /\ DOMAIN NodesOf(spec) = 1..(1 + a + b)
         /\ NodesOf(spec)[1] = spec.source
         /\ \A h \in 1..a : NodesOf(spec)[1 + h] = spec.steps[h]
         /\ \A h \in 1..b : NodesOf(spec)[1 + a + h] = spec.sinks[h]
    BY NodesOfASpec
  <1>11. /\ DOMAIN NodesOf(after) = 1..(1 + a + b)
         /\ NodesOf(after)[1] = x
         /\ \A h \in 1..a : NodesOf(after)[1 + h] = s[h]
         /\ \A h \in 1..b : NodesOf(after)[1 + a + h] = k[h]
    <2>1. /\ DOMAIN NodesOf(after) = 1..(1 + Len(after.steps) + Len(after.sinks))
          /\ NodesOf(after)[1] = after.source
          /\ \A h \in 1..Len(after.steps) : NodesOf(after)[1 + h] = after.steps[h]
          /\ \A h \in 1..Len(after.sinks) :
               NodesOf(after)[1 + Len(after.steps) + h] = after.sinks[h]
      BY <1>9, NodesOfASpec
    <2> QED
      BY <1>7, <1>8, <2>1
  <1>12. \A n \in DOMAIN NodesOf(spec) : NodesOf(after)[n].name = NodesOf(spec)[n].name
    <2> SUFFICES ASSUME NEW n \in 1..(1 + a + b)
                 PROVE  NodesOf(after)[n].name = NodesOf(spec)[n].name
      BY <1>10
    <2>1. a \in Nat /\ b \in Nat
      BY <1>1
    <2> HIDE DEF a, b
    <2>2. n = 1 \/ (\E h \in 1..a : n = 1 + h) \/ \E h \in 1..b : n = 1 + a + h
      BY <2>1, PositionsOfASpec
    <2>3. CASE n = 1
      BY <1>4, <1>10, <1>11, <2>3
    <2>4. ASSUME NEW h \in 1..a, n = 1 + h PROVE NodesOf(after)[n].name = NodesOf(spec)[n].name
      <3>1. NodesOf(after)[n] = s[h] /\ NodesOf(spec)[n] = spec.steps[h]
        BY <1>10, <1>11, <2>4
      <3> QED
        BY <1>4, <3>1
    <2>5. ASSUME NEW h \in 1..b, n = 1 + a + h PROVE NodesOf(after)[n].name = NodesOf(spec)[n].name
      <3>1. NodesOf(after)[n] = k[h] /\ NodesOf(spec)[n] = spec.sinks[h]
        BY <1>10, <1>11, <2>5
      <3> QED
        BY <1>4, <3>1
    <2> QED
      BY <2>2, <2>3, <2>4, <2>5
  <1>13. SameShape(spec, after)
    BY <1>7, <1>8, <1>10, <1>11, <1>12 DEF SameShape
  <1>14. /\ NodesOf(after)[1].params = Overlay(spec.source.params, over.source)
         /\ \A h \in 1..a : NodesOf(after)[1 + h].params =
                            Overlay(spec.steps[h].params, OverridesAt(over.steps, h))
         /\ \A h \in 1..b : NodesOf(after)[1 + a + h].params =
                            Overlay(spec.sinks[h].params, OverridesAt(over.sinks, h))
    BY <1>4, <1>11
  <1> QED
    BY <1>9, <1>13, <1>14 DEF after

\* The run's output overrides leave every param alone but those of the sinks they name.
LEMMA OutputsKeepTheRest ==
  ASSUME NEW spec, IsSpec(spec), NEW over, AreOverrides(over),
         NEW n \in DOMAIN NodesOf(spec), NEW p \in DOMAIN NodesOf(spec)[n].params,
         \A h \in 1..Len(spec.sinks) :
           n = 1 + Len(spec.steps) + h /\ h \in DOMAIN over.sinks => p \notin DOMAIN over.sinks[h]
  PROVE  LET after == NodesOf(ApplyOverrides(spec, OutputsOf(over)))[n].params
         IN  p \in DOMAIN after /\ after[p] = NodesOf(spec)[n].params[p]
  <1> DEFINE out == OutputsOf(over)
             after == ApplyOverrides(spec, out)
             a == Len(spec.steps)
             b == Len(spec.sinks)
  <1>1. out.source = NoParams /\ out.steps = NoParams /\ out.sinks = over.sinks
    BY DEF OutputsOf, AreOverrides
  <1>2. DOMAIN NoParams = {}
    BY DEF NoParams
  <1>3. /\ a \in Nat /\ b \in Nat /\ DOMAIN NodesOf(spec) = 1..(1 + a + b)
        /\ NodesOf(spec)[1] = spec.source
        /\ \A h \in 1..a : NodesOf(spec)[1 + h] = spec.steps[h]
        /\ \A h \in 1..b : NodesOf(spec)[1 + a + h] = spec.sinks[h]
    BY NodesOfASpec
  <1>4. /\ NodesOf(after)[1].params = Overlay(spec.source.params, out.source)
        /\ \A h \in 1..a : NodesOf(after)[1 + h].params =
                           Overlay(spec.steps[h].params, OverridesAt(out.steps, h))
        /\ \A h \in 1..b : NodesOf(after)[1 + a + h].params =
                           Overlay(spec.sinks[h].params, OverridesAt(out.sinks, h))
    BY OverriddenNodes
  <1>5. \A under, over_ : p \in DOMAIN under /\ p \notin DOMAIN over_ =>
          p \in DOMAIN Overlay(under, over_) /\ Overlay(under, over_)[p] = under[p]
    BY DEF Overlay
  <1> HIDE DEF a, b, out, after
  <1>6. n = 1 \/ (\E h \in 1..a : n = 1 + h) \/ \E h \in 1..b : n = 1 + a + h
    <2>1. a \in Nat /\ b \in Nat /\ n \in 1..(1 + a + b)
      BY <1>3
    <2> QED
      BY <2>1, PositionsOfASpec
  <1> DEFINE new == NodesOf(after)[n].params
             old == NodesOf(spec)[n].params
  <1>7. \E added : new = Overlay(old, added) /\ p \notin DOMAIN added
    <2>1. CASE n = 1
      BY <1>1, <1>2, <1>3, <1>4, <2>1
    <2>2. ASSUME NEW h \in 1..a, n = 1 + h
          PROVE  \E added : new = Overlay(old, added) /\ p \notin DOMAIN added
      <3>1. new = Overlay(old, OverridesAt(out.steps, h))
        BY <1>3, <1>4, <2>2
      <3>2. OverridesAt(out.steps, h) = NoParams
        BY <1>1, <1>2 DEF OverridesAt
      <3> QED
        BY <1>2, <3>1, <3>2
    <2>3. ASSUME NEW h \in 1..b, n = 1 + a + h
          PROVE  \E added : new = Overlay(old, added) /\ p \notin DOMAIN added
      <3>1. new = Overlay(old, OverridesAt(out.sinks, h))
        BY <1>3, <1>4, <2>3
      <3>2. p \notin DOMAIN OverridesAt(out.sinks, h)
        BY <1>1, <1>2, <2>3 DEF OverridesAt, a, b
      <3> QED
        BY <3>1, <3>2
    <2> QED
      BY <1>6, <2>1, <2>2, <2>3
  <1> QED
    BY <1>5, <1>7 DEF after, out

(* ------------------------- rewriting the planned legs ------------------- *)

AreWellFormed(plan) == ArePlanned(plan) /\ \A i \in DOMAIN plan : IsSpec(plan[i].spec)

Respecify(l, spec) == [l EXCEPT !.spec = spec]

\* A leg whose spec is another one is a leg of the same route.
LEMMA RespecifiedLeg ==
  ASSUME NEW l, IsLeg(l), NEW spec
  PROVE  LET new == Respecify(l, spec)
         IN  /\ IsLeg(new) /\ new.spec = spec
             /\ new.pipeline = l.pipeline /\ new.kind = l.kind
             /\ new.reads = l.reads /\ new.writes = l.writes
  <1> DEFINE new == Respecify(l, spec)
  <1>1. new = [pipeline |-> l.pipeline, spec |-> spec, kind |-> l.kind,
               reads |-> l.reads, writes |-> l.writes]
    BY DEF IsLeg, Respecify
  <1> HIDE DEF new
  <1> QED
    BY <1>1 DEF IsLeg, new

Respecified(plan, specs) == [i \in DOMAIN plan |-> Respecify(plan[i], specs[i])]

\* Rewriting the spec of every leg in its place.
LEMMA RespecifiedLegs ==
  ASSUME NEW plan, ArePlanned(plan), NEW specs
  PROVE  LET new == Respecified(plan, specs)
         IN  /\ ArePlanned(new)
             /\ SameRoutes(plan, new)
             /\ \A i \in DOMAIN plan : new[i].spec = specs[i]
  <1> DEFINE n == Len(plan)
             new == Respecified(plan, specs)
  <1>1. n \in Nat /\ DOMAIN plan = 1..n /\ \A i \in 1..n : IsLeg(plan[i])
    BY DEF ArePlanned, IsSequence
  <1>2. \A i \in 1..n : new[i] = Respecify(plan[i], specs[i])
    BY <1>1 DEF Respecified
  <1>3. new = [i \in 1..n |-> new[i]] /\ DOMAIN new = 1..n
    BY <1>1 DEF Respecified
  <1> HIDE DEF new
  <1>4. new \in Seq(ElementsOf(new)) /\ Len(new) = n
    BY <1>1, <1>3, FunctionIsSeq
  <1>5. \A i \in 1..n : /\ IsLeg(new[i]) /\ new[i].spec = specs[i]
                        /\ new[i].pipeline = plan[i].pipeline /\ new[i].kind = plan[i].kind
                        /\ new[i].reads = plan[i].reads /\ new[i].writes = plan[i].writes
    BY <1>1, <1>2, RespecifiedLeg
  <1> HIDE DEF n
  <1>6. ArePlanned(new)
    BY <1>3, <1>4, <1>5 DEF ArePlanned, IsSequence
  <1>7. SameRoutes(plan, new)
    BY <1>1, <1>3, <1>4, <1>5 DEF SameRoutes, n
  <1> QED
    BY <1>1, <1>5, <1>6, <1>7 DEF new

\* Laying a run's overrides over a plan rewrites the specs of two legs at most: the first
\* translation leg's by the inputs, the last one's by the outputs.
LEMMA OverridesKeepRoutes ==
  ASSUME NEW plan, AreWellFormed(plan), NEW over
  PROVE  LET after == ApplyRunOverrides(plan, over)
         IN  /\ AreWellFormed(after)
             /\ SameRoutes(plan, after)
             /\ \A i \in DOMAIN plan : SameShape(plan[i].spec, after[i].spec)
             /\ \A i \in DOMAIN plan \ {FirstTranslation(plan)} :
                  after[i].spec = IF i = FinalTranslation(plan)
                                    THEN ApplyOverrides(plan[i].spec, OutputsOf(over))
                                    ELSE plan[i].spec
  <1> DEFINE first == FirstTranslation(plan)
             final == FinalTranslation(plan)
             In(spec)  == ApplyOverrides(spec, InputsOf(over))
             Out(spec) == ApplyOverrides(spec, OutputsOf(over))
             inputs == [plan EXCEPT ![first].spec = In(@)]
             after == [inputs EXCEPT ![final].spec = Out(@)]
             given == [i \in DOMAIN plan |-> IF i = first THEN In(plan[i].spec) ELSE plan[i].spec]
             specs == [i \in DOMAIN plan |-> IF i = final THEN Out(given[i]) ELSE given[i]]
  <1>1. after = ApplyRunOverrides(plan, over)
    BY DEF ApplyRunOverrides
  <1>2. /\ ArePlanned(plan) /\ \A i \in DOMAIN plan : IsSpec(plan[i].spec) /\ IsLeg(plan[i])
        /\ plan = [i \in DOMAIN plan |-> plan[i]]
    BY DEF AreWellFormed, ArePlanned, IsSequence
  <1> HIDE DEF In, Out, first, final
  <1>3. \A l : IsLeg(l) => Respecify(l, l.spec) = l
    BY DEF IsLeg, Respecify
  <1>4. inputs = Respecified(plan, given) /\ DOMAIN inputs = DOMAIN plan
    <2>1. inputs = [i \in DOMAIN plan |->
                      IF i = first THEN Respecify(plan[i], In(plan[i].spec)) ELSE plan[i]]
      BY <1>2 DEF Respecify
    <2>2. \A i \in DOMAIN plan :
            Respecify(plan[i], given[i]) =
              IF i = first THEN Respecify(plan[i], In(plan[i].spec)) ELSE plan[i]
      BY <1>2, <1>3
    <2> QED
      BY <2>1, <2>2 DEF Respecified
  <1> HIDE DEF inputs, given
  <1>5. /\ ArePlanned(inputs) /\ SameRoutes(plan, inputs)
        /\ \A i \in DOMAIN plan : inputs[i].spec = given[i]
    BY <1>2, <1>4, RespecifiedLegs
  <1>6. /\ \A i \in DOMAIN plan : IsLeg(inputs[i])
        /\ inputs = [i \in DOMAIN inputs |-> inputs[i]]
    BY <1>4, <1>5 DEF ArePlanned, IsSequence
  <1>7. after = Respecified(inputs, specs)
    <2>1. after = [i \in DOMAIN inputs |->
                     IF i = final THEN Respecify(inputs[i], Out(inputs[i].spec)) ELSE inputs[i]]
      BY <1>6 DEF Respecify
    <2>2. \A i \in DOMAIN inputs :
            Respecify(inputs[i], specs[i]) =
              IF i = final THEN Respecify(inputs[i], Out(inputs[i].spec)) ELSE inputs[i]
      BY <1>3, <1>4, <1>5, <1>6
    <2> QED
      BY <2>1, <2>2 DEF Respecified
  <1> HIDE DEF after, specs
  <1>8. /\ ArePlanned(after) /\ SameRoutes(inputs, after)
        /\ \A i \in DOMAIN inputs : after[i].spec = specs[i]
    BY <1>5, <1>7, RespecifiedLegs
  <1>9. SameRoutes(plan, after)
    BY <1>5, <1>8, Zenon DEF SameRoutes
  <1>10. \A i \in DOMAIN plan : IsSpec(given[i]) /\ SameShape(plan[i].spec, given[i])
    <2>1. \A i \in DOMAIN plan : SameShape(plan[i].spec, plan[i].spec)
      BY DEF SameShape
    <2>2. \A i \in DOMAIN plan : IsSpec(In(plan[i].spec)) /\ SameShape(plan[i].spec, In(plan[i].spec))
      BY <1>2, OverriddenNodes DEF In
    <2> QED
      BY <1>2, <2>1, <2>2 DEF given
  <1>11. \A i \in DOMAIN plan : IsSpec(specs[i]) /\ SameShape(given[i], specs[i])
    <2>1. \A i \in DOMAIN plan : SameShape(given[i], given[i])
      BY DEF SameShape
    <2>2. \A i \in DOMAIN plan : IsSpec(Out(given[i])) /\ SameShape(given[i], Out(given[i]))
      BY <1>10, OverriddenNodes DEF Out
    <2> QED
      BY <1>10, <2>1, <2>2 DEF specs
  <1>12. \A i \in DOMAIN plan : SameShape(plan[i].spec, specs[i])
    BY <1>10, <1>11, Zenon DEF SameShape
  <1>13. \A i \in DOMAIN plan \ {first} :
           specs[i] = IF i = final THEN Out(plan[i].spec) ELSE plan[i].spec
    BY DEF specs, given
  <1>14. AreWellFormed(after) /\ \A i \in DOMAIN plan : after[i].spec = specs[i]
    BY <1>4, <1>8, <1>9, <1>11 DEF AreWellFormed, SameRoutes
  <1> QED
    BY <1>1, <1>9, <1>12, <1>13, <1>14 DEF first, final, Out

\* Resolving the references of a plan rewrites params and nothing else.
LEMMA ResolutionKeepsRoutes ==
  ASSUME NEW plan, AreWellFormed(plan)
  PROVE  LET after == ResolveReferences(plan)
         IN  /\ AreWellFormed(after)
             /\ SameRoutes(plan, after)
             /\ \A i \in DOMAIN plan :
                  /\ SameShape(plan[i].spec, after[i].spec)
                  /\ \A n \in DOMAIN NodesOf(plan[i].spec) :
                       NodesOf(after[i].spec)[n].params =
                         ResolvedParams(NodesOf(plan[i].spec)[n], plan)
  <1> DEFINE after == ResolveReferences(plan)
             New(spec) == [node \in NodeSet(spec) |-> ResolvedParams(node, plan)]
             specs == [i \in DOMAIN plan |-> RewriteNodes(plan[i].spec, New(plan[i].spec))]
  <1>1. ArePlanned(plan) /\ \A i \in DOMAIN plan : IsSpec(plan[i].spec)
    BY DEF AreWellFormed
  <1>2. after = Respecified(plan, specs)
    BY DEF ResolveReferences, Respecified, Respecify
  <1>3. \A i \in DOMAIN plan :
          /\ IsSpec(specs[i]) /\ SameShape(plan[i].spec, specs[i])
          /\ \A n \in DOMAIN NodesOf(plan[i].spec) :
               NodesOf(specs[i])[n].params = New(plan[i].spec)[NodesOf(plan[i].spec)[n]]
    <2> HIDE DEF New
    <2> QED
      BY <1>1, RewrittenNodes DEF RewriteNodes
  <1>4. \A i \in DOMAIN plan : \A n \in DOMAIN NodesOf(plan[i].spec) :
          New(plan[i].spec)[NodesOf(plan[i].spec)[n]] = ResolvedParams(NodesOf(plan[i].spec)[n], plan)
    BY DEF NodeSet
  <1> HIDE DEF specs, New, after
  <1>5. /\ ArePlanned(after) /\ SameRoutes(plan, after)
        /\ \A i \in DOMAIN plan : after[i].spec = specs[i]
    BY <1>1, <1>2, RespecifiedLegs
  <1>6. AreWellFormed(after)
    BY <1>3, <1>5 DEF AreWellFormed, SameRoutes
  <1> QED
    BY <1>3, <1>4, <1>5, <1>6 DEF after

\* A plan whose legs' hand-offs are routed, so that each reads what the one before it writes.
IsRouted(plan) == AreWellFormed(plan) /\ PairsUp(plan) /\ TranslationsRunOn(plan)

\* The legs of a document whose pipelines are all in the catalog are routed when they are
\* loaded: load_legs, then route_handoffs.
LEMMA LoadedLegsAreRouted ==
  ASSUME NEW document, IsDocument(document),
         \A i \in DOMAIN Entries(document) : Entries(document)[i].pipeline \in DOMAIN Manifests
  PROVE  IsRouted(RouteHandoffs(LegsInRunOrder(document)))
  <1> DEFINE written == LegsInRunOrder(document)
             routed == RouteHandoffs(written)
  <1>1. /\ ArePlanned(routed) /\ DOMAIN routed = DOMAIN written
        /\ \A i \in DOMAIN written : routed[i].spec = written[i].spec
        /\ TranslationsRunOn(routed) /\ PairsUp(routed)
    BY RoutesPairUp
  <1>2. \A i \in DOMAIN written : IsSpec(written[i].spec)
    <2> SUFFICES ASSUME NEW i \in DOMAIN written PROVE IsSpec(written[i].spec)
      OBVIOUS
    <2> DEFINE e == Entries(document)[i]
    <2>1. i \in DOMAIN Entries(document) /\ written[i] = PlanLeg(e, KindAt(document, i))
      BY DEF LegsInRunOrder
    <2>2. written[i].spec = ApplyLegParams(Manifests[e.pipeline], e.params)
      BY <2>1 DEF PlanLeg
    <2>3. IsSpec(Manifests[e.pipeline])
      BY <2>1, ManifestsAssumption
    <2> QED
      BY <2>2, <2>3, RewrittenNodes DEF ApplyLegParams, RewriteNodes
  <1> QED
    BY <1>1, <1>2 DEF IsRouted, AreWellFormed

\* No rewrite of a routed plan's specs changes a route.
LEMMA RewritesKeepRoutes ==
  ASSUME NEW plan, IsRouted(plan), NEW over
  PROVE  IsRouted(ApplyRunOverrides(plan, over)) /\ IsRouted(ResolveReferences(plan))
  <1>1. AreWellFormed(plan) /\ PairsUp(plan) /\ TranslationsRunOn(plan)
    BY DEF IsRouted
  <1>2. /\ AreWellFormed(ApplyRunOverrides(plan, over))
        /\ SameRoutes(plan, ApplyRunOverrides(plan, over))
    BY <1>1, OverridesKeepRoutes
  <1>3. AreWellFormed(ResolveReferences(plan)) /\ SameRoutes(plan, ResolveReferences(plan))
    BY <1>1, ResolutionKeepsRoutes
  <1> QED
    BY <1>1, <1>2, <1>3, SameRoutesPairUp DEF IsRouted

(* ----------------------------- the invariant ---------------------------- *)

Routed == RouteHandoffs(WrittenLegs)

Overridden == ApplyRunOverrides(Routed, request.overrides)

\* The rewrite of the written legs the planner holds, and the rules that let it pass.
Progress ==
  rejected = "nothing" =>
    /\ stage # "load" => AllLegsLoad
    /\ stage \in {"boundaries", "targets", "wiring", "overrides"} => legs = Routed
    /\ stage = "references" => legs = Overridden
    /\ stage = "planned" =>
         legs = ResolveReferences(Overridden) /\ ReferencesResolve(Overridden)

IInv == request \in Requests /\ StageOK /\ Progress

LEMMA InvInit == Init => IInv
  BY DEF Init, IInv, StageOK, Stages, Rules, Progress

\* Each rule leaves the rewrite the next one reads.
LEMMA InvStep == IInv /\ [Next]_vars => IInv'
  <1> SUFFICES ASSUME IInv, [Next]_vars PROVE IInv'
    OBVIOUS
  <1> USE DEF IInv, StageOK, Stages, Rules
  <1>1. CASE LoadLegs
    <2>1. /\ stage = "load" /\ stage' = "boundaries" /\ legs' = Routed /\ AllLegsLoad
          /\ request' = request /\ rejected' = rejected
      BY <1>1 DEF LoadLegs, Check, Routed, WrittenLegs
    <2>2. AllLegsLoad' /\ legs' = Routed'
      BY <2>1 DEF AllLegsLoad, Routed, WrittenLegs
    <2>3. Progress'
      BY <2>1, <2>2 DEF Progress
    <2> QED
      BY <2>1, <2>3
  <1>2. CASE ValidateBoundaries \/ ValidateReferenceTargets \/ ValidateWiring
    <2>1. /\ stage \in {"boundaries", "targets", "wiring"}
          /\ stage' \in {"targets", "wiring", "overrides"}
          /\ legs' = legs /\ request' = request /\ rejected' = rejected
      BY <1>2 DEF ValidateBoundaries, ValidateReferenceTargets, ValidateWiring, Check
    <2>2. (AllLegsLoad' <=> AllLegsLoad) /\ Routed' = Routed
      BY <2>1 DEF AllLegsLoad, Routed, WrittenLegs
    <2> QED
      BY <2>1, <2>2 DEF Progress
  <1>3. CASE ApplyOverridesToLegs
    <2>1. /\ stage = "overrides" /\ stage' = "references"
          /\ legs' = ApplyRunOverrides(legs, request.overrides)
          /\ request' = request /\ rejected' = rejected
      BY <1>3 DEF ApplyOverridesToLegs, Check
    <2>2. (AllLegsLoad' <=> AllLegsLoad) /\ Overridden' = Overridden
      BY <2>1 DEF AllLegsLoad, Overridden, Routed, WrittenLegs
    <2>3. rejected = "nothing" => legs' = Overridden
      BY <2>1 DEF Progress, Overridden
    <2> QED
      BY <2>1, <2>2, <2>3 DEF Progress
  <1>4. CASE ResolveLegReferences
    <2>1. /\ stage = "references" /\ stage' = "planned"
          /\ legs' = ResolveReferences(legs) /\ ReferencesResolve(legs)
          /\ request' = request /\ rejected' = rejected
      BY <1>4 DEF ResolveLegReferences, Check
    <2>2. /\ AllLegsLoad' <=> AllLegsLoad
          /\ Overridden' = Overridden
          /\ ResolveReferences(Overridden)' = ResolveReferences(Overridden)
          /\ ReferencesResolve(Overridden)' <=> ReferencesResolve(Overridden)
      <3>1. request' = request
        BY <2>1
      <3> QED
        BY <3>1 DEF AllLegsLoad, Overridden, Routed, WrittenLegs
    <2>3. rejected = "nothing" =>
            legs' = ResolveReferences(Overridden) /\ ReferencesResolve(Overridden)
      BY <2>1 DEF Progress
    <2> QED
      BY <2>1, <2>2, <2>3 DEF Progress
  <1>5. CASE RejectRequest
    <2>1. /\ stage' = "planned" /\ rejected' = stage /\ request' = request
          /\ stage \in Rules
      BY <1>5 DEF RejectRequest, Reject
    <2> QED
      BY <2>1 DEF Progress
  <1>6. CASE UNCHANGED vars
    <2>1. request' = request /\ stage' = stage /\ legs' = legs /\ rejected' = rejected
      BY <1>6 DEF vars
    <2>2. Progress' <=> Progress
      BY <2>1 DEF Progress, AllLegsLoad, Overridden, Routed, WrittenLegs
    <2> QED
      BY <2>1, <2>2
  <1> QED
    BY <1>1, <1>2, <1>3, <1>4, <1>5, <1>6 DEF Next, Step, Finished

LEMMA InvHolds == Spec => []IInv
  BY InvInit, InvStep, PTL DEF Spec

(* ----------------------------- a finished plan -------------------------- *)

\* The legs load_legs returns, routed, are legs of manifests and pair up.
LEMMA LegsAreRouted ==
  ASSUME request \in Requests, AllLegsLoad
  PROVE  /\ AreWellFormed(Routed)
         /\ DOMAIN Routed = DOMAIN Entries(request.document)
         /\ \A i \in DOMAIN Routed : /\ Routed[i].spec = WrittenLegs[i].spec
                                     /\ Routed[i].kind = WrittenLegs[i].kind
                                     /\ Routed[i].pipeline = Entries(request.document)[i].pipeline
         /\ PairsUp(Routed)
  <1> DEFINE d == request.document
             n == Len(Entries(d))
  <1>1. IsDocument(d)
    BY RequestsAssumption
  <1>2. \A i \in DOMAIN Entries(d) : Entries(d)[i].pipeline \in DOMAIN Manifests
    BY DEF AllLegsLoad, LegLoads
  <1>3. IsRouted(Routed)
    BY <1>1, <1>2, LoadedLegsAreRouted DEF Routed, WrittenLegs
  <1>4. /\ DOMAIN WrittenLegs = DOMAIN Entries(d)
        /\ \A i \in DOMAIN Entries(d) : WrittenLegs[i].pipeline = Entries(d)[i].pipeline
    <2>1. n \in Nat /\ DOMAIN Entries(d) = 1..n
      BY <1>1, EntriesOfADocument
    <2> QED
      BY <1>1, <2>1, LegsOfADocument DEF WrittenLegs
  <1>5. /\ DOMAIN Routed = DOMAIN WrittenLegs
        /\ \A i \in DOMAIN WrittenLegs : /\ Routed[i].spec = WrittenLegs[i].spec
                                         /\ Routed[i].kind = WrittenLegs[i].kind
                                         /\ Routed[i].pipeline = WrittenLegs[i].pipeline
    BY <1>1, <1>2, RoutesPairUp DEF Routed, WrittenLegs
  <1> QED
    BY <1>3, <1>4, <1>5 DEF IsRouted

\* What the rewrites of a finished plan leave alone, and what the last of them puts in the
\* place of a reference.
LEMMA PlanIsRewritten ==
  ASSUME IInv, IsPlanned
  PROVE  /\ AllLegsLoad /\ ReferencesResolve(Overridden)
         /\ AreWellFormed(Routed) /\ AreWellFormed(Overridden) /\ AreWellFormed(legs)
         /\ SameRoutes(Routed, Overridden) /\ SameRoutes(Overridden, legs)
         /\ \A i \in DOMAIN legs :
              /\ SameShape(Routed[i].spec, Overridden[i].spec)
              /\ SameShape(Overridden[i].spec, legs[i].spec)
              /\ \A n \in DOMAIN NodesOf(legs[i].spec) :
                   NodesOf(legs[i].spec)[n].params =
                     ResolvedParams(NodesOf(Overridden[i].spec)[n], Overridden)
  <1>1. AllLegsLoad /\ legs = ResolveReferences(Overridden) /\ ReferencesResolve(Overridden)
    BY DEF IInv, IsPlanned, Progress
  <1>2. AreWellFormed(Routed)
    BY <1>1, LegsAreRouted DEF IInv
  <1>3. /\ AreWellFormed(Overridden) /\ SameRoutes(Routed, Overridden)
        /\ \A i \in DOMAIN Routed : SameShape(Routed[i].spec, Overridden[i].spec)
    BY <1>2, OverridesKeepRoutes DEF Overridden
  <1>4. /\ AreWellFormed(legs) /\ SameRoutes(Overridden, legs)
        /\ \A i \in DOMAIN Overridden :
             /\ SameShape(Overridden[i].spec, legs[i].spec)
             /\ \A n \in DOMAIN NodesOf(Overridden[i].spec) :
                  NodesOf(legs[i].spec)[n].params =
                    ResolvedParams(NodesOf(Overridden[i].spec)[n], Overridden)
    BY <1>1, <1>3, ResolutionKeepsRoutes
  <1>5. DOMAIN Routed = DOMAIN legs /\ DOMAIN Overridden = DOMAIN legs
    BY <1>3, <1>4 DEF SameRoutes
  <1>6. \A i \in DOMAIN legs : DOMAIN NodesOf(legs[i].spec) = DOMAIN NodesOf(Overridden[i].spec)
    BY <1>4, <1>5 DEF SameShape
  <1> QED
    BY <1>1, <1>2, <1>3, <1>4, <1>5, <1>6

\* Both ends of every hand-off of a finished plan are one directory, no two legs write into
\* one, and the ends of the chain are the run's boundary.
THEOREM HandoffsAreRouted == Spec => []HandoffsPairUp
  <1>1. IInv => HandoffsPairUp
    <2> SUFFICES ASSUME IInv, IsPlanned PROVE PairsUp(legs)
      BY DEF HandoffsPairUp
    <2>1. /\ AllLegsLoad /\ SameRoutes(Routed, Overridden) /\ SameRoutes(Overridden, legs)
      BY PlanIsRewritten
    <2>2. PairsUp(Routed)
      BY <2>1, LegsAreRouted DEF IInv
    <2> QED
      BY <2>1, <2>2, SameRoutesPairUp
  <1> QED
    BY <1>1, InvHolds, PTL

\* No text of a reference is left in a finished plan, whichever leg held it.
THEOREM TypeCorrect == Spec => []TypeOK
  <1>1. IInv /\ IsPlanned =>
          \A i \in DOMAIN legs : ParsesReferences(legs[i]) /\ PendingReferences(legs[i]) = {}
    <2> SUFFICES ASSUME IInv, IsPlanned, NEW i \in DOMAIN legs
                 PROVE  ParsesReferences(legs[i]) /\ PendingReferences(legs[i]) = {}
      OBVIOUS
    <2> DEFINE old == NodesOf(Overridden[i].spec)
               new == NodesOf(legs[i].spec)
    <2>1. /\ ReferencesResolve(Overridden)
          /\ DOMAIN Overridden = DOMAIN legs
          /\ SameShape(Overridden[i].spec, legs[i].spec)
          /\ \A n \in DOMAIN new : new[n].params = ResolvedParams(old[n], Overridden)
      BY PlanIsRewritten DEF SameRoutes
    <2>2. DOMAIN new = DOMAIN old
      BY <2>1 DEF SameShape
    <2>3. ASSUME NEW n \in DOMAIN new, NEW p \in DOMAIN new[n].params
          PROVE  ~ IsReference(new[n].params[p]) /\ ~ IsMalformed(new[n].params[p])
      <3>1. /\ p \in DOMAIN old[n].params
            /\ new[n].params[p] = IF IsReference(old[n].params[p])
                                    THEN ReferencedValue(old[n].params[p], Overridden)
                                    ELSE old[n].params[p]
        <4>1. new[n].params = ResolvedParams(old[n], Overridden)
          BY <2>1
        <4>2. p \in DOMAIN ResolvedParams(old[n], Overridden)
          BY <4>1
        <4> QED
          BY <4>1, <4>2 DEF ResolvedParams
      <3>2. CASE ~ IsReference(old[n].params[p])
        BY <2>1, <2>2, <3>1, <3>2 DEF ReferencesResolve, ParsesReferences
      <3>3. CASE IsReference(old[n].params[p])
        <4> DEFINE to == old[n].params[p]
                   pending == [node |-> old[n].name, param |-> p, to |-> to]
        <4>1. old[n] \in NodeSet(Overridden[i].spec)
          BY <2>2 DEF NodeSet
        <4>2. pending \in PendingReferences(Overridden[i])
          BY <3>1, <3>3, <4>1 DEF PendingReferences
        <4>3. Resolves(to, Overridden)
          BY <2>1, <4>2 DEF ReferencesResolve
        <4> QED
          BY <3>1, <3>3, <4>3 DEF Resolves, ReferencedValue
      <3> QED
        BY <3>2, <3>3
    <2>4. ParsesReferences(legs[i])
      BY <2>3 DEF ParsesReferences
    <2>5. PendingReferences(legs[i]) = {}
      BY <2>3 DEF PendingReferences, NodeSet
    <2> QED
      BY <2>4, <2>5
  <1>2. IInv => TypeOK
    BY <1>1 DEF IInv, TypeOK
  <1> QED
    BY <1>2, InvHolds, PTL

(* ------------------------ what a consumer is given ---------------------- *)

\* A name one node has finds that node.
LEMMA TheNodeIsFound ==
  ASSUME NEW spec, NEW n \in DOMAIN NodesOf(spec), CanFindNode(spec, NodesOf(spec)[n].name)
  PROVE  FindNode(spec, NodesOf(spec)[n].name) = NodesOf(spec)[n]
  <1> DEFINE name == NodesOf(spec)[n].name
  <1>1. n \in PositionsOf(spec, name)
    BY DEF PositionsOf
  <1>2. PositionsOf(spec, name) = {n}
    BY <1>1 DEF CanFindNode
  <1>3. (CHOOSE m \in PositionsOf(spec, name) : TRUE) = n
    BY <1>2
  <1> QED
    BY <1>3 DEF FindNode

\* A spec of the same shape finds the node in the same place.
LEMMA NamesAreKept ==
  ASSUME NEW before, NEW after, SameShape(before, after), NEW name, CanFindNode(before, name)
  PROVE  /\ CanFindNode(after, name)
         /\ \E n \in DOMAIN NodesOf(before) :
              /\ NodesOf(before)[n].name = name
              /\ FindNode(before, name) = NodesOf(before)[n]
              /\ FindNode(after, name) = NodesOf(after)[n]
  <1>1. PICK n \in DOMAIN NodesOf(before) : PositionsOf(before, name) = {n}
    BY DEF CanFindNode
  <1>2. PositionsOf(after, name) = PositionsOf(before, name) /\ n \in DOMAIN NodesOf(after)
    BY <1>1 DEF SameShape, PositionsOf
  <1>3. NodesOf(before)[n].name = name /\ NodesOf(after)[n].name = name
    BY <1>1, <1>2 DEF PositionsOf
  <1>4. CanFindNode(after, name)
    BY <1>1, <1>2 DEF CanFindNode
  <1>5. FindNode(before, name) = NodesOf(before)[n] /\ FindNode(after, name) = NodesOf(after)[n]
    BY <1>2, <1>3, <1>4, TheNodeIsFound
  <1> QED
    BY <1>3, <1>4, <1>5

\* Of legs with distinct names, the name of one finds it.
LEMMA TheLegIsFound ==
  ASSUME NEW planned, ArePlanned(planned),
         \A g, h \in DOMAIN planned : planned[g].pipeline = planned[h].pipeline => g = h,
         NEW i \in DOMAIN planned
  PROVE  FindLeg(planned[i].pipeline, planned) = planned[i]
  <1> DEFINE IsFound(g) == /\ planned[g].pipeline = planned[i].pipeline
                           /\ \A h \in 1..(g - 1) : planned[h].pipeline # planned[i].pipeline
  <1>1. IsFound(i)
    <2>1. \A h \in 1..(i - 1) : h \in DOMAIN planned /\ h # i
      BY DEF ArePlanned, IsSequence
    <2> QED
      BY <2>1
  <1>2. \A g \in DOMAIN planned : IsFound(g) => g = i
    OBVIOUS
  <1>3. (CHOOSE g \in DOMAIN planned : IsFound(g)) = i
    BY <1>1, <1>2
  <1> QED
    BY <1>3 DEF FindLeg

\* A reference no output override replaced is still there when the references are resolved.
LEMMA UnoverriddenReferenceStays ==
  ASSUME IInv, IsPlanned,
         NEW i \in TranslationIndexes(legs) \ {FirstTranslation(legs)},
         NEW pending \in PendingReferences(WrittenLegs[i]),
         ~ IsOverridden(i, pending.node, pending.param)
  PROVE  \E n \in DOMAIN NodesOf(Overridden[i].spec) :
           LET node == NodesOf(Overridden[i].spec)[n]
           IN  /\ node.name = pending.node
               /\ pending.param \in DOMAIN node.params
               /\ node.params[pending.param] = pending.to
               /\ IsReference(pending.to)
               /\ pending \in PendingReferences(Overridden[i])
  <1> DEFINE spec == Routed[i].spec
             over == request.overrides
             a == Len(spec.steps)
             b == Len(spec.sinks)
  <1>1. /\ AllLegsLoad /\ i \in DOMAIN legs
        /\ AreWellFormed(Routed) /\ AreWellFormed(legs)
        /\ SameRoutes(Routed, Overridden) /\ SameRoutes(Overridden, legs)
        /\ SameShape(spec, Overridden[i].spec) /\ SameShape(Overridden[i].spec, legs[i].spec)
    BY PlanIsRewritten DEF TranslationIndexes
  <1>2. i \in DOMAIN Routed /\ IsSpec(spec) /\ IsSpec(legs[i].spec)
    BY <1>1 DEF SameRoutes, AreWellFormed
  <1>3. spec = WrittenLegs[i].spec
    BY <1>1, <1>2, LegsAreRouted DEF IInv
  <1>4. PICK n \in DOMAIN NodesOf(spec) :
          LET node == NodesOf(spec)[n]
          IN  /\ node.name = pending.node
              /\ pending.param \in DOMAIN node.params
              /\ node.params[pending.param] = pending.to
              /\ IsReference(pending.to)
              /\ pending = [node |-> node.name, param |-> pending.param, to |-> pending.to]
    <2>1. PICK node \in NodeSet(spec) :
            \E q \in DOMAIN node.params :
              /\ IsReference(node.params[q])
              /\ pending = [node |-> node.name, param |-> q, to |-> node.params[q]]
      BY <1>3 DEF PendingReferences
    <2>2. PICK n \in DOMAIN NodesOf(spec) : node = NodesOf(spec)[n]
      BY DEF NodeSet
    <2> QED
      BY <2>1, <2>2
  <1> DEFINE p == pending.param
  <1>5. /\ TranslationIndexes(legs) = TranslationIndexes(Routed)
        /\ FirstTranslation(legs) = FirstTranslation(Routed)
        /\ FinalTranslation(legs) = FinalTranslation(Routed)
    BY <1>1, SameRoutesPairUp DEF FirstTranslation, FinalTranslation
  <1>6. Overridden[i].spec = IF i = FinalTranslation(legs)
                               THEN ApplyOverrides(spec, OutputsOf(over)) ELSE spec
    BY <1>1, <1>2, <1>5, OverridesKeepRoutes DEF Overridden
  <1>7. LET now == NodesOf(Overridden[i].spec)[n].params
        IN  p \in DOMAIN now /\ now[p] = NodesOf(spec)[n].params[p]
    <2>1. CASE i # FinalTranslation(legs)
      BY <1>4, <1>6, <2>1
    <2>2. CASE i = FinalTranslation(legs)
      <3>1. AreOverrides(over)
        BY RequestsAssumption DEF IInv
      <3>2. ASSUME NEW h \in 1..b, n = 1 + a + h, h \in DOMAIN over.sinks
            PROVE  p \notin DOMAIN over.sinks[h]
        <4>1. Len(legs[i].spec.steps) = a /\ Len(legs[i].spec.sinks) = b
          BY <1>1 DEF SameShape
        <4>2. NodesOf(legs[i].spec)[n] = legs[i].spec.sinks[h]
          <5>1. \A g \in 1..Len(legs[i].spec.sinks) :
                  NodesOf(legs[i].spec)[1 + Len(legs[i].spec.steps) + g] = legs[i].spec.sinks[g]
            BY <1>2, NodesOfASpec
          <5> QED
            BY <3>2, <4>1, <5>1
        <4>3. NodesOf(legs[i].spec)[n].name = pending.node
          BY <1>1, <1>4 DEF SameShape
        <4> QED
          BY <2>2, <3>2, <4>2, <4>3 DEF IsOverridden
      <3>3. p \in DOMAIN NodesOf(spec)[n].params
        BY <1>4
      <3> HIDE DEF p, over, spec
      <3> QED
        BY <1>2, <1>6, <2>2, <3>1, <3>2, <3>3, OutputsKeepTheRest DEF a, b
    <2> QED
      BY <2>1, <2>2
  <1>8. n \in DOMAIN NodesOf(Overridden[i].spec) /\ NodesOf(Overridden[i].spec)[n].name = pending.node
    BY <1>1, <1>4 DEF SameShape
  <1>9. pending \in PendingReferences(Overridden[i])
    <2>1. NodesOf(Overridden[i].spec)[n] \in NodeSet(Overridden[i].spec)
      BY <1>8 DEF NodeSet
    <2> QED
      BY <1>4, <1>7, <1>8, <2>1 DEF PendingReferences
  <1> QED
    BY <1>4, <1>7, <1>8, <1>9

\* The param a reference names, of the leg that is found for it, keeps its value: it is no
\* reference itself.
LEMMA ReferencedParamStays ==
  ASSUME IInv, IsPlanned, NEW i \in DOMAIN legs, NEW node, NEW param,
         CanReadParam(Overridden[i].spec, node, param),
         ~ IsReference(ReadParam(Overridden[i].spec, node, param))
  PROVE  ReadParam(legs[i].spec, node, param) = ReadParam(Overridden[i].spec, node, param)
  <1>1. /\ SameShape(Overridden[i].spec, legs[i].spec)
        /\ \A n \in DOMAIN NodesOf(legs[i].spec) :
             NodesOf(legs[i].spec)[n].params = ResolvedParams(NodesOf(Overridden[i].spec)[n], Overridden)
    BY PlanIsRewritten
  <1>2. CanFindNode(Overridden[i].spec, node)
    BY DEF CanReadParam
  <1>3. PICK n \in DOMAIN NodesOf(Overridden[i].spec) :
          /\ FindNode(Overridden[i].spec, node) = NodesOf(Overridden[i].spec)[n]
          /\ FindNode(legs[i].spec, node) = NodesOf(legs[i].spec)[n]
    BY <1>1, <1>2, NamesAreKept
  <1> DEFINE old == NodesOf(Overridden[i].spec)[n]
             new == NodesOf(legs[i].spec)[n]
  <1>4. new.params = ResolvedParams(old, Overridden)
    BY <1>1, <1>3 DEF SameShape
  <1>5. /\ param \in DOMAIN old.params /\ ~ IsReference(old.params[param])
        /\ ReadParam(legs[i].spec, node, param) = new.params[param]
        /\ ReadParam(Overridden[i].spec, node, param) = old.params[param]
    BY <1>3 DEF CanReadParam, ReadParam
  <1> HIDE DEF old, new
  <1>6. ResolvedParams(old, Overridden)[param] = old.params[param]
    BY <1>5 DEF ResolvedParams
  <1> QED
    BY <1>4, <1>5, <1>6

\* In a plan that runs each pipeline once, a leg's reference to the leg before it is the
\* very value the leg before it is run with, whatever the run overrode.
THEOREM ConsumersAreGivenWhatIsProduced == Spec => []ConsumerIsGivenWhatItsNamedUpstreamProduces
  <1>1. IInv => ConsumerIsGivenWhatItsNamedUpstreamProduces
    <2> SUFFICES ASSUME IInv, NamesOneLegEach, IsPlanned,
                        NEW i \in TranslationIndexes(legs) \ {FirstTranslation(legs)},
                        NEW pending \in PendingReferences(WrittenLegs[i]),
                        pending.to.pipeline = legs[i - 1].pipeline,
                        ~ IsOverridden(i, pending.node, pending.param)
                 PROVE  ReadParam(legs[i].spec, pending.node, pending.param) =
                          ReadParam(legs[i - 1].spec, pending.to.node, pending.to.param)
      BY DEF ConsumerIsGivenWhatItsNamedUpstreamProduces, ConsumerIsGivenWhatItsUpstreamProduces
    <2> DEFINE to == pending.to
    <2>1. /\ AllLegsLoad /\ ReferencesResolve(Overridden)
          /\ AreWellFormed(Routed) /\ AreWellFormed(Overridden)
          /\ SameRoutes(Routed, Overridden) /\ SameRoutes(Overridden, legs)
          /\ SameShape(Overridden[i].spec, legs[i].spec)
          /\ \A n \in DOMAIN NodesOf(legs[i].spec) :
               NodesOf(legs[i].spec)[n].params =
                 ResolvedParams(NodesOf(Overridden[i].spec)[n], Overridden)
      BY PlanIsRewritten DEF TranslationIndexes
    <2>2. i \in DOMAIN legs /\ i - 1 \in DOMAIN legs
      <3>1. IsDocument(request.document)
        BY RequestsAssumption DEF IInv
      <3> DEFINE m == Len(request.document.mappings)
                 n == Len(Entries(request.document))
      <3>2. m \in Nat /\ n \in Nat /\ m < n /\ DOMAIN Entries(request.document) = 1..n
        BY <3>1, EntriesOfADocument
      <3>3. /\ DOMAIN legs = 1..n
            /\ \A j \in DOMAIN legs : legs[j].kind = Routed[j].kind
        BY <2>1, <3>2, LegsAreRouted DEF IInv, SameRoutes
      <3>4. \A j \in 1..n : legs[j].kind = IF j <= m THEN Mapping ELSE Translation
        <4>1. \A j \in 1..n : WrittenLegs[j].kind = IF j <= m THEN Mapping ELSE Translation
          BY <3>1, LegsOfADocument DEF WrittenLegs, KindAt
        <4>2. \A j \in 1..n : Routed[j].kind = WrittenLegs[j].kind
          BY <2>1, <3>3, LegsAreRouted DEF IInv, SameRoutes
        <4> QED
          BY <3>3, <4>1, <4>2
      <3> HIDE DEF m, n
      <3>5. TranslationIndexes(legs) = (m + 1)..n /\ FirstTranslation(legs) = m + 1
        BY <3>2, <3>3, <3>4, TranslationsComeLast
      <3> QED
        BY <3>2, <3>3, <3>5
    <2>3. PICK n \in DOMAIN NodesOf(Overridden[i].spec) :
            /\ NodesOf(Overridden[i].spec)[n].name = pending.node
            /\ pending.param \in DOMAIN NodesOf(Overridden[i].spec)[n].params
            /\ NodesOf(Overridden[i].spec)[n].params[pending.param] = to
            /\ IsReference(to)
            /\ pending \in PendingReferences(Overridden[i])
      BY UnoverriddenReferenceStays
    <2>4. CanFindNode(Overridden[i].spec, pending.node) /\ Resolves(to, Overridden)
      BY <2>1, <2>2, <2>3 DEF ReferencesResolve, SameRoutes
    <2>5. FindLeg(to.pipeline, Overridden) = Overridden[i - 1]
      <3>1. /\ DOMAIN Overridden = DOMAIN legs /\ DOMAIN Routed = DOMAIN legs
            /\ \A j \in DOMAIN legs : /\ Overridden[j].pipeline = Routed[j].pipeline
                                     /\ legs[j].pipeline = Routed[j].pipeline
        BY <2>1 DEF SameRoutes
      <3>2. \A j \in DOMAIN Routed : Routed[j].pipeline = Entries(request.document)[j].pipeline
        BY <2>1, LegsAreRouted DEF IInv
      <3>3. DOMAIN Routed = DOMAIN Entries(request.document)
        BY <2>1, LegsAreRouted DEF IInv
      <3>4. \A g, h \in DOMAIN Overridden : Overridden[g].pipeline = Overridden[h].pipeline => g = h
        BY <3>1, <3>2, <3>3 DEF NamesOneLegEach
      <3>5. ArePlanned(Overridden) /\ i - 1 \in DOMAIN Overridden
        BY <2>1, <2>2, <3>1 DEF AreWellFormed
      <3>6. to.pipeline = Overridden[i - 1].pipeline
        BY <2>2, <3>1
      <3> QED
        BY <3>4, <3>5, <3>6, TheLegIsFound
    <2>6. /\ CanReadParam(Overridden[i - 1].spec, to.node, to.param)
          /\ ~ IsReference(ReadParam(Overridden[i - 1].spec, to.node, to.param))
      BY <2>4, <2>5 DEF Resolves, HasTarget
    <2>7. ReadParam(legs[i - 1].spec, to.node, to.param) =
            ReadParam(Overridden[i - 1].spec, to.node, to.param)
      BY <2>2, <2>6, ReferencedParamStays
    <2>8. ReadParam(legs[i].spec, pending.node, pending.param) = ReferencedValue(to, Overridden)
      <3>1. /\ CanFindNode(legs[i].spec, pending.node)
            /\ DOMAIN NodesOf(legs[i].spec) = DOMAIN NodesOf(Overridden[i].spec)
            /\ NodesOf(legs[i].spec)[n].name = pending.node
        BY <2>1, <2>3, <2>4, NamesAreKept DEF SameShape
      <3>2. FindNode(legs[i].spec, pending.node) = NodesOf(legs[i].spec)[n]
        BY <3>1, <2>3, TheNodeIsFound
      <3>3. NodesOf(legs[i].spec)[n].params = ResolvedParams(NodesOf(Overridden[i].spec)[n], Overridden)
        BY <2>1, <2>3, <3>1
      <3>4. ResolvedParams(NodesOf(Overridden[i].spec)[n], Overridden)[pending.param] =
              ReferencedValue(to, Overridden)
        BY <2>3 DEF ResolvedParams
      <3> QED
        BY <3>2, <3>3, <3>4 DEF ReadParam
    <2> QED
      BY <2>5, <2>7, <2>8 DEF ReferencedValue
  <1> QED
    BY <1>1, InvHolds, PTL

================================================================================
