------------------------ MODULE PlexosToSiennaInvestments -------------------------
(***************************************************************************)
(* The pipeline plexos-to-sienna-investments: the steps and the sink of    *)
(* plexos-to-sienna, with sienna_investments_map_technologies between      *)
(* them and emit_sienna_portfolio behind them.  The step reads the tables  *)
(* and the sidecar records the legs before it wrote, builds the portfolio, *)
(* and takes the plants nobody has built out of the tables the sink of the *)
(* base system is about to read.                                           *)
(*                                                                         *)
(* A record is the object it states: its builds allowed (built), refused   *)
(* for a price, a rate or the plan (blocked), recovered over life years    *)
(* (0 below one) and held for hours.  A battery and a turbine share no     *)
(* name, and a constraint's members are ordered by class and name.         *)
(***************************************************************************)
EXTENDS PlexosToSienna, Portfolio

VARIABLES
  expanding,   \* whether the pipeline is the one with the investments
  stage,       \* how far the portfolio is: "none", "mapped" or "written"
  portfolio,   \* the tables of the portfolio
  document     \* portfolio.json

investments_vars == <<expanding, stage, portfolio, document>>

NoPortfolio == [components |-> << >>, attributes |-> << >>]

(* ------------------------- what the base system holds -------------------- *)

BaseTypes ==
  [supply  |-> <<"ThermalStandard", "RenewableDispatch", "RenewableNonDispatch", "HydroDispatch">>,
   storage |-> <<"EnergyReservoirStorage">>]

Table(type) == SetToSortSeq({c \in components : c.type = type}, LAMBDA c, d : c.id < d.id)
Tables(types) == FlattenSeq([i \in DOMAIN types |-> Table(types[i])])

\* What the record of a component states; a hydro turbine's is not among the generators'.
HasRecord(c) == c.type # "HydroDispatch"

Stated(c) ==
  CHOOSE o \in ToSet(IF c.class = "Battery" THEN model.batteries ELSE model.generators) : o.name = c.name

IsGenerator(c) == c.type \in GeneratorTypes
Running(c) == IF IsGenerator(c) THEN Existing(Stated(c)) ELSE Stated(c).capacity * Stated(c).units
UnitSize(c) == IF IsGenerator(c) THEN MaxCapacity(Stated(c)) ELSE Stated(c).capacity
Group(c) == IF IsGenerator(c) THEN Stated(c).carrier ELSE c.type

\* derive_expansion: a build the model refuses leaves the capacity fixed.
IsExtendable(c) == HasRecord(c) /\ IsCandidate(Stated(c)) /\ ~ Stated(c).blocked
IsUnbuilt(c) == IsExtendable(c) /\ Running(c) = 0

Candidate(kind, c) ==
  [name |-> c.name, kind |-> kind, base |-> c.type, group |-> Group(c), region |-> AreaOf(c.bus),
   minimum |-> Running(c), maximum |-> Running(c) + UnitSize(c) * Stated(c).built,
   life |-> Stated(c).life, hours |-> Stated(c).hours, priced |-> TRUE]

Candidates(kind) ==
  Mapped(LAMBDA c : Candidate(kind, c), SelectSeq(Tables(BaseTypes[kind]), IsExtendable))

TechnologiesOf(kind) == SelectSeq(Candidates(kind), StatesATechnology)
AllTechnologies == TechnologiesOf("supply") \o TechnologiesOf("storage")

\* A faulty variant lists a plant nobody has built as part of the fleet.
EveryDevice(kind) ==
  Mapped(LAMBDA c : [name |-> c.name, kind |-> kind, group |-> Group(c), region |-> AreaOf(c.bus)],
           Tables(BaseTypes[kind]))

DevicesOf(kind) ==
  Mapped(LAMBDA c : [name |-> c.name, kind |-> kind, group |-> Group(c), region |-> AreaOf(c.bus)],
           SelectSeq(Tables(BaseTypes[kind]), LAMBDA c : ~ IsUnbuilt(c)))

LoadRows ==
  Mapped(LAMBDA c : [name |-> c.name, base |-> c.type, region |-> AreaOf(c.bus)], Table("PowerLoad"))

AreaRows == {c \in components : c.type = "Area"}

Areas ==
  Mapped(LAMBDA a : [name |-> a, buses |-> SetToSeq({b \in Buses : AreaOf(b) = a})],
           SetToSeq({a.name : a \in AreaRows}))

(* ------------------------------- constraints ----------------------------- *)

\* map_constraints: one that states no sense or no right-hand side is not carried.
CarriedConstraints == SelectSeq(model.constraints, LAMBDA k : k.sense # None /\ DOMAIN k.limits # {})

\* A component goes by the class the last member of its name is stated with.
ClassGiven(c) ==
  LET named == SelectSeq(FlattenSeq(Mapped(LAMBDA k : k.members, CarriedConstraints)), LAMBDA m : m[1] = c.name)
  IN  IF named = << >> THEN c.type ELSE Last(named)[2]

Everything ==
  {<<c.name, ClassGiven(c)>> : c \in ToSet(Tables(BaseTypes.supply) \o Tables(BaseTypes.storage))}

Caps == SelectSeq(CarriedConstraints, LAMBDA k : IsCap(k, Everything))

(* ------------------------ the step and the second sink ------------------- *)

PortfolioEvents ==
  LET Refused(kind) == ToSet(Candidates(kind)) \ ToSet(TechnologiesOf(kind))
  IN  {Skipped("generator record", c.name) : c \in Refused("supply")}
      \union {Skipped("storage record", c.name) : c \in Refused("storage")}
      \union {Skipped("constraint", k.name) : k \in ToSet(CarriedConstraints) \ ToSet(Caps)}

\* _drop_unbuilt_candidates: what the portfolio refused stays; each event names a generator.
Unbuilt == {t \in ToSet(AllTechnologies) : t.minimum = 0}
UnbuiltEvents ==
  {[kind |-> "unbuilt", class |-> "generator record", name |-> t.name, what |-> ""] : t \in Unbuilt}

MapTechnologies ==
  /\ expanding /\ step = "store" /\ stage = "none"
  /\ stage' = "mapped"
  /\ portfolio' = [components |-> Components(AllTechnologies, LoadRows, Caps),
                   attributes |-> Attributes(AllTechnologies, DevicesOf("supply") \o DevicesOf("storage"),
                                               Areas)]
  /\ components' = {c \in components : ~ \E t \in Unbuilt : t.base = c.type /\ t.name = c.name}
  /\ report' = report \union PortfolioEvents \union UnbuiltEvents
  /\ UNCHANGED <<step, model, series, associations, companions, stored, expanding, document>>

WritePortfolio ==
  /\ expanding /\ step = "written" /\ stage = "mapped"
  /\ IF IsReferenced(portfolio, AreaRows)
     THEN /\ stage' = "written"
          /\ document' = Document(portfolio, AreaRows)
          /\ UNCHANGED step
     ELSE step' = "failed" /\ UNCHANGED <<stage, document>>
  /\ UNCHANGED <<model, series, components, associations, companions, report, stored, expanding, portfolio>>

InvestmentsInit ==
  /\ Init
  /\ expanding \in BOOLEAN /\ stage = "none" /\ portfolio = NoPortfolio /\ document = NoPortfolio

InvestmentsNext ==
  \/ ~ (expanding /\ step = "store" /\ stage = "none") /\ Next /\ UNCHANGED investments_vars
  \/ MapTechnologies
  \/ WritePortfolio

InvestmentsSpec == InvestmentsInit /\ [][InvestmentsNext]_<<vars, investments_vars>>

-----------------------------------------------------------------------------
(* Properties of the two documents                                         *)

TypeOfTurbine(t) == IF IsHydro(t) THEN "HydroDispatch" ELSE "EnergyReservoirStorage"

\* Every plant the mapping wrote, whether or not the step has taken it out since.
Plants ==
  {Component(TypeOf[g.carrier], "Generator", g.name, g.node, 0) : g \in ToSet(MappedGenerators)}
  \union {Component(TypeOfTurbine(t), "Generator", t.name, t.node, 0) : t \in ToSet(MappedTurbines)}
  \union {Component("EnergyReservoirStorage", "Battery", b.name, b.node, 0) : b \in ToSet(MappedBatteries)}

IsHeld(p) == \E c \in components : c.type = p.type /\ c.name = p.name
HeldFleet(p) ==
  {q.name : q \in {x \in Plants : /\ IsHeld(x) /\ Running(x) > 0
                                  /\ Group(x) = Group(p) /\ AreaOf(x.bus) = AreaOf(p.bus)}}
AreaIds(bus) == {a.id : a \in {x \in AreaRows : x.name = AreaOf(bus)}}

Written(types) == {x \in ToSet(document.components) : x.type \in types}
TechnologyFor(p) == {x \in Written(Technologies) : x.base = p.type /\ x.name = p.name}
Listed(type, owner) ==
  UNION {ToSet(a.members) : a \in {b \in ToSet(document.attributes) : b.type = type /\ b.owner = owner}}

\* Every plant is in the base system or is a technology, and a technology's plant is in both
\* just if it runs; a technology is in its plant's area, keeps what the plant runs, and its
\* fleet is each plant of its carrier and area the base system as written holds and that
\* runs; each bus is mapped by its own area alone; a cap names every plant there is; and
\* the ids of either counter are distinct (sienna_investments_map_technologies.py,
\* emit_sienna_portfolio.py).
BaseSystemAndPortfolioArePartners ==
  stage = "written" =>
    /\ \A rows \in {components, ToSet(document.components), ToSet(document.attributes)} :
         \A x, y \in rows : x.id = y.id => x = y
    /\ \A p \in Plants : IsHeld(p) \/ TechnologyFor(p) # {}
    /\ \A p \in Plants : \A x \in TechnologyFor(p) :
         /\ IsHeld(p) = (Running(p) > 0)
         /\ x.limits[1] = Running(p)
         /\ x.region = AreaIds(p.bus)
         /\ Listed("ExistingDevices", x.id) = HeldFleet(p)
         /\ Listed("RetirementPotential", x.id) = HeldFleet(p)
    /\ \A b \in Buses :
         {a.owner : a \in {x \in ToSet(document.attributes) :
                             x.type = "TopologyMapping" /\ b \in ToSet(x.members)}} = AreaIds(b)
    /\ \A x \in Written({"CarbonCaps"}) :
         \E k \in ToSet(model.constraints) :
           k.name = x.name /\ {p.name : p \in Plants} \subseteq {m[1] : m \in ToSet(k.members)}

\* docs/translation_mappings/translation-from-plexos-to-sienna-investments.md:14, "One run of
\* plexos-to-sienna-investments writes two documents": no run fails at a sink.
BothDocumentsAreWritten == step # "failed"

=============================================================================
