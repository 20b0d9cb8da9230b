------------------------------- MODULE Portfolio --------------------------------
(***************************************************************************)
(* The investments portfolio both legs into Sienna build, and what         *)
(* emit_sienna_portfolio makes of it: technologies from the candidates     *)
(* that state one, a requirement for each load, a cap for each constraint  *)
(* over the whole model, the fleet each technology adds to and the buses   *)
(* of each area.  Components take their ids from one counter, attributes   *)
(* from another.                                                           *)
(*                                                                         *)
(* A candidate is [name, kind, base, group, region, minimum, maximum,      *)
(* life, hours, priced]: what groups it with its fleet, and None for a     *)
(* bound, a life or hours that are not finite.  A device is [name, kind,   *)
(* group, region], a load [name, base, region], an area [name, buses], and *)
(* a constraint [name, planned, sense, limits, members].  Costs, years and *)
(* the financial data are left out.                                        *)
(***************************************************************************)
EXTENDS Null, Integers, Sequences, SequencesExt, FiniteSetsExt

TechnologyType == [supply |-> "SupplyTechnology", storage |-> "StorageTechnology"]
Technologies == {TechnologyType[kind] : kind \in DOMAIN TechnologyType}

(* ------------------------------ components ------------------------------- *)

\* build_expansion_skips, and for a storage build_storage_skips.
StatesATechnology(c) ==
  /\ c.maximum # None /\ c.minimum <= c.maximum
  /\ c.life # None /\ c.life >= 1
  /\ c.priced
  /\ c.kind = "storage" => c.hours # None /\ c.hours > 0

Row(type, name, base, region, limits, energy) ==
  [type |-> type, name |-> name, base |-> base, region |-> region, limits |-> limits, energy |-> energy]

Technology(c) ==
  Row(TechnologyType[c.kind], c.name, c.base, c.region, <<c.minimum, c.maximum>>,
      IF c.kind = "storage" THEN <<c.minimum * c.hours, c.maximum * c.hours>> ELSE << >>)

Requirement(load) == Row("DemandRequirement", load.name, load.base, load.region, << >>, << >>)

\* The yearly limit is read before the horizon's, even where it is not a finite number.
LimitOf(constraint) ==
  LET Of(period) == constraint.limits[period]
  IN  IF "YEAR" \in DOMAIN constraint.limits THEN Of("YEAR")
      ELSE IF "HORIZON" \in DOMAIN constraint.limits THEN Of("HORIZON") ELSE None

\* build_carbon_cap_skips: a ceiling over every component there is, each by name and class.
IsCap(constraint, everything) ==
  /\ constraint.planned # FALSE
  /\ constraint.sense = "AT_MOST"
  /\ LimitOf(constraint) # None
  /\ everything # {} /\ everything \subseteq ToSet(constraint.members)

Cap(constraint) ==
  Row("CarbonCaps", constraint.name, None, None, <<LimitOf(constraint)>>, << >>)

WithIds(rows) == [i \in DOMAIN rows |-> [id |-> i] @@ rows[i]]
Mapped(Make(_), rows) == [i \in DOMAIN rows |-> Make(rows[i])]

Components(technologies, loads, caps) ==
  WithIds(Mapped(Technology, technologies) \o Mapped(Requirement, loads) \o Mapped(Cap, caps))

(* ------------------------------ attributes ------------------------------- *)

Fleet(c, devices) ==
  LET same == SelectSeq(devices, LAMBDA d : <<d.kind, d.group, d.region>> = <<c.kind, c.group, c.region>>)
  IN  Mapped(LAMBDA d : d.name, same)

Attribute(type, of, name, members) == [type |-> type, of |-> of, name |-> name, members |-> members]

\* A technology no device shares a carrier and a region with has neither attribute.
Attributes(technologies, devices, areas) ==
  LET settled == SelectSeq(technologies, LAMBDA c : Fleet(c, devices) # << >>)
      OfFleet(type) ==
        Mapped(LAMBDA c : Attribute(type, TechnologyType[c.kind], c.name, Fleet(c, devices)), settled)
  IN  WithIds(OfFleet("ExistingDevices") \o OfFleet("RetirementPotential")
               \o Mapped(LAMBDA a : Attribute("TopologyMapping", "Area", a.name, a.buses), areas))

(* ------------------------------ the document ----------------------------- *)

\* A name held twice leads to the later of its rows.
IdOf(rows, name) == Max({r.id : r \in {x \in rows : x.name = name}})
IsNamed(rows, name) == \E r \in rows : r.name = name

Owners(portfolio, areas, type) ==
  IF type = "Area" THEN areas ELSE {c \in ToSet(portfolio.components) : c.type = type}

\* validate_refs, of the regions and of what the attributes describe.
IsReferenced(portfolio, areas) ==
  /\ \A c \in ToSet(portfolio.components) : c.region # None => IsNamed(areas, c.region)
  /\ \A a \in ToSet(portfolio.attributes) : IsNamed(Owners(portfolio, areas, a.of), a.name)

\* build_payload: names of regions and of owners become ids.
Document(portfolio, areas) ==
  [components |-> Mapped(LAMBDA c : [c EXCEPT !.region = IF @ = None THEN {} ELSE {IdOf(areas, @)}],
                         portfolio.components),
   attributes |-> Mapped(LAMBDA a : [owner |-> IdOf(Owners(portfolio, areas, a.of), a.name)] @@ a,
                         portfolio.attributes)]

=============================================================================
