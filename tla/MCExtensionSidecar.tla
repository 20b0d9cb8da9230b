--------------------------- MODULE MCExtensionSidecar ---------------------------
(***************************************************************************)
(* The shipped pipelines that write or read a sidecar, chained.  A hop's   *)
(* steps are those that touch the records, sub-steps of a composite apart. *)
(***************************************************************************)
EXTENDS ExtensionSidecar, TLC

MCKinds == {"bus", "generator", "reserve", "constraint", "network"}
MCCompanionKinds == {"generator", "reserve"}

Subject(kind, name) == [kind |-> kind, name |-> name]

MCSubjects ==
  {Subject("bus", "a"), Subject("generator", "a"), Subject("reserve", "r"),
   Subject("constraint", "c"), Subject("network", "network")}

Makes(kinds, varies) ==
  [opens |-> FALSE, asks |-> {}, reads_all |-> {}, relays |-> {}, makes |-> kinds,
   varies |-> varies]
Asks(kinds, makes) ==
  [opens |-> TRUE, asks |-> kinds, reads_all |-> {}, relays |-> {}, makes |-> makes,
   varies |-> {}]
Relays(kinds) ==
  [opens |-> TRUE, asks |-> {}, reads_all |-> {}, relays |-> kinds, makes |-> {},
   varies |-> {}]
ReadsAll(kinds) ==
  [opens |-> TRUE, asks |-> {}, reads_all |-> kinds, relays |-> {}, makes |-> {},
   varies |-> {}]

Network == {Subject("network", "network")}

\* plexos-to-sienna
PlexosToSienna ==
  [takes_sidecar |-> FALSE, takes_companions |-> FALSE, own |-> {},
   steps |-> <<Makes({"bus", "generator"}, {"generator"}),
               Makes({"reserve", "constraint"}, {"reserve"})>>,
   emits |-> TRUE, place |-> "system"]

\* sienna-to-pypsa, sienna-to-pypsa-ensemble and sienna-to-results
SiennaTo(with_series, emits, place) ==
  [takes_sidecar |-> TRUE, takes_companions |-> with_series, own |-> {},
   steps |-> <<Asks({"bus"}, {}), Asks({"generator"}, {"generator"}),
               Relays({"reserve", "constraint", "network"})>>,
   emits |-> emits, place |-> place]

\* pypsa-to-sienna and pypsa-to-sienna-ensemble
PypsaSteps == <<Asks({"bus"}, {"bus"}), Relays({"reserve", "constraint"})>>
PypsaTo(steps, place) ==
  [takes_sidecar |-> TRUE, takes_companions |-> TRUE, own |-> Network, steps |-> steps,
   emits |-> TRUE, place |-> place]

\* pypsa-to-results, which has no mapping for a sidecar
PypsaToResults ==
  [takes_sidecar |-> TRUE, takes_companions |-> TRUE, own |-> Network, steps |-> << >>,
   emits |-> FALSE, place |-> "results"]

ToAndFro == <<PlexosToSienna, SiennaTo(TRUE, TRUE, "outputs"), PypsaTo(PypsaSteps, "system")>>

MCChains ==
  {\* Through the hub and back, the last hop writing over what the second one wrote.
   ToAndFro \o <<SiennaTo(TRUE, TRUE, "outputs")>>,
   \* The same for an ensemble, read once more.
   ToAndFro \o <<SiennaTo(FALSE, TRUE, "ensemble"), PypsaTo(PypsaSteps, "again")>>,
   \* Into an investment portfolio, and into results.
   <<PlexosToSienna, SiennaTo(TRUE, TRUE, "outputs"),
     PypsaTo(PypsaSteps \o <<Asks({"generator"}, {}), ReadsAll({"constraint"})>>, "outputs")>>,
   <<PlexosToSienna, SiennaTo(TRUE, TRUE, "outputs"), PypsaToResults>>,
   <<PlexosToSienna, SiennaTo(FALSE, FALSE, "results")>>}
=============================================================================
