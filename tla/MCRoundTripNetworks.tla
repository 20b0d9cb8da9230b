------------------------- MODULE MCRoundTripNetworks -------------------------
(***************************************************************************)
(* Networks for PypsaRoundTrip: one component of a class that varies every *)
(* column the legs convert, with a capacity that is fixed, solved, floored *)
(* or refused, beside two buses and a demand.                              *)
(***************************************************************************)
EXTENDS Cells

Half == Ratio(1, 2)
Quarters == Ratio(3, 4)

LapCarriers ==
  "coal" :> [type |-> "ThermalStandard", mover |-> "ST", fuel |-> "COAL"]
    @@ "lignite" :> [type |-> "ThermalStandard", mover |-> "ST", fuel |-> "COAL"]
    @@ "wind" :> [type |-> "RenewableDispatch", mover |-> "WT", fuel |-> None]
    @@ "roof" :> [type |-> "RenewableNonDispatch", mover |-> "PVe", fuel |-> None]
    @@ "hydro" :> [type |-> "HydroDispatch", mover |-> "HY", fuel |-> None]
    @@ "battery" :> [type |-> "EnergyReservoirStorage", mover |-> "BA", fuel |-> None]

LapCarrierOf ==
  <<"ThermalStandard", "ST", "COAL">> :> "coal" @@ <<"RenewableDispatch", "WT", None>> :> "wind"
    @@ <<"RenewableNonDispatch", "PVe", None>> :> "roof" @@ <<"HydroDispatch", "HY", None>> :> "hydro"
    @@ <<"EnergyReservoirStorage", "BA", None>> :> "battery"

\* Fixed, fixed at nothing, solved, floored, refused by a solve, and a candidate.
LapCapacities ==
  {[p_nom |-> Whole(4)], [p_nom |-> Zero]}
  \cup {[p_nom |-> Whole(4), p_nom_extendable |-> TRUE] @@ s :
          s \in {[p_nom_opt |-> Whole(6)], [p_nom_min |-> Whole(3)], [p_nom_min |-> Whole(7)],
                 [p_nom_opt |-> Whole(2), p_nom_min |-> Whole(3)], [p_nom_opt |-> Zero], NoCells}}

Plants ==
  {[name |-> "g1", bus |-> "b1", carrier |-> k] @@ c @@ x :
     k \in {"coal", "lignite", "wind", "roof"}, c \in LapCapacities,
     x \in {NoCells,
            [p_min_pu |-> Half, p_max_pu |-> Quarters, marginal_cost |-> Whole(5), committable |-> TRUE,
             ramp_limit_up |-> Half, min_up_time |-> Whole(3), start_up_cost |-> Whole(7)],
            [p_min_pu |-> Half, ramp_limit_up |-> Unity, ramp_limit_down |-> Half, up_time_before |-> Whole(2),
             min_down_time |-> Unity, shut_down_cost |-> Whole(2)]}}

Units ==
  {[name |-> "u1", bus |-> "b2", carrier |-> k] @@ c @@ x :
     k \in {"hydro", "battery"}, c \in LapCapacities,
     x \in {[max_hours |-> Whole(2)], NoCells,
            [max_hours |-> Whole(2), p_min_pu |-> Minus(Half), p_max_pu |-> Half, efficiency_store |-> Half,
             efficiency_dispatch |-> Quarters, state_of_charge_initial |-> Whole(3), cyclic_state_of_charge |-> TRUE],
            [max_hours |-> Unity, state_of_charge_initial |-> Whole(9), marginal_cost |-> Whole(2)]}}

Lines ==
  {[name |-> "l1", bus0 |-> b, bus1 |-> "b1", s_nom |-> Whole(4)] @@ c @@ x :
     b \in {"b1", "b2"},
     c \in {NoCells, [s_nom_extendable |-> TRUE], [s_nom_extendable |-> TRUE, s_nom_opt |-> Whole(6)]},
     x \in {NoCells, [x |-> Unity, v_ang_min |-> Minus(Whole(30)), active |-> FALSE],
            [v_ang_min |-> Minus(Whole(90)), v_ang_max |-> Whole(90)],
            [r |-> Unity, x |-> Whole(3), b |-> Half, g |-> Unity, s_max_pu |-> Half, length |-> Whole(7),
             num_parallel |-> Whole(2), v_ang_min |-> Minus(Whole(30)), v_ang_max |-> Whole(30)]}}

Links ==
  {[name |-> "k1", bus0 |-> "b1", bus1 |-> "b2"] @@ c @@ x : c \in LapCapacities,
     x \in {NoCells, [p_min_pu |-> Minus(Unity), marginal_cost |-> Whole(3)], [p_min_pu |-> Half, p_max_pu |-> Quarters],
            [p_min_pu |-> Minus(Half), p_max_pu |-> Half, efficiency |-> Ratio(9, 10)],
            [p_min_pu |-> Minus(Half), p_max_pu |-> Zero], [p_min_pu |-> Minus(Whole(2)), p_max_pu |-> Whole(2)]}}

\* Buses that state their columns and one that states none.
Buses ==
  {[name |-> "b1", v_nom |-> Whole(2), location |-> "north", control |-> "Slack"], [name |-> "b2"]}
Demands == {[name |-> "d1", bus |-> "b1", p_set |-> Whole(3)]}

NoPeaks == [n \in {} |-> Zero]

\* Series nobody has, a plant's, a plant's that is flat beside a load's, a load's, and one
\* at zero throughout.
LapSeriesSets ==
  {[minutes |-> Whole(60), peaks |-> NoPeaks, flat |-> {}, profiles |-> NoPeaks],
   [minutes |-> Whole(30), peaks |-> "g1" :> Half, flat |-> {}, profiles |-> NoPeaks],
   [minutes |-> Whole(30), peaks |-> "g1" :> Half, flat |-> {"g1"}, profiles |-> "d1" :> Whole(5)],
   [minutes |-> Whole(30), peaks |-> NoPeaks, flat |-> {}, profiles |-> "d1" :> Whole(5)],
   [minutes |-> Whole(30), peaks |-> "g1" :> Zero, flat |-> {}, profiles |-> NoPeaks]}
Hourly == [minutes |-> Whole(60), peaks |-> NoPeaks, flat |-> {}, profiles |-> NoPeaks]

LapNetwork(series, class, r) ==
  [inflows |-> {"u1"},
   rows |-> [[c \in {"generators", "storage_units", "lines", "links"} |-> {}] EXCEPT ![class] = {r}]
              @@ [buses |-> Buses, loads |-> Demands]] @@ series

LapNetworks ==
  {LapNetwork(s, "generators", g) : s \in LapSeriesSets, g \in Plants}
  \cup {LapNetwork(Hourly, "storage_units", u) : u \in Units}
  \cup {LapNetwork(Hourly, "lines", l) : l \in Lines}
  \cup {LapNetwork(Hourly, "links", k) : k \in Links}
=============================================================================
