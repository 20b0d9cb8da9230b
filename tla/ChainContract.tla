---------------------------- MODULE ChainContract ----------------------------
(***************************************************************************)
(* What a translate run promises its caller, without saying how: the legs  *)
(* complete one after another; a leg whose input is condemned (a critical  *)
(* finding, or a validator that crashed) publishes nothing, and neither    *)
(* does a later one; a failed run only unwinds; a run that started is      *)
(* reported; and the run's temporary space is gone when it returns, unless *)
(* it was asked to keep it.                                                *)
(***************************************************************************)
EXTENDS Naturals

VARIABLES
  keep,        (* the caller wants the temporary space kept       *)
  phase,       (* starting, running, reporting, closing or closed *)
  total,       (* legs the run is to complete                     *)
  completed,   (* legs that have returned                         *)
  published,   (* legs whose output exists                        *)
  condemned,   (* the input of the leg running is untranslatable  *)
  failed,      (* the run will raise                              *)
  kept         (* temporary space is in use                       *)

contractVars == <<keep, phase, total, completed, published, condemned, failed, kept>>

Init ==
  /\ keep \in BOOLEAN
  /\ phase = "starting"
  /\ total = 0 /\ completed = 0 /\ published = {}
  /\ condemned = FALSE /\ failed = FALSE /\ kept = FALSE

\* Refused before there is anything to report: nothing is left behind.
Refuse ==
  /\ phase = "starting"
  /\ phase' \in {"closing", "closed"}
  /\ failed' = TRUE
  /\ UNCHANGED <<keep, total, completed, published, condemned, kept>>

\* A plan that cannot be made, or cannot be run, is a failed run with a report.
RefusePlan ==
  /\ phase = "starting"
  /\ phase' = "reporting"
  /\ total' \in Nat
  /\ failed' = TRUE
  /\ UNCHANGED <<keep, completed, published, condemned, kept>>

Start ==
  /\ phase = "starting"
  /\ phase' = "running"
  /\ total' \in Nat \ {0}
  /\ completed' = 0
  /\ UNCHANGED <<keep, published, condemned, failed, kept>>

\* A leg's input is looked at before the leg has published anything.
Examine ==
  /\ phase = "running" /\ ~ failed
  /\ condemned' \in {condemned, completed + 1 \notin published}
  /\ condemned => condemned'
  /\ kept' \in BOOLEAN
  /\ UNCHANGED <<keep, phase, total, completed, published, failed>>

\* A leg publishes, over what an earlier leg left if it is told to.
Publish ==
  /\ phase = "running" /\ ~ failed /\ ~ condemned
  /\ published' \in SUBSET (published \union {completed + 1})
  /\ UNCHANGED <<keep, phase, total, completed, condemned, failed, kept>>

\* The run is reported once every leg has completed, and not before.
CompleteLeg ==
  /\ phase = "running" /\ ~ failed /\ ~ condemned
  /\ completed' = completed + 1
  /\ phase' = IF completed' = total THEN "reporting" ELSE "running"
  /\ UNCHANGED <<keep, total, published, condemned, failed, kept>>

\* A leg that raises may have published part of its output, unless it was condemned.
Fail ==
  /\ phase = "running" /\ ~ failed
  /\ failed' = TRUE
  /\ phase' \in {"running", "reporting"}
  /\ published' \in SUBSET (IF condemned THEN published ELSE published \union {completed + 1})
  /\ kept' \in BOOLEAN
  /\ UNCHANGED <<keep, total, completed, condemned>>

\* A failed leg is left, and what it staged may go with it.
Unwind ==
  /\ phase = "running" /\ failed
  /\ phase' = "reporting"
  /\ kept' \in BOOLEAN
  /\ UNCHANGED <<keep, total, completed, published, condemned, failed>>

Report ==
  /\ phase = "reporting"
  /\ phase' = "closing"
  /\ failed' \in {failed, TRUE}
  /\ UNCHANGED <<keep, total, completed, published, condemned, kept>>

\* Hand-offs among what was published go with the temporary space.
Close ==
  /\ phase = "closing"
  /\ phase' = "closed"
  /\ kept' = (kept /\ keep)
  /\ published' \in SUBSET published
  /\ UNCHANGED <<keep, total, completed, condemned, failed>>

Next ==
  \/ Refuse \/ RefusePlan \/ Start \/ Examine \/ Publish \/ CompleteLeg
  \/ Fail \/ Unwind \/ Report \/ Close

Spec == Init /\ [][Next]_contractVars

=============================================================================
