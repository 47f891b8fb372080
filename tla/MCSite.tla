------------------------------- MODULE MCSite -------------------------------
(***************************************************************************)
(* The registers a crew works by, on small instances for TLC: workshop and *)
(* service plan of a plant item, shifts, and a work method statement. They *)
(* share no rows, so each behaviour follows one of them.                   *)
(***************************************************************************)
EXTENDS Workshop, ServicePlan, Shifts, Swms, TLC

VARIABLE part   \* the register this behaviour follows

siteVars == <<part, workshopVars, planVars, shiftVars, swmsVars>>

SiteInit ==
  /\ part \in {"workshop", "plan", "shifts", "swms"}
  /\ WorkshopInit /\ ServicePlanInit /\ ShiftsInit
  /\ SwmsInit /\ (part # "swms" => swms[1].content \notin Complete)

SiteNext ==
  /\ UNCHANGED part
  /\ \/ part = "workshop" /\ WorkshopNext /\ UNCHANGED <<planVars, shiftVars, swmsVars>>
     \/ part = "plan" /\ ServicePlanNext /\ UNCHANGED <<workshopVars, shiftVars, swmsVars>>
     \/ part = "shifts" /\ ShiftsNext /\ UNCHANGED <<workshopVars, planVars, swmsVars>>
     \/ part = "swms" /\ SwmsNext /\ UNCHANGED <<workshopVars, planVars, shiftVars>>

SiteSpec == SiteInit /\ [][SiteNext]_siteVars

\* A day of four units. The first shift runs past midnight into the second;
\* the third starts when the second ends.
MCWindows == {[day |-> 1, start |-> 3, finish |-> 1],
              [day |-> 2, start |-> 0, finish |-> 2],
              [day |-> 2, start |-> 2, finish |-> 3]}

SiteSymmetry == Permutations(Planners) \cup Permutations(Crew)
=============================================================================
