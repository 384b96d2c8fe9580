--------------------------- MODULE MCPlanTripGraph ---------------------------
(* PlanTripGraph for TLC: the configurations give the limits their values. *)
EXTENDS PlanTripGraph
=============================================================================
