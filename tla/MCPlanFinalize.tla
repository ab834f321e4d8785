--------------------------- MODULE MCPlanFinalize ---------------------------
(* PlanFinalize, reduced by the symmetry of role ids, bodies and paths.     *)
EXTENDS PlanFinalize, TLC

Symmetry == Permutations(RoleIds) \cup Permutations(Bodies) \cup Permutations(Paths)
=============================================================================
