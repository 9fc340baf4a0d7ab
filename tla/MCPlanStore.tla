----------------------------- MODULE MCPlanStore ----------------------------
(***************************************************************************)
(* A plan that is edited: a unit is changed and given up, another one is   *)
(* added, and the number the plan gives itself jumps once.                 *)
(***************************************************************************)
EXTENDS PlanStore, TLC

CONSTANTS c1, c2, c3, u1, u2, h1, h2, p1, p2

Unit(hash, status) == [hash |-> hash, status |-> status]

MCPlan ==
    c1 :> [version |-> 1, units |-> u1 :> Unit(h1, "pending")
                                    @@ u2 :> Unit(h1, "completed")] @@
    c2 :> [version |-> 1, units |-> u1 :> Unit(h2, "completed")] @@
    c3 :> [version |-> 3, units |-> u1 :> Unit(h1, "pending")]

Symmetry == Permutations(Procs)

=============================================================================
