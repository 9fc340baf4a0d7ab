----------------------------- MODULE MCDispatch -----------------------------
(***************************************************************************)
(* A plan that is edited: a unit moves to another manager, one is dropped, *)
(* and mistakes are made on the way that compile refuses.                  *)
(***************************************************************************)
EXTENDS Dispatch, TLC

CONSTANTS c1, c2, c3, c4, c5, u1, u2, a1, m1, p1, p2

First ==
    [units |-> {u1, u2}, depends |-> u1 :> {} @@ u2 :> {u1},
     manager |-> u1 :> "M1" @@ u2 :> None,
     route |-> u1 :> "local" @@ u2 :> "local",
     reads |-> u1 :> {} @@ u2 :> {a1}, writes |-> u1 :> {a1} @@ u2 :> {},
     clashes |-> {<<u1, u2>>}, workers |-> 2, portable |-> TRUE]

MCPlan ==
    c1 :> First @@
    c2 :> [First EXCEPT !.units = {u1}, !.depends = u1 :> {},
                        !.manager = u1 :> None, !.route = u1 :> m1,
                        !.reads = u1 :> {}, !.writes = u1 :> {},
                        !.clashes = {}, !.workers = 1, !.portable = FALSE] @@
    c3 :> [First EXCEPT !.depends = u1 :> {} @@ u2 :> {}] @@
    c4 :> [First EXCEPT !.depends = u1 :> {u2} @@ u2 :> {u1}] @@
    c5 :> [First EXCEPT !.workers = 1]

Symmetry == Permutations(Procs)

=============================================================================
