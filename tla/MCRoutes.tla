------------------------------ MODULE MCRoutes ------------------------------
(***************************************************************************)
(* One unit, for which two requests are made.                              *)
(***************************************************************************)
EXTENDS Routes, TLC

MCUnitOf == [r \in Requests |-> CHOOSE u \in Units : TRUE]

Symmetry == Permutations(Procs) \cup Permutations(Requests)

=============================================================================
