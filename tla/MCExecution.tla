---------------------------- MODULE MCExecution ----------------------------
(***************************************************************************)
(* A graph with the shapes that matter: a chain a -> b -> c whose first    *)
(* two units write the same files, a unit d on a branch of its own, and a  *)
(* manager m, which is composite.                                          *)
(***************************************************************************)
EXTENDS Execution

CONSTANTS a, b, c, d, m

MCNodes == {a, b, c, d, m}

MCAtomic == {a, b, c, d}

MCDependsOn == [n \in MCNodes |->
    CASE n = b -> {a}
      [] n = c -> {b}
      [] OTHER -> {}]

MCOverlap == {<<a, b>>, <<b, a>>}

=============================================================================
