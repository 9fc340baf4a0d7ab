--------------------------- MODULE MCBranchResume ---------------------------
(***************************************************************************)
(* Two processes and two branches, of nodes with names of their own.       *)
(***************************************************************************)
EXTENDS BranchResume, TLC

CONSTANTS b1, b2

MCBranches == {b1, b2}

\* Each branch has a node_id of its own.
Apart == [x \in MCBranches |-> x]

\* One branch.
Single == [x \in {b1} |-> x]

Symmetry == Permutations(Procs) \cup Permutations(Decisions)

=============================================================================
