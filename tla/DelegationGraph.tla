-------------------------- MODULE DelegationGraph --------------------------
(***************************************************************************)
(* The compiled delegation graph (src/graph_coder/graph.py) as the other   *)
(* components see it: constant data that passed ExecutionGraph.validate(). *)
(* Nodes carry a role, the nodes they depend on, and write scopes, of      *)
(* which only the overlap relation matters here.                           *)
(***************************************************************************)
EXTENDS FiniteSets

CONSTANTS
    Nodes,      \* the ids of graph.nodes
    Atomic,     \* the nodes whose role is "atomic": the units of work
    DependsOn,  \* DependsOn[n]: the ids in n.depends_on
    Overlap     \* pairs <<m, n>> of nodes whose write scopes overlap

-----------------------------------------------------------------------------
(***************************************************************************)
(* Transitive dependencies and dependents.  The code computes both with a  *)
(* work list; what the work list returns is the least set that holds the   *)
(* direct ones and is closed under the relation.                           *)
(***************************************************************************)

\* S holds the dependencies of each of its members.
ClosedUnderDependencies(S) == \A m \in S : DependsOn[m] \subseteq S

\* ExecutionGraph._ancestors
Ancestors(n) ==
    {m \in Nodes : \A S \in SUBSET Nodes :
        (DependsOn[n] \subseteq S /\ ClosedUnderDependencies(S)) => m \in S}

AncestorsOf == [n \in Nodes |-> Ancestors(n)]

\* execution.dependents: the nodes that name n in depends_on
Dependents(n) == {m \in Nodes : n \in DependsOn[m]}

\* execution.block_descendants: transitive dependents, n itself left out
BlockDescendants(n) == {m \in Nodes : n \in AncestorsOf[m]} \ {n}

-----------------------------------------------------------------------------
(***************************************************************************)
(* What ExecutionGraph.validate() leaves of the graphs that exist.         *)
(***************************************************************************)

\* _validate_acyclic_and_depth
Acyclic == \A n \in Nodes : n \notin AncestorsOf[n]

Ordered(m, n) == m \in AncestorsOf[n] \/ n \in AncestorsOf[m]

\* _validate_write_safety, for graphs with no merge strategy: _graph_from_plan
\* sets none
WriteSafe ==
    \A m, n \in Nodes : (m # n /\ <<m, n>> \in Overlap) => Ordered(m, n)

ASSUME GraphAssumption ==
    /\ IsFiniteSet(Nodes)
    /\ Atomic \subseteq Nodes
    /\ DependsOn \in [Nodes -> SUBSET Nodes]
    /\ Acyclic
    /\ WriteSafe

\* _graph_from_plan: only units have dependencies, and only on units
ASSUME UnitAssumption ==
    \A n \in Nodes : /\ DependsOn[n] \subseteq Atomic
                     /\ n \notin Atomic => DependsOn[n] = {}

=============================================================================
