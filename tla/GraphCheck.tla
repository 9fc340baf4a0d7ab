----------------------------- MODULE GraphCheck -----------------------------
(***************************************************************************)
(* The work lists of ExecutionGraph (src/graph_coder/graph.py):            *)
(* compile_plan_units() of one graph, which calls topological_nodes(),     *)
(* which calls validate().  What is accepted has to be what the other      *)
(* components take for granted (module DelegationGraph).                   *)
(*                                                                         *)
(* A node is its position in graph.nodes.  The code takes nodes from its   *)
(* queues in the order of the list, and from its stack the last one; here  *)
(* any is taken, and the result must not depend on it.  References,        *)
(* artifacts, authority and sizes are checks without a work list and left  *)
(* out.                                                                    *)
(***************************************************************************)
EXTENDS Integers, Sequences, FiniteSetsExt

CONSTANTS
    N,              \* the number of nodes
    Given,          \* nodes that graphs may have
    Scopes,         \* write scopes
    Overlapping,    \* pairs of scopes for which _scopes_overlap holds
    Kinds,          \* kinds of nodes, with their routes
    Merges,         \* merge strategies
    NoMerge,        \* merge_strategy is None
    MaxDepths       \* bounds that graphs may have

Nodes == 1..N

GraphNode == [depends_on : SUBSET Nodes, role : {"atomic", "composite"},
              kind : Kinds, write_scopes : SUBSET Scopes,
              merge : Merges \cup {NoMerge}]

ASSUME GraphCheckAssumption ==
    /\ N \in Nat \ {0}
    /\ MaxDepths \subseteq Nat \ {0}
    /\ NoMerge \notin Merges
    /\ Given \subseteq GraphNode
    /\ \A s, t \in Scopes : <<s, t>> \in Overlapping => <<t, s>> \in Overlapping

VARIABLES
    graph,      \* nodes of the graph given
    max_depth,  \* its bound on chains of dependencies
    phase,      \* what is being done, or the outcome
    indegree,   \* dependencies of a node that were not seen yet
    depth,      \* length of the longest chain found to a node
    queue,      \* nodes whose dependencies have all been seen
    seen,       \* nodes taken from the queue
    node,       \* the node whose ancestors are collected
    stack,      \* nodes to look at for that
    result,     \* ancestors found
    reach,      \* ancestors of the nodes before `node`
    units       \* node_ids of the plan units made so far

vars == <<graph, max_depth, phase, indegree, depth, queue, seen, node, stack,
          result, reach, units>>

Deps(n) == graph[n].depends_on

Seen == {seen[i] : i \in DOMAIN seen}

-----------------------------------------------------------------------------
(***************************************************************************)
(* _validate_acyclic_and_depth, and the same walk in topological_nodes.    *)
(***************************************************************************)

Degree(n) == Cardinality(graph[n].depends_on)

Init ==
    /\ graph \in [Nodes -> Given]
    /\ max_depth \in MaxDepths
    /\ phase = "walk"
    /\ indegree = [n \in Nodes |-> Degree(n)]
    /\ queue = {n \in Nodes : Degree(n) = 0}
    /\ depth = [n \in Nodes |-> 1]
    /\ seen = <<>>
    /\ node = 1
    /\ stack = {}
    /\ result = {}
    /\ reach = [n \in Nodes |-> {}]
    /\ units = <<>>

\* Mutant: the first way to a node counts.
FirstDepth(n, m) == IF depth[m] = 1 THEN depth[n] + 1 ELSE depth[m]

\* The depth of m after its dependency n was taken.
Deeper(n, m) == IF depth[n] + 1 > depth[m] THEN depth[n] + 1 ELSE depth[m]

Dequeue(n) ==
    /\ phase \in {"walk", "order"}
    /\ n \in queue
    /\ seen' = Append(seen, n)
    /\ indegree' = [m \in Nodes |->
                        IF n \in Deps(m) THEN indegree[m] - 1 ELSE indegree[m]]
    /\ queue' = (queue \ {n})
                  \cup {m \in Nodes : n \in Deps(m) /\ indegree[m] = 1}
    /\ depth' = IF phase = "order" THEN depth
                ELSE [m \in Nodes |->
                        IF n \in Deps(m) THEN Deeper(n, m) ELSE depth[m]]
    /\ UNCHANGED <<graph, max_depth, phase, node, stack, result, reach,
                   units>>

TooDeep == \E n \in Nodes : depth[n] > max_depth

\* The loop over the nodes of _validate_write_safety begins.
StartReach ==
    /\ phase' = "reach"
    /\ stack' = Deps(1)
    /\ UNCHANGED <<graph, max_depth, indegree, depth, queue, seen, node,
                   result, reach, units>>

Reject(verdict) ==
    /\ phase' = verdict
    /\ UNCHANGED <<graph, max_depth, indegree, depth, queue, seen, node,
                   stack, result, reach, units>>

\* Mutant: the nodes seen are not counted.
EndWalkUncounted ==
    /\ phase = "walk"
    /\ queue = {}
    /\ IF TooDeep THEN Reject("too deep") ELSE StartReach

\* Mutant: the walk goes on until all nodes are seen.
EndWalkWhenAllSeen ==
    /\ phase = "walk"
    /\ Len(seen) = N
    /\ IF TooDeep THEN Reject("too deep") ELSE StartReach

EndWalk ==
    /\ phase = "walk"
    /\ queue = {}
    /\ IF Len(seen) # N THEN Reject("cyclic")
       ELSE IF TooDeep THEN Reject("too deep") ELSE StartReach

-----------------------------------------------------------------------------
(***************************************************************************)
(* _ancestors of each node, and _validate_write_safety.                    *)
(***************************************************************************)

\* Mutant: the dependencies of what is found are not looked at.
PopDirect(d) ==
    /\ phase = "reach"
    /\ d \in stack
    /\ stack' = stack \ {d}
    /\ result' = result \cup {d}
    /\ UNCHANGED <<graph, max_depth, phase, indegree, depth, queue, seen,
                   node, reach, units>>

Pop(d) ==
    /\ phase = "reach"
    /\ d \in stack
    /\ stack' = (stack \ {d}) \cup (IF d \in result THEN {} ELSE Deps(d))
    /\ result' = result \cup {d}
    /\ UNCHANGED <<graph, max_depth, phase, indegree, depth, queue, seen,
                   node, reach, units>>

NextNode ==
    /\ phase = "reach"
    /\ stack = {}
    /\ reach' = [reach EXCEPT ![node] = result]
    /\ result' = {}
    /\ IF node < N
         THEN /\ node' = node + 1
              /\ stack' = Deps(node + 1)
              /\ UNCHANGED phase
         ELSE /\ phase' = "writes"
              /\ UNCHANGED <<node, stack>>
    /\ UNCHANGED <<graph, max_depth, indegree, depth, queue, seen, units>>

ScopesOverlap(left, right) ==
    \E s \in graph[left].write_scopes, t \in graph[right].write_scopes :
        <<s, t>> \in Overlapping

Merged(left, right) ==
    graph[left].merge # NoMerge /\ graph[left].merge = graph[right].merge

\* Each pair is looked at once, with the earlier node on the left.
Unsafe ==
    \E left, right \in Nodes :
        /\ left < right
        /\ ScopesOverlap(left, right)
        /\ left \notin reach[right] /\ right \notin reach[left]
        /\ ~Merged(left, right)

\* validate() ends; topological_nodes counts and walks again.
CheckWrites ==
    /\ phase = "writes"
    /\ IF Unsafe THEN Reject("unsafe")
       ELSE /\ phase' = "order"
            /\ indegree' = [n \in Nodes |-> Degree(n)]
            /\ queue' = {n \in Nodes : Degree(n) = 0}
            /\ seen' = <<>>
            /\ UNCHANGED <<graph, max_depth, depth, node, stack, result,
                           reach, units>>

EndOrder ==
    /\ phase = "order"
    /\ queue = {}
    /\ phase' = "group"
    /\ UNCHANGED <<graph, max_depth, indegree, depth, queue, seen, node,
                   stack, result, reach, units>>

-----------------------------------------------------------------------------
(***************************************************************************)
(* compile_plan_units.                                                     *)
(***************************************************************************)

Consumed == UNION {units[i] : i \in DOMAIN units}

\* Nodes that may share a prompt.
Groupable(n) == graph[n].role = "atomic" /\ graph[n].write_scopes = {}

\* Mutant: dependencies are not compared.
AlikeKind(n, m) == graph[m].kind = graph[n].kind

Alike(n, m) == graph[m].kind = graph[n].kind /\ Deps(m) = Deps(n)

\* All nodes that are not consumed come after n.
Group(n) ==
    IF Groupable(n)
      THEN {n} \cup {m \in Nodes \ Consumed : Groupable(m) /\ Alike(n, m)}
      ELSE {n}

\* The loop over the ordered nodes passes over those that are consumed.
MakeUnit ==
    /\ phase = "group"
    /\ \E i \in DOMAIN seen :
          /\ seen[i] \notin Consumed
          /\ \A j \in DOMAIN seen : j < i => seen[j] \in Consumed
          /\ units' = Append(units, Group(seen[i]))
    /\ UNCHANGED <<graph, max_depth, phase, indegree, depth, queue, seen,
                   node, stack, result, reach>>

EndGroup ==
    /\ phase = "group"
    /\ Seen \subseteq Consumed
    /\ phase' = "compiled"
    /\ UNCHANGED <<graph, max_depth, indegree, depth, queue, seen, node,
                   stack, result, reach, units>>

Next ==
    \/ \E n \in Nodes : Dequeue(n) \/ Pop(n)
    \/ EndWalk
    \/ NextNode
    \/ CheckWrites
    \/ EndOrder
    \/ MakeUnit
    \/ EndGroup

\* The functions are called and run.
Spec == Init /\ [][Next]_vars /\ WF_vars(Next)

-----------------------------------------------------------------------------
(***************************************************************************)
(* Properties.                                                             *)
(***************************************************************************)

Rejections == {"cyclic", "too deep", "unsafe"}

Accepted == phase \in {"order", "group", "compiled"}

\* The graph as module DelegationGraph has it; writers with one merge
\* strategy do not count as overlapping.
Reference == INSTANCE DelegationGraph WITH
    Atomic <- {n \in Nodes : graph[n].role = "atomic"},
    DependsOn <- [n \in Nodes |-> Deps(n)],
    Overlap <- {e \in Nodes \X Nodes :
                    ScopesOverlap(e[1], e[2]) /\ ~Merged(e[1], e[2])}

\* Counters never fall below zero, and no node is taken or kept twice.
TypeOK ==
    /\ graph \in [Nodes -> Given]
    /\ max_depth \in MaxDepths
    /\ phase \in {"walk", "reach", "writes", "order", "group", "compiled"}
                   \cup Rejections
    /\ indegree \in [Nodes -> 0..N]
    /\ depth \in [Nodes -> 1..N]
    /\ queue \subseteq Nodes \ Seen
    /\ seen \in Seq(Nodes) /\ Len(seen) <= N
    /\ \A i, j \in DOMAIN seen : seen[i] = seen[j] => i = j
    /\ node \in Nodes
    /\ stack \subseteq Nodes
    /\ result \subseteq Nodes
    /\ reach \in [Nodes -> SUBSET Nodes]
    /\ units \in Seq(SUBSET Nodes)

\* What the other modules assume of a graph is what validate() has established
\* when it returns.
AcceptedFits == Accepted => Reference!Acyclic /\ Reference!WriteSafe

\* And validate() rejects nothing else: what it says is wrong is wrong.
RejectedRightly ==
    /\ phase = "cyclic" => ~Reference!Acyclic
    /\ phase = "unsafe" => ~Reference!WriteSafe

\* The depth that max_depth bounds is that of the longest chain: one more than
\* the deepest dependency, whatever the order of the walk.
DepthIsLongest ==
    phase \notin {"walk", "cyclic"} =>
        \A n \in Nodes : depth[n] = 1 + Max({0} \cup {depth[d] : d \in Deps(n)})

\* _ancestors returns the transitive dependencies.
ReachIsAncestors ==
    \A n \in Nodes :
        (Accepted \/ phase = "writes" \/ (phase = "reach" /\ n < node))
            => reach[n] = Reference!Ancestors(n)

\* Each node is in one plan unit, and all that it depends on is in units
\* before: grouping never makes a unit wait for itself or for a later one.
UnitsFollowDependencies ==
    /\ \A i, j \in DOMAIN units : units[i] \cap units[j] # {} => i = j
    /\ \A i \in DOMAIN units : \A n \in units[i] :
          Deps(n) \subseteq UNION {units[j] : j \in 1..(i - 1)}
    /\ phase = "compiled" => Consumed = Nodes

\* The work lists run empty, on cyclic graphs too.
Terminates == <>(phase = "compiled" \/ phase \in Rejections)

=============================================================================
