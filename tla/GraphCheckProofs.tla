-------------------------- MODULE GraphCheckProofs --------------------------
(***************************************************************************)
(* Proof that validate() accepts only graphs the other components may      *)
(* rely on, for graphs of any size and any order of the work lists.        *)
(***************************************************************************)
EXTENDS GraphCheck, FiniteSetTheorems, WellFoundedInduction, TLAPS

(***************************************************************************)
(* Graphs.                                                                 *)
(***************************************************************************)

IsGraph == graph \in [Nodes -> Given]

Anc(n) == Reference!Ancestors(n)

\* No set of nodes holds itself up.
Chainless == \A S \in SUBSET Nodes : S # {} => \E n \in S : Deps(n) \cap S = {}

\* Sets of nodes are finite.
LEMMA FiniteNodes ==
    /\ IsFiniteSet(Nodes)
    /\ Cardinality(Nodes) = N
    /\ \A S \in SUBSET Nodes : IsFiniteSet(S) /\ Cardinality(S) \in Nat
<1>1. IsFiniteSet(Nodes) /\ Cardinality(Nodes) = N
  BY GraphCheckAssumption, FS_Interval DEF GraphCheckAssumption, Nodes
<1> QED
  BY <1>1, FS_Subset, FS_CardinalityType

\* Dependencies are nodes.
LEMMA DepsAreNodes == IsGraph => \A n \in Nodes : Deps(n) \subseteq Nodes
BY GraphCheckAssumption DEF GraphCheckAssumption, IsGraph, Deps, GraphNode

\* What Ancestors means for a graph that is a variable.
LEMMA AncDef ==
    ASSUME NEW n \in Nodes
    PROVE  Anc(n) = {m \in Nodes : \A S \in SUBSET Nodes :
                        (Deps(n) \subseteq S /\ \A k \in S : Deps(k) \subseteq S)
                            => m \in S}
BY DEF Anc, Reference!Ancestors, Reference!ClosedUnderDependencies

\* Ancestors lie within every closed set that holds the dependencies.
LEMMA AncLeast ==
    ASSUME NEW n \in Nodes, NEW S \in SUBSET Nodes, Deps(n) \subseteq S,
           \A k \in S : Deps(k) \subseteq S
    PROVE  Anc(n) \subseteq S
BY AncDef

\* They hold the dependencies, and their dependencies.
LEMMA AncClosed ==
    ASSUME IsGraph, NEW n \in Nodes
    PROVE  /\ Anc(n) \subseteq Nodes
           /\ Deps(n) \subseteq Anc(n)
           /\ \A m \in Anc(n) : Deps(m) \subseteq Anc(n)
<1>1. \A m \in Nodes : Deps(m) \subseteq Nodes
  BY DepsAreNodes
<1>2. ASSUME NEW m \in Anc(n), NEW d \in Deps(m)
      PROVE  d \in Anc(n)
  <2>1. m \in Nodes /\ d \in Nodes
    BY AncDef, <1>1
  <2> SUFFICES ASSUME NEW S \in SUBSET Nodes, Deps(n) \subseteq S,
                      \A k \in S : Deps(k) \subseteq S
               PROVE  d \in S
    BY AncDef, <2>1
  <2>2. m \in S
    BY AncDef
  <2> QED
    BY <2>2
<1> QED
  BY AncDef, <1>1, <1>2

\* A node that is its own ancestor is in a set that holds itself up.
LEMMA ChainlessAcyclic ==
    ASSUME IsGraph, Chainless
    PROVE  Reference!Acyclic
<1> SUFFICES ASSUME NEW n \in Nodes, n \in Anc(n)
             PROVE  FALSE
  BY DEF Reference!Acyclic, Reference!AncestorsOf, Anc
<1> DEFINE S == {m \in Nodes : n \in Anc(m)}
<1>1. n \in S
  OBVIOUS
<1>2. PICK m \in S : Deps(m) \cap S = {}
  BY <1>1 DEF Chainless
<1> DEFINE T == {k \in Anc(m) : k \notin S /\ k # n}
<1>3. n \notin Deps(m)
  BY <1>1, <1>2
<1>4. Deps(m) \subseteq T
  BY <1>2, <1>3, AncClosed
<1>5. ASSUME NEW k \in T
      PROVE  Deps(k) \subseteq T
  <2>1. k \in Nodes /\ n \notin Anc(k) /\ Deps(k) \subseteq Anc(m)
    BY AncClosed
  <2> SUFFICES ASSUME NEW d \in Deps(k) PROVE d \notin S /\ d # n
    BY <2>1
  <2>2. d \in Anc(k) /\ d \in Nodes
    BY <2>1, AncClosed
  <2>3. Anc(d) \subseteq Anc(k)
    <3>1. /\ Deps(d) \subseteq Anc(k)
          /\ Anc(k) \in SUBSET Nodes
          /\ \A j \in Anc(k) : Deps(j) \subseteq Anc(k)
      BY <2>1, <2>2, AncClosed
    <3> QED
      BY <2>2, <3>1, AncLeast
  <2> QED
    BY <2>1, <2>2, <2>3
<1>6. T \in SUBSET Nodes
  BY AncClosed
<1>7. Anc(m) \subseteq T
  <2> HIDE DEF T
  <2> QED
    BY <1>4, <1>5, <1>6, AncLeast
<1> QED
  BY <1>7

\* And where no node is its own ancestor there is no such set: the ancestors of
\* some member are least, and those of a dependency of it would be less.
LEMMA AcyclicChainless ==
    ASSUME IsGraph, Reference!Acyclic
    PROVE  Chainless
<1> SUFFICES ASSUME NEW S \in SUBSET Nodes, S # {},
                    \A n \in S : Deps(n) \cap S # {}
             PROVE  FALSE
  BY DEF Chainless
<1> DEFINE R == StrictSubsetOrdering(Nodes)
           T == {Anc(n) : n \in S}
<1>1. T \subseteq FiniteSubsetsOf(Nodes) /\ T # {}
  BY AncClosed, FiniteNodes DEF FiniteSubsetsOf
<1>2. IsWellFoundedOn(R, FiniteSubsetsOf(Nodes))
  BY FS_StrictSubsetOrderingWellFounded
<1>3. PICK A \in T : \A B \in T : <<B, A>> \notin R
  <2> HIDE DEF R, T
  <2> QED
    BY <1>1, <1>2, WFMin
<1>4. PICK n \in S : A = Anc(n)
  OBVIOUS
<1>5. PICK d \in S : d \in Deps(n)
  OBVIOUS
<1>6. Anc(d) \subseteq Anc(n) /\ d \in Anc(n) /\ Anc(n) \subseteq Nodes
  <2>1. /\ Anc(n) \subseteq Nodes /\ d \in Anc(n)
        /\ \A m \in Anc(n) : Deps(m) \subseteq Anc(n)
    BY <1>5, AncClosed
  <2> QED
    BY <2>1, AncLeast
<1>7. d \notin Anc(d)
  BY DEF Reference!Acyclic, Reference!AncestorsOf, Anc
<1>8. <<Anc(d), A>> \in R
  BY <1>4, <1>6, <1>7 DEF StrictSubsetOrdering
<1> QED
  BY <1>3, <1>8

-----------------------------------------------------------------------------
(***************************************************************************)
(* The walk.                                                               *)
(***************************************************************************)

\* The nodes seen are closed and sorted, the counters count what is missing,
\* and the queue holds the nodes for which nothing is.
WalkInv ==
    /\ Cardinality(Seen) = Len(seen)
    /\ \A m \in Seen : Deps(m) \subseteq Seen
    /\ \A S \in SUBSET Seen : S # {} => \E n \in S : Deps(n) \cap S = {}
    /\ indegree = [m \in Nodes |-> Cardinality(Deps(m) \ Seen)]
    /\ queue = {m \in Nodes \ Seen : Deps(m) \subseteq Seen}

\* One node is taken from the queue.
LEMMA WalkStep ==
    ASSUME IsGraph, seen \in Seq(Nodes), WalkInv, NEW n \in Nodes, Dequeue(n)
    PROVE  WalkInv' /\ seen' \in Seq(Nodes)
<1> USE DEF WalkInv
<1>1. /\ n \in queue /\ n \notin Seen /\ Deps(n) \subseteq Seen
      /\ seen' = Append(seen, n)
      /\ graph' = graph
  BY DEF Dequeue
<1>2. seen' \in Seq(Nodes) /\ Len(seen') = Len(seen) + 1 /\ Len(seen) \in Nat
  BY <1>1
<1>3. Seen \subseteq Nodes
  BY DEF Seen
<1>4. Seen' = Seen \cup {n}
  BY <1>1 DEF Seen
<1>5. \A m \in Nodes : Deps(m)' = Deps(m) /\ Deps(m) \subseteq Nodes
  BY <1>1, DepsAreNodes DEF Deps
<1>6. Cardinality(Seen') = Len(seen')
  BY <1>1, <1>2, <1>3, <1>4, FiniteNodes, FS_AddElement
<1>7. \A m \in Seen' : Deps(m)' \subseteq Seen'
  BY <1>1, <1>3, <1>4, <1>5
<1>8. ASSUME NEW S \in SUBSET Seen', S # {}
      PROVE  \E k \in S : Deps(k)' \cap S = {}
  <2>1. CASE n \notin S
    BY <1>3, <1>4, <1>5, <1>8, <2>1
  <2>2. CASE S = {n}
    BY <1>1, <1>5, <2>2
  <2>3. CASE n \in S /\ S # {n}
    <3>1. S \ {n} \in SUBSET Seen /\ S \ {n} # {}
      BY <1>4, <2>3
    <3>2. PICK k \in S \ {n} : Deps(k) \cap (S \ {n}) = {}
      BY <3>1
    <3>3. k \in Seen /\ n \notin Deps(k)
      BY <1>1, <3>1, <3>2
    <3> QED
      BY <1>3, <1>5, <3>2, <3>3
  <2> QED
    BY <2>1, <2>2, <2>3
<1>9. ASSUME NEW m \in Nodes
      PROVE  /\ indegree'[m] = Cardinality(Deps(m) \ Seen')
             /\ n \in Deps(m) => (indegree[m] = 1 <=> Deps(m) \ Seen = {n})
  <2>1. IsFiniteSet(Deps(m) \ Seen) /\ Cardinality(Deps(m) \ Seen) \in Nat
    BY <1>5, FiniteNodes
  <2>2. /\ indegree'[m] = IF n \in Deps(m) THEN indegree[m] - 1 ELSE indegree[m]
        /\ indegree[m] = Cardinality(Deps(m) \ Seen)
    BY DEF Dequeue
  <2>3. CASE n \in Deps(m)
    <3>1. Deps(m) \ Seen' = (Deps(m) \ Seen) \ {n} /\ n \in Deps(m) \ Seen
      BY <1>1, <1>4, <2>3
    <3> DEFINE missing == Deps(m) \ Seen
    <3>2. Cardinality(missing \ {n}) = Cardinality(missing) - 1
      <4>1. IsFiniteSet(missing) /\ n \in missing
        BY <2>1, <3>1
      <4> QED
        BY <4>1, FS_RemoveElement
    <3>3. Cardinality(Deps(m) \ Seen) = 1 <=> \E x : Deps(m) \ Seen = {x}
      BY <2>1, FS_Singleton
    <3> QED
      BY <2>2, <2>3, <3>1, <3>2, <3>3
  <2>4. CASE n \notin Deps(m)
    <3>1. Deps(m) \ Seen' = Deps(m) \ Seen
      BY <1>4, <2>4
    <3> QED
      BY <2>2, <2>4, <3>1
  <2> QED
    BY <2>3, <2>4
<1>10. indegree' = [m \in Nodes |-> Cardinality(Deps(m)' \ Seen')]
  <2>1. indegree' = [m \in Nodes |-> indegree'[m]]
    BY DEF Dequeue
  <2> QED
    BY <1>5, <1>9, <2>1
<1>11. queue' = {m \in Nodes \ Seen' : Deps(m)' \subseteq Seen'}
  <2>1. queue' = (queue \ {n}) \cup {m \in Nodes : n \in Deps(m) /\ indegree[m] = 1}
    BY DEF Dequeue
  <2>2. queue' = (queue \ {n}) \cup {m \in Nodes : n \in Deps(m) /\ Deps(m) \ Seen = {n}}
    BY <1>9, <2>1
  <2> QED
    BY <1>1, <1>3, <1>4, <1>5, <2>2
<1> QED
  BY <1>2, <1>6, <1>7, <1>8, <1>10, <1>11

\* No node is taken twice, and none before what it depends on.
Sorted ==
    /\ \A i, j \in DOMAIN seen : seen[i] = seen[j] => i = j
    /\ \A i \in DOMAIN seen : \A d \in Deps(seen[i]) :
          \E j \in DOMAIN seen : j < i /\ seen[j] = d

\* One more node leaves the nodes seen sorted.
LEMMA SortedStep ==
    ASSUME IsGraph, seen \in Seq(Nodes), WalkInv, Sorted, NEW n \in Nodes,
           Dequeue(n)
    PROVE  Sorted'
<1>1. /\ n \notin Seen /\ Deps(n) \subseteq Seen
      /\ seen' = Append(seen, n)
      /\ graph' = graph
  BY DEF Dequeue, WalkInv
<1>2. /\ DOMAIN seen = 1..Len(seen) /\ Len(seen) \in Nat
      /\ DOMAIN seen' = 1..(Len(seen) + 1)
      /\ \A i \in DOMAIN seen : seen'[i] = seen[i] /\ seen[i] \in Seen
      /\ seen'[Len(seen) + 1] = n
  BY <1>1 DEF Seen
<1>3. \A i, j \in DOMAIN seen' : seen'[i] = seen'[j] => i = j
  BY <1>1, <1>2 DEF Sorted
<1>4. ASSUME NEW i \in DOMAIN seen', NEW d \in graph[seen'[i]].depends_on
      PROVE  \E j \in DOMAIN seen' : j < i /\ seen'[j] = d
  <2>1. CASE i \in DOMAIN seen
    <3>1. d \in Deps(seen[i])
      BY <1>2, <2>1 DEF Deps
    <3>2. PICK j \in DOMAIN seen : j < i /\ seen[j] = d
      BY <2>1, <3>1 DEF Sorted
    <3> QED
      BY <1>2, <3>2
  <2>2. CASE i = Len(seen) + 1
    <3>1. d \in Seen
      BY <1>1, <1>2, <2>2 DEF Deps
    <3>2. PICK j \in DOMAIN seen : seen[j] = d
      BY <3>1 DEF Seen
    <3> QED
      BY <1>2, <2>2, <3>2
  <2> QED
    BY <1>2, <2>1, <2>2
<1> QED
  BY <1>1, <1>3, <1>4 DEF Sorted, Deps

\* A walk begins: Init, and CheckWrites.
Fresh ==
    /\ indegree = [n \in Nodes |-> Degree(n)]
    /\ queue = {n \in Nodes : Degree(n) = 0}
    /\ seen = <<>>

\* Then nothing is seen.
LEMMA FreshWalk == IsGraph /\ Fresh => WalkInv /\ Sorted
<1> SUFFICES ASSUME IsGraph, Fresh PROVE WalkInv /\ Sorted
  OBVIOUS
<1>1. Seen = {} /\ Len(seen) = 0 /\ DOMAIN seen = {}
  BY DEF Fresh, Seen
<1>2. \A m \in Nodes : Deps(m) \ {} = Deps(m) /\ IsFiniteSet(Deps(m))
  BY DepsAreNodes, FiniteNodes
<1>3. \A m \in Nodes : Degree(m) = Cardinality(Deps(m))
  BY DEF Degree, Deps
<1>4. \A m \in Nodes : Cardinality(Deps(m)) = 0 <=> Deps(m) = {}
  BY <1>2, FS_EmptySet
<1>5. indegree = [m \in Nodes |-> Cardinality(Deps(m) \ Seen)]
  BY <1>1, <1>2, <1>3 DEF Fresh
<1>6. queue = {m \in Nodes \ Seen : Deps(m) \subseteq Seen}
  BY <1>1, <1>3, <1>4 DEF Fresh
<1>7. Cardinality(Seen) = Len(seen)
  BY <1>1, FS_EmptySet
<1> QED
  BY <1>1, <1>5, <1>6, <1>7 DEF WalkInv, Sorted

\* The same of the next state.
LEMMA FreshWalkNext == (IsGraph /\ Fresh => WalkInv /\ Sorted)'
BY FreshWalk, PTL

-----------------------------------------------------------------------------
(***************************************************************************)
(* The invariant.                                                          *)
(***************************************************************************)

Phases == {"walk", "reach", "writes", "order", "group", "compiled"} \cup Rejections

\* The phases after a walk that saw all nodes and was not too deep.
Walked == Accepted \/ phase \in {"reach", "writes"}

\* What is found is an ancestor, and what is missing is on the stack.
ReachInv ==
    /\ result \cup stack \subseteq Anc(node)
    /\ Deps(node) \subseteq result \cup stack
    /\ \A d \in result : Deps(d) \subseteq result \cup stack

Collected ==
    \A m \in Nodes : (phase # "reach" \/ m < node) => reach[m] = Anc(m)

GInv ==
    /\ IsGraph
    /\ seen \in Seq(Nodes)
    /\ node \in Nodes
    /\ phase \in Phases
    /\ reach \in [Nodes -> SUBSET Nodes]
    /\ phase = "walk" => node = 1 /\ result = {}
    /\ phase \in {"walk", "order"} => WalkInv /\ Sorted
    /\ phase \in {"group", "compiled"} => Sorted /\ Seen = Nodes
    /\ phase = "cyclic" => ~Chainless
    /\ phase = "unsafe" => Unsafe /\ Collected
    /\ Walked => Chainless /\ Collected
    /\ phase = "reach" => ReachInv
    /\ Accepted => ~Unsafe

\* Nothing is seen at first.
LEMMA InitGInv == Init => GInv
<1> SUFFICES ASSUME Init PROVE GInv
  OBVIOUS
<1>1. IsGraph
  BY DEF Init, IsGraph
<1>2. /\ seen \in Seq(Nodes) /\ Seen = {} /\ Len(seen) = 0
  BY DEF Init, Seen
<1>3. node \in Nodes
  BY GraphCheckAssumption DEF Init, GraphCheckAssumption, Nodes
<1>4. WalkInv /\ Sorted
  BY <1>1, FreshWalk DEF Init, Fresh
<1> QED
  BY <1>1, <1>2, <1>3, <1>4 DEF Init, GInv, Phases, Walked, Accepted

\* A step that leaves the graph as it is leaves ancestors and overlaps.
LEMMA SameGraph ==
    ASSUME UNCHANGED graph
    PROVE  /\ IsGraph' = IsGraph
           /\ Chainless' = Chainless
           /\ \A n \in Nodes : Deps(n)' = Deps(n) /\ Anc(n)' = Anc(n)
<1>1. \A n \in Nodes : Deps(n)' = Deps(n)
  BY DEF Deps
<1>2. \A n \in Nodes : Anc(n)' = Anc(n)
  BY DEF Anc, Reference!Ancestors, Reference!ClosedUnderDependencies, Deps
<1> QED
  BY <1>1, <1>2 DEF IsGraph, Chainless, Deps

\* A walk that has seen all nodes has seen a graph that is sorted.
LEMMA SeenAll ==
    ASSUME IsGraph, seen \in Seq(Nodes), WalkInv, Len(seen) = N
    PROVE  Chainless
<1>1. Seen \in SUBSET Nodes
  BY DEF Seen
<1>2. Seen = Nodes
  BY <1>1, FiniteNodes, FS_Subset DEF WalkInv
<1> QED
  BY <1>2 DEF WalkInv, Chainless

\* A walk that has nothing left to take has seen all nodes or is in a cycle.
LEMMA SeenSome ==
    ASSUME IsGraph, seen \in Seq(Nodes), WalkInv, queue = {}
    PROVE  Seen = Nodes \/ ~Chainless
<1> SUFFICES ASSUME Seen # Nodes, Chainless PROVE FALSE
  OBVIOUS
<1>1. Seen \subseteq Nodes
  BY DEF Seen
<1>2. Nodes \ Seen \in SUBSET Nodes /\ Nodes \ Seen # {}
  BY <1>1
<1>3. PICK n \in Nodes \ Seen : Deps(n) \cap (Nodes \ Seen) = {}
  BY <1>2 DEF Chainless
<1>4. Deps(n) \subseteq Seen
  BY <1>3, DepsAreNodes
<1> QED
  BY <1>3, <1>4 DEF WalkInv

\* What the seen nodes of an accepted or a rejected graph are counted for.
LEMMA SeenCount ==
    ASSUME seen \in Seq(Nodes), WalkInv, Seen = Nodes
    PROVE  Len(seen) = N
BY FiniteNodes DEF WalkInv

\* The walk ends.
LEMMA EndWalkStep == GInv /\ EndWalk => GInv'
<1> SUFFICES ASSUME GInv, EndWalk PROVE GInv'
  OBVIOUS
<1> USE DEF GInv
<1>1. /\ phase = "walk" /\ node = 1 /\ result = {} /\ WalkInv /\ queue = {}
      /\ UNCHANGED <<graph, seen, node, result, reach>>
  BY DEF EndWalk, Reject, StartReach
<1>2. CASE phase' \in Rejections
  <2>1. phase' = "cyclic" => ~Chainless
    BY <1>1, SeenSome, SeenCount DEF EndWalk, Reject, StartReach
  <2>2. phase' \in {"cyclic", "too deep"}
    BY <1>2 DEF EndWalk, Reject, StartReach, Rejections
  <2>3. Chainless' = Chainless /\ IsGraph'
    BY <1>1, SameGraph
  <2>4. seen' \in Seq(Nodes) /\ node' \in Nodes /\ reach' \in [Nodes -> SUBSET Nodes]
    BY <1>1
  <2>5. ~Walked' /\ ~Accepted' /\ phase' \in Phases
    BY <2>2 DEF Phases, Walked, Accepted, Rejections
  <2> QED
    BY <2>1, <2>2, <2>3, <2>4, <2>5
<1>3. CASE phase' \notin Rejections
  <2>1. Len(seen) = N /\ phase' = "reach" /\ stack' = Deps(1)
    BY <1>1, <1>3 DEF EndWalk, Reject, StartReach, Rejections
  <2>2. Chainless'
    BY <1>1, <2>1, SeenAll, SameGraph
  <2>3. ReachInv'
    <3>1. Deps(node)' = Deps(node) /\ Anc(node)' = Anc(node)
      BY <1>1, SameGraph
    <3> QED
      BY <1>1, <2>1, <3>1, AncClosed DEF ReachInv
  <2>4. Collected'
    BY <1>1, <2>1 DEF Collected, Nodes
  <2> QED
    BY <1>1, <2>1, <2>2, <2>3, <2>4, SameGraph DEF Phases, Walked, Accepted
<1> QED
  BY <1>2, <1>3

\* One node is popped: its dependencies are ancestors too.
LEMMA PopStep ==
    ASSUME GInv, NEW d \in Nodes, Pop(d)
    PROVE  GInv'
<1> USE DEF GInv
<1>1. /\ phase = "reach" /\ d \in stack /\ ReachInv /\ Chainless /\ Collected
      /\ stack' = (stack \ {d}) \cup (IF d \in result THEN {} ELSE Deps(d))
      /\ result' = result \cup {d}
      /\ UNCHANGED <<graph, phase, seen, node, reach>>
  BY DEF Pop, Walked
<1>2. /\ d \in Anc(node)
      /\ Deps(d) \subseteq Anc(node)
  BY <1>1, AncClosed DEF ReachInv
<1>3. ReachInv'
  <2>1. \A n \in Nodes : Deps(n)' = Deps(n) /\ Anc(n)' = Anc(n)
    BY <1>1, SameGraph
  <2>2. result' \cup stack' \subseteq Anc(node)
    BY <1>1, <1>2 DEF ReachInv
  <2>3. Deps(node) \subseteq result' \cup stack'
    BY <1>1 DEF ReachInv
  <2>4. \A k \in result' : Deps(k) \subseteq result' \cup stack'
    BY <1>1 DEF ReachInv
  <2>5. result' \subseteq Nodes
    BY <2>2, AncClosed
  <2> QED
    BY <1>1, <2>1, <2>2, <2>3, <2>4, <2>5 DEF ReachInv
<1>4. Collected'
  BY <1>1, SameGraph DEF Collected
<1> QED
  BY <1>1, <1>3, <1>4, SameGraph DEF Walked, Accepted

\* The stack is empty: what was found is closed, so it is all ancestors.
LEMMA NextNodeStep == GInv /\ NextNode => GInv'
<1> SUFFICES ASSUME GInv, NextNode PROVE GInv'
  OBVIOUS
<1> USE DEF GInv
<1>1. /\ phase = "reach" /\ stack = {} /\ ReachInv /\ Chainless /\ Collected
      /\ reach' = [reach EXCEPT ![node] = result]
      /\ UNCHANGED <<graph, seen>>
  BY DEF NextNode, Walked
<1>2. result = Anc(node)
  <2>1. /\ result \subseteq Anc(node) /\ Deps(node) \subseteq result
        /\ \A k \in result : Deps(k) \subseteq result
    BY <1>1 DEF ReachInv
  <2>2. result \in SUBSET Nodes
    BY <2>1, AncClosed
  <2>3. Anc(node) \subseteq result
    BY <2>1, <2>2, AncLeast
  <2> QED
    BY <2>1, <2>3
<1>3. /\ reach' \in [Nodes -> SUBSET Nodes]
      /\ reach'[node] = Anc(node)
      /\ \A m \in Nodes \ {node} : reach'[m] = reach[m]
  BY <1>1, <1>2, AncClosed
<1>4. CASE node < N
  <2>1. node' = node + 1 /\ result' = {} /\ phase' = "reach"
    BY <1>1, <1>4 DEF NextNode
  <2>2. node' \in Nodes
    BY <1>4, <2>1, GraphCheckAssumption DEF Nodes, GraphCheckAssumption
  <2>3. ReachInv'
    <3> DEFINE next == node + 1
    <3>1. next \in Nodes /\ node' = next
      BY <2>1, <2>2
    <3>2. Deps(next) \subseteq Anc(next)
      BY <3>1, AncClosed
    <3>3. stack' = Deps(next) /\ result' = {}
      BY <1>4 DEF NextNode
    <3>4. Deps(node)' = Deps(next)
      BY <1>1, <3>1 DEF Deps
    <3>5. Anc(node)' = Anc(next)
      BY <1>1, <3>1 DEF Anc, Deps, Reference!Ancestors,
         Reference!ClosedUnderDependencies
    <3> QED
      BY <3>2, <3>3, <3>4, <3>5 DEF ReachInv
  <2>4. Collected'
    <3>1. ASSUME NEW m \in Nodes, m < node'
          PROVE  reach'[m] = Anc(m)
      BY <1>1, <1>3, <2>1, <3>1 DEF Collected, Nodes
    <3> QED
      BY <1>1, <2>1, <3>1, SameGraph DEF Collected
  <2> QED
    BY <1>1, <1>3, <2>1, <2>2, <2>3, <2>4, SameGraph DEF Walked, Accepted
<1>5. CASE ~(node < N)
  <2>1. phase' = "writes" /\ node' = node
    BY <1>5 DEF NextNode
  <2>2. \A m \in Nodes : m = node \/ m < node
    BY <1>5, GraphCheckAssumption DEF Nodes, GraphCheckAssumption
  <2>3. Collected'
    BY <1>1, <1>3, <2>1, <2>2, SameGraph DEF Collected
  <2> QED
    BY <1>1, <1>3, <2>1, <2>3, SameGraph DEF Walked, Accepted, Phases
<1> QED
  BY <1>4, <1>5

\* Writers that are neither ordered nor merged are not let through.
LEMMA CheckWritesStep == GInv /\ CheckWrites => GInv'
<1> SUFFICES ASSUME GInv, CheckWrites PROVE GInv'
  OBVIOUS
<1> USE DEF GInv
<1>1. /\ phase = "writes" /\ Chainless /\ Collected
      /\ UNCHANGED <<graph, node, reach>>
      /\ seen' = seen \/ seen' = <<>>
  BY DEF CheckWrites, Reject, Walked
<1>2. seen' \in Seq(Nodes)
  <2>1. seen \in Seq(Nodes)
    OBVIOUS
  <2>2. <<>> \in Seq(Nodes)
    BY Z3 DEF Nodes
  <2> QED
    BY <1>1, <2>1, <2>2
<1>3. Unsafe' = Unsafe
  BY <1>1 DEF Unsafe, ScopesOverlap, Merged
<1>4. Collected'
  BY <1>1, SameGraph DEF Collected, CheckWrites, Reject
<1>5. CASE Unsafe
  BY <1>1, <1>2, <1>3, <1>4, <1>5, SameGraph
  DEF CheckWrites, Reject, Phases, Walked, Accepted, Rejections
<1>6. CASE ~Unsafe
  <2>1. phase' = "order"
    BY <1>6 DEF CheckWrites
  <2>2. (WalkInv /\ Sorted)'
    <3>1. \A n \in Nodes : Degree(n)' = Degree(n)
      BY <1>1 DEF Degree
    <3>2. Fresh'
      BY <1>6, <3>1 DEF CheckWrites, Fresh
    <3>3. IsGraph'
      BY <1>1, SameGraph
    <3> QED
      BY <3>2, <3>3, FreshWalkNext
  <2> QED
    BY <1>1, <1>2, <1>3, <1>4, <1>6, <2>1, <2>2, SameGraph
    DEF Phases, Walked, Accepted
<1> QED
  BY <1>5, <1>6

\* The second walk and the grouping change nothing that was established.
LEMMA AfterStep ==
    ASSUME GInv, Accepted, Accepted', UNCHANGED <<graph, node, reach>>,
           seen' \in Seq(Nodes),
           (phase = "order" => WalkInv /\ Sorted)',
           (phase \in {"group", "compiled"} => Sorted /\ Seen = Nodes)'
    PROVE  GInv'
<1>1. Unsafe' = Unsafe
  BY DEF Unsafe, ScopesOverlap, Merged
<1>2. Collected'
  BY SameGraph DEF GInv, Walked, Accepted, Collected
<1> QED
  BY <1>1, <1>2, SameGraph DEF GInv, Walked, Accepted, Phases

\* Every step preserves the invariant.
LEMMA StepGInv == GInv /\ [Next]_vars => GInv'
<1> SUFFICES ASSUME GInv, [Next]_vars PROVE GInv'
  OBVIOUS
<1>1. ASSUME NEW n \in Nodes, Dequeue(n)
      PROVE  GInv'
  <2>1. UNCHANGED <<graph, phase, node, result, reach>>
    BY <1>1 DEF Dequeue
  <2>2. WalkInv' /\ Sorted' /\ seen' \in Seq(Nodes)
    BY <1>1, WalkStep, SortedStep DEF GInv, Dequeue
  <2>3. CASE phase = "walk"
    BY <2>1, <2>2, <2>3, SameGraph DEF GInv, Walked, Accepted
  <2>4. CASE phase = "order"
    BY <2>1, <2>2, <2>4, AfterStep DEF Accepted
  <2> QED
    BY <1>1, <2>3, <2>4 DEF Dequeue
<1>2. CASE EndOrder \/ MakeUnit \/ EndGroup
  <2>1. /\ UNCHANGED <<graph, node, reach, seen>>
        /\ Accepted /\ phase' \in {"group", "compiled"}
    BY <1>2 DEF EndOrder, MakeUnit, EndGroup, Accepted
  <2>2. Sorted' = Sorted /\ Seen' = Seen
    BY <2>1 DEF Sorted, Seen, Deps
  <2>3. Sorted /\ Seen = Nodes
    <3>1. CASE phase = "order"
      BY <1>2, <3>1, SeenSome DEF GInv, Walked, Accepted, EndOrder, MakeUnit, EndGroup
    <3>2. CASE phase # "order"
      BY <2>1, <3>2 DEF GInv, Accepted
    <3> QED
      BY <3>1, <3>2
  <2> QED
    BY <2>1, <2>2, <2>3, AfterStep DEF Accepted, GInv
<1>3. CASE UNCHANGED vars
  <2>1. UNCHANGED <<graph, phase, indegree, queue, seen, node, stack, result, reach>>
    BY <1>3 DEF vars
  <2>2. \A n \in Nodes : Deps(n)' = Deps(n) /\ Anc(n)' = Anc(n)
    BY <2>1, SameGraph
  <2>3. /\ WalkInv' = WalkInv /\ Unsafe' = Unsafe
        /\ Sorted' = Sorted /\ Seen' = Seen
    BY <2>1 DEF WalkInv, Sorted, Seen, Deps, Unsafe, ScopesOverlap, Merged
  <2>4. Collected' = Collected /\ ReachInv' = ReachInv
    BY <2>1, SameGraph DEF Collected, ReachInv, GInv, Deps, Anc,
       Reference!Ancestors, Reference!ClosedUnderDependencies
  <2> QED
    BY <2>1, <2>3, <2>4, SameGraph DEF GInv, Walked, Accepted
<1> QED
  BY <1>1, <1>2, <1>3, EndWalkStep, PopStep, NextNodeStep, CheckWritesStep
  DEF Next

\* GInv holds in every reachable state.
THEOREM GraphCheckInvariant == Spec => []GInv
BY InitGInv, StepGInv, PTL DEF Spec

\* ExecutionGraph.validate(): a graph that passes is acyclic, and its
\* overlapping writers are ordered or merged, for graphs of any size.
THEOREM ValidatedGraphsFit == Spec => []AcceptedFits
<1>1. GInv => AcceptedFits
  <2> SUFFICES ASSUME GInv, Accepted
               PROVE  Reference!Acyclic /\ Reference!WriteSafe
    BY DEF AcceptedFits
  <2>1. IsGraph /\ Chainless /\ ~Unsafe /\ \A m \in Nodes : reach[m] = Anc(m)
    BY DEF GInv, Walked, Collected, Accepted
  <2>2. Reference!WriteSafe
    <3> SUFFICES ASSUME NEW m \in Nodes, NEW n \in Nodes, m # n,
                        ScopesOverlap(m, n), ~Merged(m, n)
                 PROVE  m \in Anc(n) \/ n \in Anc(m)
      BY DEF Reference!WriteSafe, Reference!Ordered, Reference!AncestorsOf, Anc
    <3>1. ScopesOverlap(n, m) /\ ~Merged(n, m)
      BY <2>1, GraphCheckAssumption
      DEF ScopesOverlap, Merged, IsGraph, GraphCheckAssumption, GraphNode
    <3>2. m < n \/ n < m
      BY GraphCheckAssumption DEF Nodes, GraphCheckAssumption
    <3> QED
      BY <2>1, <3>1, <3>2 DEF Unsafe
  <2> QED
    BY <2>1, <2>2, ChainlessAcyclic
<1> QED
  BY <1>1, GraphCheckInvariant, PTL

\* ExecutionGraph.validate(): a graph that is called cyclic is cyclic, and one
\* that is called unsafe has two writers that are neither ordered nor merged.
THEOREM RejectionsAreRight == Spec => []RejectedRightly
<1>1. GInv => RejectedRightly
  <2> SUFFICES ASSUME GInv PROVE RejectedRightly
    OBVIOUS
  <2>1. ASSUME phase = "cyclic" PROVE ~Reference!Acyclic
    BY <2>1, AcyclicChainless DEF GInv
  <2>2. ASSUME phase = "unsafe" PROVE ~Reference!WriteSafe
    <3>1. Unsafe /\ \A m \in Nodes : reach[m] = Anc(m)
      BY <2>2 DEF GInv, Collected
    <3>2. PICK m, n \in Nodes :
             /\ m < n
             /\ ScopesOverlap(m, n)
             /\ m \notin Anc(n) /\ n \notin Anc(m)
             /\ ~Merged(m, n)
      BY <3>1 DEF Unsafe
    <3>3. m # n
      BY <3>2 DEF Nodes
    <3> QED
      BY <3>2, <3>3
      DEF Reference!WriteSafe, Reference!Ordered, Reference!AncestorsOf, Anc
  <2> QED
    BY <2>1, <2>2 DEF RejectedRightly
<1> QED
  BY <1>1, GraphCheckInvariant, PTL

\* _ancestors returns the transitive dependencies, in whatever order the stack
\* is emptied.
THEOREM AncestorsCollected == Spec => []ReachIsAncestors
<1>1. GInv => ReachIsAncestors
  BY DEF GInv, Walked, Accepted, Collected, ReachIsAncestors, Anc
<1> QED
  BY <1>1, GraphCheckInvariant, PTL

-----------------------------------------------------------------------------
(***************************************************************************)
(* Plan units.                                                             *)
(***************************************************************************)

UnitsInv ==
    /\ units \in Seq(SUBSET Nodes)
    /\ phase \notin {"group", "compiled"} => units = <<>>
    /\ UnitsFollowDependencies

\* What shares a prompt with a node depends on the same nodes.
LEMMA GroupIs ==
    ASSUME NEW n \in Nodes, n \notin Consumed
    PROVE  /\ n \in Group(n) /\ Group(n) \subseteq Nodes \ Consumed
           /\ \A m \in Group(n) : Deps(m) = Deps(n)
BY DEF Group, Alike

\* One more unit: the first node that is in none, and those like it.
LEMMA MakeUnitStep ==
    ASSUME GInv, UnitsInv, MakeUnit
    PROVE  UnitsInv'
<1>1. PICK i \in DOMAIN seen :
         /\ phase = "group"
         /\ seen[i] \notin Consumed
         /\ \A j \in DOMAIN seen : j < i => seen[j] \in Consumed
         /\ units' = Append(units, Group(seen[i]))
         /\ UNCHANGED <<graph, phase, seen>>
  BY DEF MakeUnit
<1> DEFINE n == seen[i]
           G == Group(n)
           L == Len(units)
<1>2. n \in Nodes /\ Sorted
  BY <1>1 DEF GInv
<1>3. G \subseteq Nodes \ Consumed /\ \A m \in G : Deps(m) = Deps(n)
  BY <1>1, <1>2, GroupIs
<1>4. Deps(n) \subseteq Consumed
  <2> SUFFICES ASSUME NEW d \in Deps(n) PROVE d \in Consumed
    OBVIOUS
  <2>1. PICK j \in DOMAIN seen : j < i /\ seen[j] = d
    BY <1>2 DEF Sorted
  <2> QED
    BY <1>1, <2>1
<1>5. /\ units \in Seq(SUBSET Nodes) /\ DOMAIN units = 1..L /\ L \in Nat
      /\ units' \in Seq(SUBSET Nodes) /\ DOMAIN units' = 1..(L + 1)
      /\ \A j \in 1..L : units'[j] = units[j]
      /\ units'[L + 1] = G
  <2> HIDE DEF G
  <2> QED
    BY <1>1, <1>3 DEF UnitsInv, G
<1> HIDE DEF G, n
<1>6. \A j \in 1..L : units[j] \cap G = {}
  BY <1>3, <1>5 DEF Consumed
<1>7. ASSUME NEW j \in DOMAIN units', NEW k \in DOMAIN units',
             units'[j] \cap units'[k] # {}
      PROVE  j = k
  <2>1. CASE j \in 1..L /\ k \in 1..L
    BY <1>5, <1>7, <2>1 DEF UnitsInv, UnitsFollowDependencies
  <2>2. CASE j = L + 1 /\ k \in 1..L
    BY <1>5, <1>6, <1>7, <2>2
  <2>3. CASE k = L + 1 /\ j \in 1..L
    BY <1>5, <1>6, <1>7, <2>3
  <2> QED
    BY <1>5, <2>1, <2>2, <2>3
<1>8. ASSUME NEW k \in DOMAIN units', NEW m \in units'[k]
      PROVE  graph[m].depends_on \subseteq UNION {units'[j] : j \in 1..(k - 1)}
  <2>1. CASE k \in 1..L
    <3>1. Deps(m) \subseteq UNION {units[j] : j \in 1..(k - 1)}
      BY <1>5, <1>8, <2>1 DEF UnitsInv, UnitsFollowDependencies
    <3>2. \A j \in 1..(k - 1) : units'[j] = units[j]
      BY <1>5, <2>1
    <3> QED
      BY <3>1, <3>2 DEF Deps
  <2>2. CASE k = L + 1
    <3>1. Deps(m) \subseteq Consumed
      BY <1>3, <1>4, <1>5, <1>8, <2>2
    <3>2. Consumed = UNION {units'[j] : j \in 1..(k - 1)}
      <4>1. k - 1 = L
        BY <1>5, <2>2
      <4> QED
        BY <1>5, <4>1 DEF Consumed
    <3> QED
      BY <3>1, <3>2 DEF Deps
  <2> QED
    BY <1>5, <2>1, <2>2
<1> QED
  BY <1>1, <1>5, <1>7, <1>8 DEF UnitsInv, UnitsFollowDependencies, Deps

\* UnitsInv holds in every reachable state.
LEMMA UnitsInvariant == Spec => []UnitsInv
<1>1. Init => UnitsInv
  BY Z3 DEF Init, UnitsInv, UnitsFollowDependencies
<1>2. GInv /\ UnitsInv /\ [Next]_vars => UnitsInv'
  <2> SUFFICES ASSUME GInv, UnitsInv, [Next]_vars PROVE UnitsInv'
    OBVIOUS
  <2>1. CASE /\ UNCHANGED <<graph, units>>
             /\ phase' \in {"group", "compiled"} <=> phase \in {"group", "compiled"}
             /\ phase' = "compiled" => phase = "compiled"
    BY <2>1 DEF UnitsInv, UnitsFollowDependencies, Consumed, Deps
  <2>2. CASE EndOrder
    BY <2>2 DEF EndOrder, UnitsInv, UnitsFollowDependencies, Consumed, Deps
  <2>3. CASE EndGroup
    <3>1. Consumed = Nodes
      BY <2>3 DEF EndGroup, GInv, UnitsInv, Consumed
    <3> QED
      BY <2>3, <3>1
      DEF EndGroup, UnitsInv, UnitsFollowDependencies, Consumed, Deps
  <2>4. CASE \E n \in Nodes : Dequeue(n) \/ Pop(n)
    BY <2>1, <2>4 DEF Dequeue, Pop
  <2>5. CASE EndWalk \/ NextNode \/ CheckWrites
    BY <2>1, <2>5 DEF EndWalk, NextNode, CheckWrites, Reject, StartReach
  <2> QED
    BY <2>1, <2>2, <2>3, <2>4, <2>5, MakeUnitStep DEF Next, vars
<1> QED
  BY <1>1, <1>2, GraphCheckInvariant, PTL DEF Spec

\* compile_plan_units: each node is in one unit, after all that it depends on.
THEOREM UnitsAreOrdered == Spec => []UnitsFollowDependencies
<1>1. UnitsInv => UnitsFollowDependencies
  BY DEF UnitsInv
<1> QED
  BY <1>1, UnitsInvariant, PTL

-----------------------------------------------------------------------------
(***************************************************************************)
(* Depths.                                                                 *)
(***************************************************************************)

\* A node is one deeper than the deepest of its dependencies in S.
Deepest(m, S) ==
    /\ \A d \in Deps(m) \cap S : depth[d] < depth[m]
    /\ depth[m] = 1 \/ \E d \in Deps(m) \cap S : depth[m] = depth[d] + 1

DepthInv ==
    /\ depth \in [Nodes -> 1..N]
    /\ phase = "walk" =>
          \A m \in Nodes :
             /\ m \notin Seen => depth[m] <= Len(seen) + 1
             /\ Deepest(m, Seen)
    /\ phase \notin {"walk", "cyclic"} => \A m \in Nodes : Deepest(m, Nodes)

\* A node is taken: what depends on it has not been seen, and is deeper.
LEMMA DequeueDepth ==
    ASSUME GInv, DepthInv, NEW n \in Nodes, Dequeue(n), phase = "walk"
    PROVE  DepthInv'
<1>1. /\ WalkInv /\ Seen \subseteq Nodes /\ seen \in Seq(Nodes)
      /\ n \notin Seen /\ Deps(n) \subseteq Seen
      /\ graph' = graph /\ phase' = phase
      /\ seen' = Append(seen, n)
      /\ depth' = [m \in Nodes |->
                     IF n \in Deps(m) THEN Deeper(n, m) ELSE depth[m]]
  <2>1. WalkInv /\ seen \in Seq(Nodes)
    BY DEF GInv
  <2>2. Seen \subseteq Nodes
    BY <2>1 DEF Seen
  <2>3. n \in queue
    BY DEF Dequeue
  <2>4. n \notin Seen /\ Deps(n) \subseteq Seen
    BY <2>1, <2>3 DEF WalkInv
  <2> QED
    BY <2>1, <2>2, <2>4 DEF Dequeue
<1>2. /\ Seen' = Seen \cup {n}
      /\ Len(seen') = Len(seen) + 1 /\ Len(seen) \in Nat
  BY <1>1 DEF Seen
<1>3. \A m \in Nodes : n \in Deps(m) => m \notin Seen'
  BY <1>1, <1>2 DEF WalkInv
<1>4. \A d \in Seen' : depth'[d] = depth[d]
  BY <1>1, <1>2, <1>3
<1>5. /\ depth \in [Nodes -> 1..N] /\ N \in Nat
      /\ depth[n] \in 1..N /\ depth[n] <= Len(seen) + 1
  BY <1>1, GraphCheckAssumption DEF DepthInv, GraphCheckAssumption
<1>6. \A m \in Nodes : Deps(m)' = Deps(m)
  BY <1>1 DEF Deps
<1>7. Len(seen) + 1 <= N
  <2>1. (WalkInv /\ seen \in Seq(Nodes))'
    BY <1>1, WalkStep DEF GInv
  <2>2. Cardinality(Seen') = Len(seen') /\ Seen' \subseteq Nodes
    BY <1>1, <1>2, <2>1 DEF WalkInv
  <2>3. Cardinality(Seen') <= Cardinality(Nodes)
    BY <2>2, FiniteNodes, FS_Subset
  <2> QED
    BY <1>2, <2>2, <2>3, FiniteNodes
<1>8. ASSUME NEW m \in Nodes
      PROVE  /\ depth'[m] \in 1..N
             /\ m \notin Seen' => depth'[m] <= Len(seen') + 1
             /\ Deepest(m, Seen)'
  <2>1. /\ depth[m] \in 1..N
        /\ m \notin Seen => depth[m] <= Len(seen) + 1
        /\ \A d \in Deps(m) \cap Seen : depth[d] < depth[m]
        /\ depth[m] = 1 \/ \E d \in Deps(m) \cap Seen : depth[m] = depth[d] + 1
    BY <1>1, <1>5 DEF DepthInv, Deepest
  <2>2. CASE n \notin Deps(m)
    <3>1. depth'[m] = depth[m] /\ Deps(m) \cap Seen' = Deps(m) \cap Seen
      BY <1>1, <1>2, <2>2
    <3> QED
      BY <1>2, <1>4, <1>5, <1>6, <2>1, <3>1 DEF Deepest
  <2>3. CASE n \in Deps(m)
    <3>1. /\ depth'[m] = IF depth[n] + 1 > depth[m] THEN depth[n] + 1 ELSE depth[m]
          /\ m \notin Seen' /\ m \notin Seen
          /\ n \in Deps(m) \cap Seen'
      BY <1>1, <1>2, <1>3, <2>3 DEF Deeper
    <3>2. depth[m] <= Len(seen) + 1 /\ depth[m] \in 1..N
      BY <2>1, <3>1
    <3>3. depth[n] + 1 <= N
      <4>1. Seen' # Nodes
        BY <3>1
      <4>2. Len(seen) + 1 < N
        <5>1. (WalkInv /\ seen \in Seq(Nodes))'
          BY <1>1, WalkStep DEF GInv
        <5>2. Cardinality(Seen') = Len(seen') /\ Seen' \subseteq Nodes
          BY <1>1, <1>2, <5>1 DEF WalkInv
        <5>3. Cardinality(Seen') # Cardinality(Nodes)
          BY <4>1, <5>2, FiniteNodes, FS_Subset
        <5> QED
          BY <1>2, <1>7, <5>2, <5>3, FiniteNodes
      <4> QED
        BY <1>2, <1>5, <4>2
    <3>4. /\ depth'[m] \in 1..N
          /\ depth'[m] <= Len(seen') + 1
      BY <1>2, <1>5, <3>1, <3>2, <3>3
    <3>5. \A d \in Deps(m) \cap Seen' : depth'[d] < depth'[m]
      <4> SUFFICES ASSUME NEW d \in Deps(m) \cap Seen' PROVE depth'[d] < depth'[m]
        OBVIOUS
      <4>1. depth'[d] = depth[d] /\ depth[d] \in 1..N
        BY <1>1, <1>2, <1>4, <1>5
      <4>2. d = n \/ depth[d] < depth[m]
        BY <1>2, <2>1
      <4> QED
        BY <1>5, <3>1, <3>2, <4>1, <4>2
    <3>6. depth'[m] = 1 \/ \E d \in Deps(m) \cap Seen' : depth'[m] = depth'[d] + 1
      <4>1. CASE depth[n] + 1 > depth[m]
        BY <1>2, <1>4, <3>1, <4>1
      <4>2. CASE ~(depth[n] + 1 > depth[m])
        BY <1>2, <1>4, <2>1, <3>1, <4>2
      <4> QED
        BY <4>1, <4>2
    <3> QED
      BY <1>6, <3>4, <3>5, <3>6 DEF Deepest
  <2> QED
    BY <2>2, <2>3
<1>9. depth' \in [Nodes -> 1..N]
  BY <1>1, <1>8
<1> QED
  BY <1>1, <1>8, <1>9 DEF DepthInv

\* What a maximum is.
LEMMA MaxIs ==
    ASSUME NEW S \in SUBSET Int, NEW x \in S, \A y \in S : y <= x
    PROVE  Max(S) = x
<1>1. \A y \in S : x >= y
  OBVIOUS
<1>2. \A z \in S : (\A y \in S : z >= y) => z = x
  OBVIOUS
<1>3. Max(S) \in S /\ \A y \in S : Max(S) >= y
  BY <1>1, Zenon DEF Max
<1> QED
  BY <1>2, <1>3

\* DepthInv holds in every reachable state.
LEMMA DepthInvariant == Spec => []DepthInv
<1>1. Init => DepthInv
  <2> SUFFICES ASSUME Init PROVE DepthInv
    OBVIOUS
  <2>1. /\ depth = [m \in Nodes |-> 1] /\ 1 \in 1..N /\ N \in Nat
        /\ Seen = {} /\ Len(seen) = 0 /\ phase = "walk"
    BY GraphCheckAssumption DEF Init, Seen, GraphCheckAssumption
  <2> QED
    BY <2>1 DEF DepthInv, Deepest
<1>2. GInv /\ DepthInv /\ [Next]_vars => DepthInv'
  <2> SUFFICES ASSUME GInv, DepthInv, [Next]_vars PROVE DepthInv'
    OBVIOUS
  <2>1. ASSUME UNCHANGED <<graph, seen, depth>>
        PROVE  /\ \A m \in Nodes : Deepest(m, Seen)' = Deepest(m, Seen)
               /\ \A m \in Nodes : Deepest(m, Nodes)' = Deepest(m, Nodes)
               /\ Seen' = Seen
    BY <2>1 DEF Deepest, Deps, Seen
  <2>2. CASE /\ UNCHANGED <<graph, depth>>
             /\ phase \notin {"walk", "cyclic"} /\ phase' \notin {"walk", "cyclic"}
    <3>1. \A m \in Nodes : Deepest(m, Nodes)' = Deepest(m, Nodes)
      BY <2>2 DEF Deepest, Deps
    <3> QED
      BY <2>2, <3>1 DEF DepthInv
  <2>3. CASE EndWalk
    <3>1. /\ phase = "walk" /\ phase' # "walk" /\ queue = {}
          /\ UNCHANGED <<graph, seen, depth>>
          /\ Len(seen) # N => phase' = "cyclic"
      BY <2>3 DEF EndWalk, Reject, StartReach
    <3>2. CASE phase' = "cyclic"
      BY <3>1, <3>2 DEF DepthInv
    <3>3. CASE phase' # "cyclic"
      <4>1. Len(seen) = N /\ WalkInv /\ Seen \subseteq Nodes
        BY <3>1, <3>3 DEF GInv, Seen
      <4>2. Seen = Nodes
        BY <4>1, FiniteNodes, FS_Subset DEF WalkInv
      <4> QED
        BY <2>1, <3>1, <4>2 DEF DepthInv
    <3> QED
      BY <3>2, <3>3
  <2>4. CASE \E n \in Nodes : Dequeue(n)
    BY <2>2, <2>4, DequeueDepth DEF Dequeue
  <2>5. CASE UNCHANGED vars
    BY <2>1, <2>5 DEF vars, DepthInv
  <2>6. CASE \E n \in Nodes : Pop(n)
    BY <2>2, <2>6 DEF Pop
  <2>7. CASE NextNode \/ CheckWrites \/ EndOrder \/ MakeUnit \/ EndGroup
    BY <2>2, <2>7
    DEF NextNode, CheckWrites, Reject, EndOrder, MakeUnit, EndGroup
  <2> QED
    BY <2>3, <2>4, <2>5, <2>6, <2>7 DEF Next
<1> QED
  BY <1>1, <1>2, GraphCheckInvariant, PTL DEF Spec

\* _validate_acyclic_and_depth: the depth that is bounded is that of the
\* longest chain, in whatever order the nodes are taken.
THEOREM DepthsAreLongest == Spec => []DepthIsLongest
<1>1. GInv /\ DepthInv => DepthIsLongest
  <2> SUFFICES ASSUME GInv, DepthInv, phase \notin {"walk", "cyclic"},
                      NEW n \in Nodes
               PROVE  depth[n] = 1 + Max({0} \cup {depth[d] : d \in Deps(n)})
    BY DEF DepthIsLongest
  <2> DEFINE D == {0} \cup {depth[d] : d \in Deps(n)}
  <2>1. /\ Deps(n) \subseteq Nodes /\ Deps(n) \cap Nodes = Deps(n)
        /\ depth \in [Nodes -> 1..N] /\ N \in Nat /\ Deepest(n, Nodes)
    BY DepsAreNodes, GraphCheckAssumption DEF GInv, DepthInv, GraphCheckAssumption
  <2>2. D \in SUBSET Int
    BY <2>1
  <2>3. depth[n] - 1 \in D
    BY <2>1 DEF Deepest
  <2>4. \A y \in D : y <= depth[n] - 1
    BY <2>1 DEF Deepest
  <2>5. Max(D) = depth[n] - 1
    BY <2>2, <2>3, <2>4, MaxIs
  <2> QED
    BY <2>1, <2>5
<1> QED
  BY <1>1, GraphCheckInvariant, DepthInvariant, PTL

-----------------------------------------------------------------------------
(***************************************************************************)
(* Types.                                                                  *)
(***************************************************************************)

\* Counters and lists of a walk are within their bounds.
Bounded ==
    /\ indegree \in [Nodes -> 0..N]
    /\ queue \subseteq Nodes \ Seen
    /\ Len(seen) <= N
    /\ \A i, j \in DOMAIN seen : seen[i] = seen[j] => i = j

\* A walk keeps them there.
LEMMA WalkBounded ==
    IsGraph /\ seen \in Seq(Nodes) /\ WalkInv /\ Sorted => Bounded
<1> SUFFICES ASSUME IsGraph, seen \in Seq(Nodes), WalkInv, Sorted PROVE Bounded
  OBVIOUS
<1>1. \A S \in SUBSET Nodes : Cardinality(S) \in 0..N
  BY FiniteNodes, FS_Subset, GraphCheckAssumption DEF GraphCheckAssumption
<1>2. Seen \in SUBSET Nodes /\ \A m \in Nodes : Deps(m) \ Seen \in SUBSET Nodes
  BY DepsAreNodes DEF Seen
<1> QED
  BY <1>1, <1>2 DEF Bounded, WalkInv, Sorted

\* The same of the next state.
LEMMA WalkBoundedNext ==
    (IsGraph /\ seen \in Seq(Nodes) /\ WalkInv /\ Sorted => Bounded)'
BY WalkBounded, PTL

\* The rest of the types.
RestOK ==
    /\ max_depth \in MaxDepths
    /\ Bounded
    /\ stack \subseteq Nodes
    /\ result \subseteq Nodes

\* Type correctness of graphs of any size: counters never fall below zero, and
\* no node is taken twice.
THEOREM TypeCorrect == Spec => []TypeOK
<1>1. Init => RestOK
  <2> SUFFICES ASSUME Init PROVE RestOK
    OBVIOUS
  <2>1. GInv
    BY InitGInv
  <2>2. Bounded
    BY <2>1, WalkBounded DEF GInv, Init
  <2> QED
    BY <2>2 DEF Init, RestOK
<1>2. GInv /\ GInv' /\ RestOK /\ [Next]_vars => RestOK'
  <2> SUFFICES ASSUME GInv, GInv', RestOK, [Next]_vars PROVE RestOK'
    OBVIOUS
  <2>1. max_depth' = max_depth
    BY DEF Next, vars, Dequeue, Pop, EndWalk, NextNode, CheckWrites, EndOrder,
       MakeUnit, EndGroup, Reject, StartReach
  <2>2. \A n \in Nodes : Deps(n) \subseteq Nodes
    BY DepsAreNodes DEF GInv
  <2>3. ASSUME phase' \in {"walk", "order"} PROVE Bounded'
    BY <2>3, WalkBoundedNext DEF GInv
  <2>4. ASSUME UNCHANGED <<indegree, queue, seen>> PROVE Bounded'
    BY <2>4 DEF RestOK, Bounded, Seen
  <2>5. stack' \subseteq Nodes /\ result' \subseteq Nodes
    <3>1. CASE \E n \in Nodes : Pop(n)
      BY <2>2, <3>1 DEF Pop, RestOK
    <3>2. CASE EndWalk
      <4>1. 1 \in Nodes
        BY GraphCheckAssumption DEF Nodes, GraphCheckAssumption
      <4> QED
        BY <2>2, <3>2, <4>1 DEF EndWalk, Reject, StartReach, RestOK
    <3>3. CASE NextNode
      <4>1. node < N => node + 1 \in Nodes
        BY GraphCheckAssumption DEF GInv, Nodes, GraphCheckAssumption
      <4> QED
        BY <2>2, <3>3, <4>1 DEF NextNode, RestOK
    <3>4. CASE UNCHANGED <<stack, result>>
      BY <3>4 DEF RestOK
    <3> QED
      BY <3>1, <3>2, <3>3, <3>4
      DEF Next, vars, Dequeue, CheckWrites, Reject, EndOrder, MakeUnit, EndGroup
  <2>6. Bounded'
    <3>1. CASE \E n \in Nodes : Dequeue(n)
      BY <2>3, <3>1 DEF Dequeue
    <3>2. CASE CheckWrites
      BY <2>3, <2>4, <3>2 DEF CheckWrites, Reject
    <3>3. CASE UNCHANGED <<indegree, queue, seen>>
      BY <2>4, <3>3
    <3> QED
      BY <3>1, <3>2, <3>3
      DEF Next, vars, Pop, EndWalk, NextNode, EndOrder, MakeUnit, EndGroup,
          Reject, StartReach
  <2> QED
    BY <2>1, <2>5, <2>6 DEF RestOK
<1>3. GInv /\ DepthInv /\ UnitsInv /\ RestOK => TypeOK
  BY DEF GInv, IsGraph, DepthInv, UnitsInv, RestOK, Bounded, TypeOK, Phases
<1> QED
  BY <1>1, <1>2, <1>3, GraphCheckInvariant, DepthInvariant, UnitsInvariant, PTL
  DEF Spec

=============================================================================
