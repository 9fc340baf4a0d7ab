--------------------------- MODULE DispatchProofs ---------------------------
(***************************************************************************)
(* Theorems about Dispatch, for any plans, processes and bounds.           *)
(***************************************************************************)
EXTENDS Dispatch, TLAPS

\* A graph is a content that compiles, with a route for each of its units.
LEMMA GraphShape ==
    ASSUME NEW g \in Graphs
    PROVE  /\ g = [content |-> g.content, route |-> g.route]
           /\ g.content \in Compilable
           /\ g.content \in Contents
           /\ Accepted(g.content)
           /\ g.route \in [UnitsOf(g.content) -> RouteType]
           /\ UnitsOf(g.content) \subseteq Units
           /\ g # NoGraph
           /\ g # Torn
BY DispatchAssumption, NoGraphAssumption
   DEF Graphs, Compilable, UnitsOf, PlanType

\* What is put together from both is a graph.
LEMMA GraphMade ==
    ASSUME NEW c \in Compilable, NEW r \in [UnitsOf(c) -> RouteType]
    PROVE  [content |-> c, route |-> r] \in Graphs
BY DEF Graphs

\* _graph_from_plan makes a graph, with the plan's routes and no evidence.
LEMMA PlanGraph ==
    ASSUME NEW c \in Compilable
    PROVE  /\ GraphFromPlan(c) \in Graphs
           /\ GraphFromPlan(c).content = c
           /\ GraphFromPlan(c).route =
                [u \in UnitsOf(c) |-> [model |-> Plan[c].route[u], evidence |-> None]]
<1>1. c \in Contents
  BY DEF Compilable
<1>2. Plan[c].route \in [UnitsOf(c) -> Models]
  BY <1>1, DispatchAssumption DEF PlanType, UnitsOf
<1>3. [u \in UnitsOf(c) |-> [model |-> Plan[c].route[u], evidence |-> None]]
        \in [UnitsOf(c) -> RouteType]
  BY <1>2 DEF RouteType
<1>. QED
  BY <1>3, GraphMade DEF GraphFromPlan

\* `route set` makes a graph of the same content, with the same routes except
\* at its targets.
LEMMA SetGraph ==
    ASSUME NEW g \in Graphs, NEW s, NEW m \in Models, NEW e \in Evidences
    PROVE  /\ SetRoutes(g, s, m, e) \in Graphs
           /\ SetRoutes(g, s, m, e).content = g.content
           /\ DOMAIN SetRoutes(g, s, m, e).route = UnitsOf(g.content)
           /\ \A u \in UnitsOf(g.content) :
                 SetRoutes(g, s, m, e).route[u] =
                    IF u \in s THEN [model |-> m, evidence |-> e] ELSE g.route[u]
<1>. DEFINE r == [u \in UnitsOf(g.content) |->
                    IF u \in s THEN [model |-> m, evidence |-> e] ELSE g.route[u]]
<1>1. r \in [UnitsOf(g.content) -> RouteType]
  BY GraphShape DEF RouteType
<1>2. SetRoutes(g, s, m, e) = [content |-> g.content, route |-> r]
  BY GraphShape DEF SetRoutes
<1>3. [content |-> g.content, route |-> r] \in Graphs
  BY <1>1, GraphMade, GraphShape
<1>. QED
  BY <1>2, <1>3

-----------------------------------------------------------------------------
(***************************************************************************)
(* Types.                                                                  *)
(***************************************************************************)

\* Processes hold graphs, and rows and file have contents that compile; used
\* by every other theorem.
THEOREM TypeCorrect == Spec => []TypeOK
<1>1. Init => TypeOK
  BY DispatchAssumption DEF Init, TypeOK, Labels
<1>2. TypeOK /\ [Next]_vars => TypeOK'
  <2>. SUFFICES ASSUME TypeOK, [Next]_vars
                PROVE  TypeOK'
    OBVIOUS
  <2>. USE DEF TypeOK, Labels
  <2>1. ASSUME NEW p \in Procs, NEW c \in Contents, BeginCompile(p, c)
        PROVE  TypeOK'
    <3>1. GraphFromPlan(c) \in Graphs /\ GraphFromPlan(c) # NoGraph
      BY <2>1, PlanGraph, GraphShape DEF BeginCompile
    <3>. QED
      BY <2>1, <3>1, DispatchAssumption DEF BeginCompile, Begin, Goto
  <2>2. ASSUME NEW p \in Procs, StoreRows(p)
        PROVE  TypeOK'
    BY <2>2, GraphShape DEF StoreRows, Goto
  <2>3. ASSUME NEW p \in Procs, AppendCompiled(p)
        PROVE  TypeOK'
    BY <2>3, GraphShape DEF AppendCompiled, Goto
  <2>4. ASSUME NEW p \in Procs, ReplaceFile(p)
        PROVE  TypeOK'
    BY <2>4 DEF ReplaceFile, Forget, Goto
  <2>5. ASSUME NEW p \in Procs, NEW s \in SUBSET Units, NEW m \in Models,
               NEW e \in Evidences, BeginSet(p, s, m, e)
        PROVE  TypeOK'
    <3>1. file \in Graphs
      BY <2>5 DEF BeginSet, Readable
    <3>. DEFINE g == SetRoutes(file, SetTargets(file, s), m, e)
    <3>2. g \in Graphs
      BY ONLY <3>1, SetGraph, m \in Models, e \in Evidences
    <3>4. g # NoGraph
      BY <3>2, GraphShape
    <3>3. Begin(p, "open", g, s) /\ given' = given \cup {[model |-> m, evidence |-> e]}
      BY <2>5 DEF BeginSet
    <3>. HIDE DEF g
    <3>. QED
      BY <3>2, <3>3, <3>4, DispatchAssumption DEF Begin, Goto
  <2>6. ASSUME NEW p \in Procs, OpenFile(p)
        PROVE  TypeOK'
    BY <2>6 DEF OpenFile, Goto
  <2>7. ASSUME NEW p \in Procs, FillFile(p)
        PROVE  TypeOK'
    <3>1. held[p] \in Graphs
      BY <2>7 DEF FillFile
    <3>2. file' \in Graphs \cup {NoGraph, Torn}
      BY <2>7, <3>1 DEF FillFile
    <3>3. /\ grip' \in [Procs -> {"none", "own", "mixed", "gone"}]
          /\ \A q \in Procs : grip'[q] # "none" <=> q # p /\ grip[q] # "none"
      BY <2>7 DEF FillFile, Mixed
    <3>4. /\ pc' = [pc EXCEPT ![p] = "idle"]
          /\ held' = [held EXCEPT ![p] = NoGraph]
          /\ named' = [named EXCEPT ![p] = {}]
          /\ UNCHANGED <<rows, compiled, given, alone, clean, calls, stops>>
      BY <2>7 DEF FillFile, Forget, Goto
    <3>6. /\ pc' \in [Procs -> Labels]
          /\ held' \in [Procs -> Graphs \cup {NoGraph}]
          /\ named' \in [Procs -> SUBSET Units]
      BY <3>4
    <3>5. \A q \in Procs : /\ held'[q] = NoGraph <=> pc'[q] = "idle"
                          /\ grip'[q] # "none" <=> pc'[q] = "fill"
      BY <2>7, <3>3, <3>4 DEF FillFile
    <3>. QED
      BY <3>2, <3>3, <3>4, <3>5, <3>6
  <2>8. ASSUME NEW p \in Procs, Stop(p)
        PROVE  TypeOK'
    <3>1. /\ file' \in Graphs \cup {NoGraph, Torn}
          /\ pc' = [pc EXCEPT ![p] = "idle"]
          /\ held' = [held EXCEPT ![p] = NoGraph]
          /\ named' = [named EXCEPT ![p] = {}]
          /\ grip' = [grip EXCEPT ![p] = "none"]
          /\ clean' = FALSE
          /\ UNCHANGED <<rows, compiled, given, alone, calls>>
      BY <2>8 DEF Stop, Forget, Goto
    <3>2. stops' \in 0..MaxStops
      BY <2>8, DispatchAssumption DEF Stop
    <3>. QED
      BY <3>1, <3>2
  <2>9. CASE Emit
    BY <2>9 DEF Emit, memory
  <2>10. CASE UNCHANGED vars
    BY <2>10 DEF vars, memory
  <2>. QED
    BY <2>1, <2>2, <2>3, <2>4, <2>5, <2>6, <2>7, <2>8, <2>9, <2>10 DEF Next
<1>. QED
  BY <1>1, <1>2, PTL DEF Spec

-----------------------------------------------------------------------------
(***************************************************************************)
(* Evidence, and what is emitted.                                          *)
(***************************************************************************)

\* The routes of graph g are the plan's or among those in G.
Whole(g, G) == \A u \in DOMAIN g.route : Honest(g.content, u, g.route[u], G)

AllHonest ==
    /\ EvidenceOfItsModel
    /\ \A p \in Procs : held[p] \in Graphs => Whole(held[p], given)

\* What BundleOf makes of a graph with honest routes stands.
LEMMA BundleOfWhole ==
    ASSUME NEW g \in Graphs, NEW G, Whole(g, G)
    PROVE  Stands(BundleOf(g), G)
<1>. DEFINE c == g.content
            b == BundleOf(g)
            tasks == b.tasks
<1>1. /\ c \in Contents /\ Accepted(c) /\ PlanType(Plan[c])
      /\ UnitsOf(c) \subseteq Units
      /\ ManagersOf(c) \subseteq Managers
      /\ DOMAIN g.route = UnitsOf(c)
  BY GraphShape, DispatchAssumption DEF PlanType, ManagersOf, ManagerOf, UnitsOf
<1>2. Dispatchable(g) = UnitsOf(c)
  BY <1>1, DispatchAssumption DEF Dispatchable, Kind, NodesOf
<1>3. /\ tasks = [n \in UnitsOf(c) |-> Task(g, n)]
      /\ b.reviews = [m \in ManagersOf(c) |->
                              {n \in NodesOf(c) : ReviewOwner(c, n) = m}]
      /\ b.unrouted = {n \in UnitsOf(c) : g.route[n].model \in Placeholders}
  BY <1>2 DEF BundleOf, Unrouted
<1>4. ASSUME NEW u \in UnitsOf(c)
      PROVE  /\ tasks[u].depends_on \subseteq UnitsOf(c)
             /\ \A v \in UnitsOf(c) :
                   Plan[c].writes[v] \cap Plan[c].reads[u] # {} =>
                       v \in tasks[u].depends_on \cup {u}
             /\ tasks[u].review_owner \in DOMAIN b.reviews
             /\ u \in b.reviews[tasks[u].review_owner]
             /\ b.unrouted = {} =>
                   /\ tasks[u].model \notin Placeholders
                   /\ \E e \in Evidences \cup {None} :
                         Honest(c, u, [model |-> tasks[u].model,
                                       evidence |-> e], G)
  <2>1. /\ tasks[u].depends_on = Plan[c].depends[u] \ {"Director"}
        /\ tasks[u].review_owner = ManagerOf(c, u)
        /\ tasks[u].model = g.route[u].model
    BY <1>3 DEF Task, Needs, NodesOf, ReviewOwner
  <2>2. Plan[c].depends[u] \subseteq UnitsOf(c)
    BY <1>1 DEF Accepted
  <2>3. "Director" \notin UnitsOf(c)
    BY <1>1, DispatchAssumption
  <2>4. ASSUME NEW v \in UnitsOf(c), Plan[c].writes[v] \cap Plan[c].reads[u] # {}
        PROVE  v \in Plan[c].depends[u] \cup {u}
    <3>1. PICK a \in Plan[c].reads[u] : a \in Plan[c].writes[v]
      BY <2>4
    <3>2. v \in Producers(c, a)
      BY <3>1 DEF Producers
    <3>3. Producers(c, a) \subseteq Plan[c].depends[u] \cup {u}
      BY <1>1, <3>1 DEF Accepted, ArtifactsFit
    <3>. QED
      BY <3>2, <3>3
  <2>5. /\ ManagerOf(c, u) \in ManagersOf(c)
        /\ u \in NodesOf(c)
        /\ ReviewOwner(c, u) = ManagerOf(c, u)
    BY DEF ManagersOf, NodesOf, ReviewOwner
  <2>6. /\ tasks[u].review_owner \in DOMAIN b.reviews
        /\ u \in b.reviews[tasks[u].review_owner]
    BY <1>3, <2>1, <2>5
  <2>7. \E e \in Evidences \cup {None} :
           Honest(c, u, [model |-> tasks[u].model, evidence |-> e], G)
    <3>1. g.route[u] \in RouteType
      BY <1>1, GraphShape
    <3>2. /\ g.route[u] = [model |-> g.route[u].model, evidence |-> g.route[u].evidence]
          /\ g.route[u].evidence \in Evidences \cup {None}
      BY <3>1 DEF RouteType
    <3>. QED
      BY <1>1, <2>1, <3>2 DEF Whole
  <2>. QED
    BY <1>3, <2>1, <2>2, <2>3, <2>4, <2>6, <2>7
<1>5. DOMAIN tasks = UnitsOf(c)
  BY <1>3
<1>. QED
  BY <1>1, <1>4, <1>5 DEF Stands

\* Routes keep their evidence, and bundles stand: both because every graph in
\* a file or in memory has honest routes.
LEMMA HonestStep ==
    ASSUME TypeOK, AllHonest, BundleStands, [Next]_vars
    PROVE  AllHonest' /\ BundleStands'
<1>. DEFINE KeptBundle == bundle' = bundle /\ given \subseteq given'
<1>1. ASSUME KeptBundle
      PROVE  BundleStands'
  BY <1>1 DEF BundleStands, Stands, Honest
<1>2. given \subseteq given' =>
        /\ Whole(file, given) => Whole(file, given')
        /\ \A q \in Procs : Whole(held[q], given) => Whole(held[q], given')
  BY DEF Whole, Honest
<1>3. ASSUME NEW g \in Graphs
      PROVE  DOMAIN g.route = UnitsOf(g.content)
  BY GraphShape
<1>4. file \in Graphs => Whole(file, given)
  BY GraphShape DEF AllHonest, EvidenceOfItsModel, Readable, Whole, Honest
<1>5. \A p \in Procs : pc[p] # "idle" => held[p] \in Graphs /\ Whole(held[p], given)
  BY DEF TypeOK, AllHonest
<1>6. ASSUME file' \in Graphs => Whole(file', given'), file' \in Graphs \cup {NoGraph, Torn},
             \A p \in Procs : held'[p] \in Graphs => Whole(held'[p], given')
      PROVE  AllHonest'
  BY <1>6 DEF AllHonest, EvidenceOfItsModel, Readable, Whole, Honest
<1>7. NoGraph \notin Graphs /\ Torn \notin Graphs
  BY NoGraphAssumption
<1>8. ASSUME NEW p \in Procs, NEW c \in Contents, BeginCompile(p, c)
      PROVE  AllHonest' /\ BundleStands'
  <2>. DEFINE g == GraphFromPlan(c)
  <2>1. /\ given' = given /\ file' = file /\ bundle' = bundle
        /\ held' = [held EXCEPT ![p] = g]
    BY <1>8 DEF BeginCompile, Begin
  <2>4. c \in Compilable
    BY <1>8 DEF BeginCompile
  <2>5. /\ g.content = c
        /\ g.route = [u \in UnitsOf(c) |->
                       [model |-> Plan[c].route[u], evidence |-> None]]
    BY <2>4, PlanGraph
  <2>2. Whole(g, given')
    BY <2>5 DEF Whole, Honest
  <2>. HIDE DEF g
  <2>3. \A q \in Procs : held'[q] \in Graphs => Whole(held'[q], given')
    BY <1>2, <1>5, <1>7, <2>1, <2>2 DEF TypeOK
  <2>. QED
    BY <1>1, <1>2, <1>4, <1>6, <2>1, <2>3 DEF TypeOK
<1>9. ASSUME NEW p \in Procs, NEW s \in SUBSET Units, NEW m \in Models,
             NEW e \in Evidences, BeginSet(p, s, m, e)
      PROVE  AllHonest' /\ BundleStands'
  <2>. DEFINE t == SetTargets(file, s)
              g == SetRoutes(file, t, m, e)
  <2>1. /\ given' = given \cup {[model |-> m, evidence |-> e]}
        /\ file' = file /\ bundle' = bundle
        /\ held' = [held EXCEPT ![p] = g]
        /\ file \in Graphs
    BY <1>9 DEF BeginSet, Begin, Readable, TypeOK
  <2>2. /\ g.content = file.content
        /\ DOMAIN g.route = UnitsOf(file.content)
        /\ \A u \in UnitsOf(file.content) :
              g.route[u] = IF u \in t THEN [model |-> m, evidence |-> e]
                                      ELSE file.route[u]
    BY ONLY <2>1, SetGraph, m \in Models, e \in Evidences
  <2>3. Whole(file, given) /\ DOMAIN file.route = UnitsOf(file.content)
    BY <1>3, <1>4, <2>1
  <2>. HIDE DEF g, t
  <2>4. Whole(g, given')
    BY <2>1, <2>2, <2>3 DEF Whole, Honest
  <2>5. \A q \in Procs : held'[q] \in Graphs => Whole(held'[q], given')
    BY <1>2, <1>5, <1>7, <2>1, <2>4 DEF TypeOK
  <2>. QED
    BY <1>1, <1>2, <1>4, <1>6, <2>1, <2>5 DEF TypeOK
<1>10. ASSUME NEW p \in Procs, StoreRows(p) \/ AppendCompiled(p) \/ OpenFile(p)
       PROVE  AllHonest' /\ BundleStands'
  <2>1. /\ given' = given /\ bundle' = bundle /\ held' = held
        /\ file' = file \/ file' = Torn
    BY <1>10 DEF StoreRows, AppendCompiled, OpenFile
  <2>. QED
    BY <1>1, <1>2, <1>4, <1>5, <1>6, <1>7, <2>1 DEF TypeOK
<1>11. ASSUME NEW p \in Procs, ReplaceFile(p) \/ FillFile(p) \/ Stop(p)
       PROVE  AllHonest' /\ BundleStands'
  <2>1. /\ given' = given /\ bundle' = bundle
        /\ held' = [held EXCEPT ![p] = NoGraph]
        /\ file' = file \/ file' = Torn \/ file' = held[p]
        /\ pc[p] # "idle"
    BY <1>11 DEF ReplaceFile, FillFile, Stop, Forget
  <2>2. \A q \in Procs : held'[q] \in Graphs => Whole(held'[q], given')
    BY <1>2, <1>5, <1>7, <2>1 DEF TypeOK
  <2>. QED
    BY <1>1, <1>2, <1>4, <1>5, <1>6, <1>7, <2>1, <2>2 DEF TypeOK
<1>12. CASE Emit
  <2>1. /\ given' = given /\ held' = held /\ file' = file
        /\ file \in Graphs /\ bundle' = BundleOf(file)
    BY <1>12 DEF Emit, memory, Readable, TypeOK
  <2>2. AllHonest'
    BY <2>1 DEF AllHonest, EvidenceOfItsModel, Readable, Whole, Honest
  <2>3. Stands(BundleOf(file), given)
    BY <1>4, <2>1, BundleOfWhole
  <2>4. BundleStands'
    BY <2>1, <2>3 DEF BundleStands
  <2>. QED
    BY <2>2, <2>4
<1>13. CASE UNCHANGED vars
  <2>1. given' = given /\ held' = held /\ file' = file /\ bundle' = bundle
    BY <1>13 DEF vars, memory
  <2>. QED
    BY <2>1 DEF AllHonest, EvidenceOfItsModel, Readable, Whole, Honest, BundleStands
<1>. QED
  BY <1>8, <1>9, <1>10, <1>11, <1>12, <1>13 DEF Next

\* A route and the evidence beside it always come from one command.
THEOREM EvidenceKept == Spec => []EvidenceOfItsModel
<1>1. Init => AllHonest /\ BundleStands
  BY NoGraphAssumption
     DEF Init, AllHonest, EvidenceOfItsModel, Readable, BundleStands
<1>2. TypeOK /\ AllHonest /\ BundleStands /\ [Next]_vars
        => AllHonest' /\ BundleStands'
  BY HonestStep
<1>3. AllHonest => EvidenceOfItsModel
  BY DEF AllHonest
<1>. QED
  BY <1>1, <1>2, <1>3, TypeCorrect, PTL DEF Spec

\* Whatever is emitted is closed under dependencies, artifacts and reviews, and
\* routed as it says.
THEOREM BundlesStand == Spec => []BundleStands
<1>1. Init => AllHonest /\ BundleStands
  BY NoGraphAssumption
     DEF Init, AllHonest, EvidenceOfItsModel, Readable, BundleStands
<1>2. TypeOK /\ AllHonest /\ BundleStands /\ [Next]_vars
        => AllHonest' /\ BundleStands'
  BY HonestStep
<1>. QED
  BY <1>1, <1>2, TypeCorrect, PTL DEF Spec

-----------------------------------------------------------------------------
(***************************************************************************)
(* Commands that run alone.                                                *)
(***************************************************************************)

\* The file is a graph of the content that rows and ledger have.
InStep == Readable /\ rows = file.content /\ rows \in compiled

\* A command that runs alone has no other beside it, nor has any while the
\* history is clean.
Separate ==
    /\ \A p, q \in Procs :
          alone[p] /\ pc[p] # "idle" /\ pc[q] # "idle" => p = q
    /\ \A p, q \in Procs : clean /\ pc[p] # "idle" /\ pc[q] # "idle" => p = q

\* What a compile that runs alone has done already.
CompileHasDone ==
    /\ \A p \in Procs : alone[p] /\ pc[p] \in {"append", "replace"} =>
                          rows = held[p].content
    /\ \A p \in Procs : pc[p] = "replace" => held[p].content \in compiled

\* What a `route set` of a clean history can rely on: before it opens the file,
\* and while it is the only one to have it open.
SetRests ==
    /\ \A p \in Procs : clean /\ pc[p] = "open" => InStep
    /\ \A p \in Procs : clean /\ pc[p] = "fill" =>
          /\ grip[p] = "own"
          /\ rows = held[p].content
          /\ rows \in compiled

DInv == Separate /\ CompileHasDone /\ SetRests /\ CompileHeals /\ NothingElseSet

\* No step of a command breaks it.
LEMMA DInvStep ==
    ASSUME TypeOK, DInv, [Next]_vars
    PROVE  DInv'
<1>. USE DEF DInv
<1>1. ASSUME NEW p \in Procs, NEW label, NEW g, NEW s, label # "idle",
             Begin(p, label, g, s)
      PROVE  /\ Separate'
             /\ \A q \in Procs : q # p => pc'[q] = pc[q] /\ held'[q] = held[q]
             /\ pc'[p] = label /\ held'[p] = g /\ named'[p] = s
             /\ ~AtRest'
             /\ clean' => clean /\ AtRest
             /\ \A q \in Procs : alone'[q] => q = p
             /\ file' = file /\ rows' = rows /\ compiled' = compiled /\ grip' = grip
  BY <1>1 DEF Begin, Goto, AtRest, TypeOK, Separate
<1>2. ASSUME NEW p \in Procs, NEW c \in Contents, BeginCompile(p, c)
      PROVE  DInv'
  <2>1. Begin(p, "store", GraphFromPlan(c), {})
    BY <1>2 DEF BeginCompile
  <2>. QED
    BY <1>1, <2>1
       DEF AtRest, CompileHasDone, SetRests, CompileHeals, NothingElseSet, TypeOK
<1>3. ASSUME NEW p \in Procs, NEW s \in SUBSET Units, NEW m \in Models,
             NEW e \in Evidences, BeginSet(p, s, m, e)
      PROVE  DInv'
  <2>. DEFINE t == SetTargets(file, s)
              g == SetRoutes(file, t, m, e)
  <2>1. Begin(p, "open", g, s) /\ file \in Graphs /\ Readable
    BY <1>3 DEF BeginSet, Readable, TypeOK
  <2>8. file \in Graphs
    BY <2>1
  <2>2. /\ g.content = file.content
        /\ \A u \in UnitsOf(file.content) :
              g.route[u] = IF u \in t THEN [model |-> m, evidence |-> e]
                                      ELSE file.route[u]
    BY ONLY <2>8, SetGraph, m \in Models, e \in Evidences
  <2>7. DOMAIN file.route = UnitsOf(file.content)
    BY <2>1, GraphShape
  <2>3. \A u \in t :
          u \in s \/ (s = {} /\ file.route[u].model \in Placeholders)
    BY DEF SetTargets, Unrouted
  <2>. HIDE DEF g, t
  <2>4. Separate' /\ CompileHasDone' /\ CompileHeals'
    BY <1>1, <2>1 DEF AtRest, CompileHasDone, CompileHeals, TypeOK
  <2>5. clean' => InStep /\ InStep'
    BY <1>1, <2>1 DEF CompileHeals, InStep, Readable
  <2>6. SetRests' /\ NothingElseSet'
    BY <1>1, <2>1, <2>2, <2>3, <2>5, <2>7
       DEF AtRest, SetRests, NothingElseSet, InStep, Readable
  <2>. QED
    BY <2>4, <2>6
<1>4. ASSUME NEW p \in Procs, StoreRows(p)
      PROVE  DInv'
  BY <1>4 DEF StoreRows, Goto, AtRest, Separate, CompileHasDone, SetRests,
              CompileHeals, NothingElseSet, InStep, Readable, TypeOK
<1>5. ASSUME NEW p \in Procs, AppendCompiled(p)
      PROVE  DInv'
  BY <1>5 DEF AppendCompiled, Goto, AtRest, Separate, CompileHasDone, SetRests,
              CompileHeals, NothingElseSet, InStep, Readable, TypeOK
<1>6. ASSUME NEW p \in Procs, ReplaceFile(p)
      PROVE  DInv'
  <2>1. /\ held[p] \in Graphs /\ held[p] # NoGraph /\ held[p] # Torn
        /\ file' = held[p]
        /\ clean' = alone[p]
        /\ pc[p] = "replace" /\ pc' = [pc EXCEPT ![p] = "idle"]
        /\ held' = [held EXCEPT ![p] = NoGraph]
        /\ UNCHANGED <<rows, compiled, alone>>
    BY <1>6, GraphShape DEF ReplaceFile, Forget, Goto, TypeOK
  <2>2. clean' => \A q \in Procs : pc'[q] = "idle"
    BY <2>1 DEF Separate, TypeOK
  <2>3. clean' => InStep'
    BY <2>1 DEF CompileHasDone, InStep, Readable
  <2>4. Separate' /\ CompileHasDone'
    BY <2>1, <2>2 DEF Separate, CompileHasDone, TypeOK
  <2>. QED
    BY <2>2, <2>3, <2>4 DEF SetRests, CompileHeals, NothingElseSet, InStep
<1>7. ASSUME NEW p \in Procs, OpenFile(p)
      PROVE  DInv'
  <2>1. /\ pc[p] = "open" /\ pc' = [pc EXCEPT ![p] = "fill"]
        /\ grip' = [grip EXCEPT ![p] = "own"]
        /\ UNCHANGED <<rows, compiled, held, named, alone, clean>>
    BY <1>7 DEF OpenFile, Goto
  <2>2. Separate' /\ CompileHasDone' /\ ~AtRest'
    BY <2>1 DEF Separate, CompileHasDone, AtRest, TypeOK
  <2>3. clean => \A q \in Procs : q # p => pc'[q] = "idle"
    BY <2>1 DEF Separate, TypeOK
  <2>4. clean => rows = held[p].content /\ rows \in compiled
    BY <2>1 DEF SetRests, NothingElseSet, InStep
  <2>. QED
    BY <2>1, <2>2, <2>3, <2>4 DEF SetRests, CompileHeals, NothingElseSet, TypeOK
<1>8. ASSUME NEW p \in Procs, FillFile(p)
      PROVE  DInv'
  <2>1. /\ held[p] \in Graphs /\ held[p] # NoGraph /\ held[p] # Torn
        /\ pc[p] = "fill" /\ pc' = [pc EXCEPT ![p] = "idle"]
        /\ held' = [held EXCEPT ![p] = NoGraph]
        /\ grip[p] = "own" => file' = held[p]
        /\ UNCHANGED <<rows, compiled, alone, clean>>
    BY <1>8, GraphShape DEF FillFile, Forget, Goto, TypeOK
  <2>2. Separate' /\ CompileHasDone'
    BY <2>1 DEF Separate, CompileHasDone, TypeOK
  <2>3. clean => \A q \in Procs : pc'[q] = "idle"
    BY <2>1 DEF Separate, TypeOK
  <2>4. clean => InStep'
    BY <2>1 DEF SetRests, InStep, Readable
  <2>. QED
    BY <2>1, <2>2, <2>3, <2>4 DEF SetRests, CompileHeals, NothingElseSet, InStep
<1>9. ASSUME NEW p \in Procs, Stop(p)
      PROVE  DInv'
  <2>1. /\ pc' = [pc EXCEPT ![p] = "idle"]
        /\ held' = [held EXCEPT ![p] = NoGraph]
        /\ clean' = FALSE
        /\ UNCHANGED <<rows, compiled, alone>>
    BY <1>9 DEF Stop, Forget, Goto
  <2>. QED
    BY <2>1 DEF Separate, CompileHasDone, SetRests, CompileHeals,
                NothingElseSet, TypeOK
<1>10. CASE Emit
  BY <1>10 DEF Emit, memory, AtRest, Separate, CompileHasDone, SetRests,
               CompileHeals, NothingElseSet, InStep, Readable
<1>11. CASE UNCHANGED vars
  BY <1>11 DEF vars, memory, AtRest, Separate, CompileHasDone, SetRests,
               CompileHeals, NothingElseSet, InStep, Readable
<1>. QED
  BY <1>2, <1>3, <1>4, <1>5, <1>6, <1>7, <1>8, <1>9, <1>10, <1>11 DEF Next

\* It holds at first, and always.
LEMMA DInvAlways == Spec => []DInv
<1>1. Init => DInv
  BY DEF Init, DInv, AtRest, Separate, CompileHasDone, SetRests, CompileHeals,
         NothingElseSet
<1>2. TypeOK /\ DInv /\ [Next]_vars => DInv'
  BY DInvStep
<1>. QED
  BY <1>1, <1>2, TypeCorrect, PTL DEF Spec

\* A compile that runs alone brings file, rows and ledger into step.
THEOREM CompileHealsAlways == Spec => []CompileHeals
<1>1. DInv => CompileHeals
  BY DEF DInv
<1>. QED
  BY <1>1, DInvAlways, PTL

\* A `route set` that runs alone changes nothing it was not asked to.
THEOREM NothingElseSetAlways == Spec => []NothingElseSet
<1>1. DInv => NothingElseSet
  BY DEF DInv
<1>. QED
  BY <1>1, DInvAlways, PTL

=============================================================================
