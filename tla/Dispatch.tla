------------------------------ MODULE Dispatch ------------------------------
(***************************************************************************)
(* From a plan to what is handed to the harness: `graph compile --output`, *)
(* `route set` and `jcode emit` of src/graph_coder/cli.py, with the graph  *)
(* file they share, _graph_from_plan, and the bundle of adapters/jcode.py. *)
(*                                                                         *)
(* Nothing locks the file.  compile writes it under another name and       *)
(* renames it; route set reads it, and writes it back in place, so that a  *)
(* reader may find it empty or cut short, and two writers may mix.         *)
(* append_event is one step (module Ledger).                               *)
(***************************************************************************)
EXTENDS Naturals, FiniteSets

CONSTANTS
    Procs,          \* processes of the command line tool
    Contents,       \* contents the file of the plan has, under one version
    Plan,           \* what each content parses to
    Units,          \* ids of units
    Managers,       \* ids of managers; "M-DEFAULT" is one
    Models,         \* what a route may name
    Placeholders,   \* PLACEHOLDER_ROUTES, and no model at all
    Evidences,      \* what `route set --evidence` may say
    None,           \* no manager named, no evidence recorded
    NoGraph,        \* no file; no graph in memory; no rows; nothing emitted
    Torn,           \* a file that is no JSON
    MaxCalls,       \* bound: commands run
    MaxStops        \* bound: processes stopped in the middle

\* A parsed plan.  reads and writes are artifacts, clashes the pairs of units
\* with overlapping write scopes, workers is release_gate.max_active_workers,
\* portable says that capability_profile names what the adapter knows.
PlanType(p) ==
    /\ p.units \subseteq Units
    /\ p.depends \in [p.units -> SUBSET Units]
    /\ p.manager \in [p.units -> Managers \cup {None}]
    /\ p.route \in [p.units -> Models]
    /\ DOMAIN p.reads = p.units
    /\ DOMAIN p.writes = p.units
    /\ p.clashes \subseteq p.units \X p.units
    /\ p.workers \in Nat \ {0}
    /\ p.portable \in BOOLEAN

ASSUME DispatchAssumption ==
    /\ MaxCalls \in Nat
    /\ MaxStops \in Nat
    /\ "M-DEFAULT" \in Managers
    /\ "Director" \notin Managers \cup Units
    /\ Managers \cap Units = {}
    /\ None \notin Managers \cup Evidences
    /\ NoGraph # Torn
    /\ NoGraph \notin Contents
    /\ \A c \in Contents : PlanType(Plan[c])

VARIABLES
    file,       \* the file that --output of compile and --graph name
    rows,       \* the content the rows of graph_nodes were compiled from
    compiled,   \* contents with an event graph.compiled in the ledger
    bundle,     \* what `jcode emit` answered last
    pc,         \* where in its command a process is
    held,       \* the graph a process has in memory
    named,      \* the nodes its `route set` was given; {} for all open ones
    grip,       \* what became of the file since a process opened it
    given,      \* history: the model and evidence of each `route set`
    alone,      \* history: no other command ran beside that of a process
    clean,      \* history: since the last compile that ran alone, every
                \* command ran alone and to its end
    calls,      \* commands run so far
    stops       \* processes stopped so far

memory == <<pc, held, named, grip>>
vars == <<file, rows, compiled, bundle, memory, given, alone, clean, calls,
          stops>>

-----------------------------------------------------------------------------
(***************************************************************************)
(* _graph_from_plan: the Director, a manager for each that is named, and   *)
(* the units.                                                              *)
(***************************************************************************)

UnitsOf(c) == Plan[c].units

ManagerOf(c, u) ==
    IF Plan[c].manager[u] = None THEN "M-DEFAULT" ELSE Plan[c].manager[u]

ManagersOf(c) == {ManagerOf(c, u) : u \in UnitsOf(c)}

Branch(c, m) == {u \in UnitsOf(c) : ManagerOf(c, u) = m}

NodesOf(c) == {"Director"} \cup ManagersOf(c) \cup UnitsOf(c)

\* node.kind: one INTEGRATE, one MANAGE each, one IMPLEMENT each
Kind(c, n) ==
    IF n = "Director" THEN "integrate"
    ELSE IF n \in ManagersOf(c) THEN "manage" ELSE "implement"

Needs(c) ==
    [n \in NodesOf(c) |-> IF n \in UnitsOf(c) THEN Plan[c].depends[n] ELSE {}]

ReviewOwner(c, n) ==
    IF n \in UnitsOf(c) THEN ManagerOf(c, n)
    ELSE IF n = "Director" THEN None ELSE "Director"

\* Units that write artifact a.
Producers(c, a) == {u \in UnitsOf(c) : a \in Plan[c].writes[u]}

Graph(c) == INSTANCE DelegationGraph WITH
    Nodes <- NodesOf(c), Atomic <- UnitsOf(c), DependsOn <- Needs(c),
    Overlap <- Plan[c].clashes

\* _validate_artifacts; an artifact nobody writes is compiled as external.
ArtifactsFit(c) ==
    \A u \in UnitsOf(c) :
        /\ \A a \in Plan[c].writes[u] : Producers(c, a) = {u}
        /\ \A a \in Plan[c].reads[u] :
              Producers(c, a) \subseteq Plan[c].depends[u] \cup {u}

\* len(node.children) is at most max_fanout, which is max_active_workers.
FanoutFits(c) ==
    /\ Cardinality(ManagersOf(c)) <= Plan[c].workers
    /\ \A m \in ManagersOf(c) : Cardinality(Branch(c, m)) <= Plan[c].workers

\* The plan compiles and the graph passes validate(); depth and the number of
\* nodes are in GraphCheck.
Accepted(c) ==
    /\ \A u \in UnitsOf(c) : Plan[c].depends[u] \subseteq UnitsOf(c)
    /\ FanoutFits(c)
    /\ ArtifactsFit(c)
    /\ Graph(c)!Acyclic
    /\ Graph(c)!WriteSafe

Compilable == {c \in Contents : Accepted(c)}

\* Of a graph, only the routes differ from what its content says.  No other
\* command sets spawn_mode, and a fallback is not followed here.
GraphFromPlan(c) ==
    [content |-> c,
     route |-> [u \in UnitsOf(c) |->
                  [model |-> Plan[c].route[u], evidence |-> None]]]

RouteType == [model : Models, evidence : Evidences \cup {None}]

Graphs ==
    UNION {[content : {c}, route : [UnitsOf(c) -> RouteType]] : c \in Compilable}

ASSUME NoGraphAssumption == NoGraph \notin Graphs /\ Torn \notin Graphs

-----------------------------------------------------------------------------
(***************************************************************************)
(* The adapter.                                                            *)
(***************************************************************************)

\* JCodeAdapter.dispatchable
Dispatchable(g) ==
    {n \in NodesOf(g.content) :
        n # "Director" /\ Kind(g.content, n) # "manage"}

\* JCodeAdapter.preflight
Unrouted(g) ==
    {n \in Dispatchable(g) : g.route[n].model \in Placeholders}

\* Mutant: a dependency is taken for one on the root when it has none itself.
TaskDetached(g, n) ==
    [model |-> g.route[n].model,
     depends_on |-> {d \in Needs(g.content)[n] :
                        Needs(g.content)[d] # {}},
     review_owner |-> ReviewOwner(g.content, n)]

\* _node_to_task; the evidence of a route stays in the file.
Task(g, n) ==
    [model |-> g.route[n].model,
     depends_on |-> Needs(g.content)[n] \ {"Director"},
     review_owner |-> ReviewOwner(g.content, n)]

\* task_graph_bundle and the preflight beside it.
BundleOf(g) ==
    [tasks |-> [n \in Dispatchable(g) |-> Task(g, n)],
     reviews |-> [m \in ManagersOf(g.content) |->
                    {n \in NodesOf(g.content) : ReviewOwner(g.content, n) = m}],
     unrouted |-> Unrouted(g)]

-----------------------------------------------------------------------------

Init ==
    /\ file = NoGraph
    /\ rows = NoGraph
    /\ compiled = {}
    /\ bundle = NoGraph
    /\ pc = [p \in Procs |-> "idle"]
    /\ held = [p \in Procs |-> NoGraph]
    /\ named = [p \in Procs |-> {}]
    /\ grip = [p \in Procs |-> "none"]
    /\ given = {}
    /\ alone = [p \in Procs |-> FALSE]
    /\ clean = TRUE
    /\ calls = 0
    /\ stops = 0

AtRest == \A p \in Procs : pc[p] = "idle"

Readable == file \notin {NoGraph, Torn}

Goto(p, label) == pc' = [pc EXCEPT ![p] = label]

\* A command of process p begins: with graph g in memory, and s named.
Begin(p, label, g, s) ==
    /\ pc[p] = "idle"
    /\ calls < MaxCalls
    /\ calls' = calls + 1
    /\ Goto(p, label)
    /\ held' = [held EXCEPT ![p] = g]
    /\ named' = [named EXCEPT ![p] = s]
    /\ alone' = [q \in Procs |-> q = p /\ AtRest]
    /\ clean' = (clean /\ AtRest)
    /\ UNCHANGED <<file, rows, compiled, bundle, grip, stops>>

\* Process p forgets its command.
Forget(p) ==
    /\ Goto(p, "idle")
    /\ held' = [held EXCEPT ![p] = NoGraph]
    /\ named' = [named EXCEPT ![p] = {}]

-----------------------------------------------------------------------------
(***************************************************************************)
(* graph compile                                                           *)
(***************************************************************************)

\* Read the plan, whatever it says at that moment.
BeginCompile(p, c) ==
    /\ c \in Compilable
    /\ Begin(p, "store", GraphFromPlan(c), {})
    /\ UNCHANGED given

\* Mutant: what was compiled once is not stored again.
StoreNewRows(p) ==
    /\ pc[p] = "store"
    /\ rows' = IF held[p].content \in compiled THEN rows ELSE held[p].content
    /\ Goto(p, "append")
    /\ UNCHANGED <<file, compiled, bundle, held, named, grip, given, alone,
                   clean, calls, stops>>

\* The rows of the graph, which has one id for all contents of a version, are
\* deleted and inserted in one transaction.
StoreRows(p) ==
    /\ pc[p] = "store"
    /\ rows' = held[p].content
    /\ Goto(p, "append")
    /\ UNCHANGED <<file, compiled, bundle, held, named, grip, given, alone,
                   clean, calls, stops>>

\* append_event with the key graph-compile:{graph_id}:{content_hash}.
AppendCompiled(p) ==
    /\ pc[p] = "append"
    /\ compiled' = compiled \cup {held[p].content}
    /\ Goto(p, "replace")
    /\ UNCHANGED <<file, rows, bundle, held, named, grip, given, alone, clean,
                   calls, stops>>

\* _write_json: os.replace; whoever has the old file open writes to nobody.
ReplaceFile(p) ==
    /\ pc[p] = "replace"
    /\ file' = held[p]
    /\ Forget(p)
    /\ grip' = [q \in Procs |-> IF grip[q] = "none" THEN "none" ELSE "gone"]
    /\ clean' = alone[p]
    /\ UNCHANGED <<rows, compiled, bundle, given, alone, calls, stops>>

-----------------------------------------------------------------------------
(***************************************************************************)
(* route set                                                               *)
(***************************************************************************)

\* Mutant: without --node all workers are set.
AllTargets(g, s) == IF s = {} THEN Dispatchable(g) ELSE s

\* Without --node, every worker that has no route yet.
SetTargets(g, s) == IF s = {} THEN Unrouted(g) ELSE s

\* Mutant: evidence that is there stays.
SetFirstEvidence(g, s, m, e) ==
    [g EXCEPT !.route = [u \in DOMAIN @ |->
        IF u \in s
          THEN [model |-> m,
                evidence |-> IF @[u].evidence = None THEN e ELSE @[u].evidence]
          ELSE @[u]]]

SetRoutes(g, s, m, e) ==
    [g EXCEPT !.route = [u \in DOMAIN @ |->
        IF u \in s THEN [model |-> m, evidence |-> e] ELSE @[u]]]

\* Read the file and change the graph in memory; nodes it does not have, and a
\* set without targets, are errors.  The Director and managers may be named and
\* their routes are used by nobody.
BeginSet(p, s, m, e) ==
    /\ Readable
    /\ s \subseteq UnitsOf(file.content)
    /\ SetTargets(file, s) # {}
    /\ Begin(p, "open", SetRoutes(file, SetTargets(file, s), m, e), s)
    /\ given' = given \cup {[model |-> m, evidence |-> e]}

\* dump_json: write_text opens the file, which empties it, ...
OpenFile(p) ==
    /\ pc[p] = "open"
    /\ file' = Torn
    /\ Goto(p, "fill")
    /\ grip' = [grip EXCEPT ![p] = "own"]
    /\ UNCHANGED <<rows, compiled, bundle, held, named, given, alone, clean,
                   calls, stops>>

\* What others who have the file open are left with when p writes to it.
Mixed(p) ==
    [q \in Procs |-> IF q = p THEN "none"
                     ELSE IF grip[q] = "own" THEN "mixed" ELSE grip[q]]

\* ... and writes.  Over what another wrote in between, a shorter text leaves
\* the end of the longer one standing.
FillFile(p) ==
    /\ pc[p] = "fill"
    /\ \/ grip[p] = "own" /\ file' = held[p] /\ grip' = Mixed(p)
       \/ grip[p] = "mixed" /\ file' \in {held[p], Torn} /\ grip' = Mixed(p)
       \/ grip[p] = "gone" /\ UNCHANGED file /\ grip' = [grip EXCEPT ![p] = "none"]
    /\ Forget(p)
    /\ UNCHANGED <<rows, compiled, bundle, given, alone, clean, calls, stops>>

-----------------------------------------------------------------------------

\* jcode emit: its answer is made from what it read, in one step.
Emit ==
    /\ Readable
    /\ Plan[file.content].portable
    /\ bundle' = BundleOf(file)
    /\ UNCHANGED <<file, rows, compiled, memory, given, alone, clean, calls,
                   stops>>

\* The process is killed, or an error ends the command; a write over another's
\* may be cut short.
Stop(p) ==
    /\ pc[p] # "idle"
    /\ stops < MaxStops
    /\ stops' = stops + 1
    /\ \/ UNCHANGED file
       \/ grip[p] = "mixed" /\ file' = Torn
    /\ Forget(p)
    /\ grip' = [grip EXCEPT ![p] = "none"]
    /\ clean' = FALSE
    /\ UNCHANGED <<rows, compiled, bundle, given, alone, calls>>

Next ==
    \/ \E p \in Procs :
         \/ \E c \in Contents : BeginCompile(p, c)
         \/ StoreRows(p)
         \/ AppendCompiled(p)
         \/ ReplaceFile(p)
         \/ \E s \in SUBSET Units, m \in Models, e \in Evidences :
               BeginSet(p, s, m, e)
         \/ OpenFile(p)
         \/ FillFile(p)
         \/ Stop(p)
    \/ Emit

Spec == Init /\ [][Next]_vars

-----------------------------------------------------------------------------
(***************************************************************************)
(* Properties.                                                             *)
(***************************************************************************)

Labels == {"idle", "store", "append", "replace", "open", "fill"}

\* Processes hold a graph exactly while they run a command, and have the file
\* open exactly while they fill it.
TypeOK ==
    /\ file \in Graphs \cup {NoGraph, Torn}
    /\ rows \in Contents \cup {NoGraph}
    /\ compiled \subseteq Contents
    /\ pc \in [Procs -> Labels]
    /\ held \in [Procs -> Graphs \cup {NoGraph}]
    /\ \A p \in Procs : held[p] = NoGraph <=> pc[p] = "idle"
    /\ named \in [Procs -> SUBSET Units]
    /\ grip \in [Procs -> {"none", "own", "mixed", "gone"}]
    /\ \A p \in Procs : grip[p] # "none" <=> pc[p] = "fill"
    /\ given \subseteq [model : Models, evidence : Evidences]
    /\ alone \in [Procs -> BOOLEAN]
    /\ clean \in BOOLEAN
    /\ calls \in 0..MaxCalls
    /\ stops \in 0..MaxStops

\* Whatever overlapped or was stopped before, a compile that runs alone leaves
\* the file readable, and file, rows and ledger at one content; and so they
\* stay until a command overlaps another or is stopped.
CompileHeals ==
    clean /\ AtRest =>
        \/ file = NoGraph /\ rows = NoGraph
        \/ Readable /\ rows = file.content /\ rows \in compiled

\* A `route set` that runs alone changes what it was asked to and nothing else:
\* what it is about to write over a graph differs from it at the nodes that
\* were named, or else at nodes that had no route.
NothingElseSet ==
    \A p \in Procs : clean /\ pc[p] = "open" =>
        /\ Readable
        /\ held[p].content = file.content
        /\ \A u \in DOMAIN file.route :
              held[p].route[u] # file.route[u] =>
                  \/ u \in named[p]
                  \/ named[p] = {} /\ file.route[u].model \in Placeholders

\* A route and the evidence beside it come from one command, also in a file
\* that several wrote to: no model passes for chosen on evidence that was given
\* for another.  Without evidence it is the plan's.
Honest(c, u, route, commands) ==
    \/ route \in commands
    \/ route = [model |-> Plan[c].route[u], evidence |-> None]

EvidenceOfItsModel ==
    Readable => \A u \in DOMAIN file.route :
                    Honest(file.content, u, file.route[u], given)

\* What is emitted can be run as it stands.  It has the units of one plan; what
\* a task waits for is a task, and all that its artifacts come from is among
\* it; its reviewer is a manager that knows of it; and when preflight has
\* nothing to say, each task has a model that a command or the plan gave it.
Stands(b, commands) ==
    \E c \in Contents :
        /\ DOMAIN b.tasks = UnitsOf(c)
        /\ \A u \in UnitsOf(c) :
            LET task == b.tasks[u]
            IN /\ task.depends_on \subseteq UnitsOf(c)
               /\ \A v \in UnitsOf(c) :
                     Plan[c].writes[v] \cap Plan[c].reads[u] # {} =>
                         v \in task.depends_on \cup {u}
               /\ task.review_owner \in DOMAIN b.reviews
               /\ u \in b.reviews[task.review_owner]
               /\ b.unrouted = {} =>
                     /\ task.model \notin Placeholders
                     /\ \E e \in Evidences \cup {None} :
                           Honest(c, u, [model |-> task.model,
                                         evidence |-> e], commands)

BundleStands == bundle # NoGraph => Stands(bundle, given)

=============================================================================
