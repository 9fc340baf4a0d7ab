----------------------------- MODULE Execution -----------------------------
(***************************************************************************)
(* The execution contract of src/graph_coder/execution.py, with the ready  *)
(* frontier of src/graph_coder/recovery.py: the state machine every node   *)
(* of a compiled graph follows, the manager's review, and the frontier     *)
(* work is dispatched from.                                                *)
(*                                                                         *)
(* The package decides which changes are legal; the Director, the managers *)
(* and the workers, who are outside it, choose among the legal ones.  Each *)
(* action below is one such choice, guarded by the function of the package *)
(* that has to accept it.                                                  *)
(***************************************************************************)
EXTENDS DelegationGraph

VARIABLES
    status,     \* graph_nodes.status, by node
    passed,     \* history: the nodes some manager review has passed
    reopened    \* history: the nodes sent back to repair after completion

vars == <<status, passed, reopened>>

-----------------------------------------------------------------------------
(***************************************************************************)
(* States and transitions.                                                 *)
(***************************************************************************)

States == {"pending", "ready", "running", "awaiting_review", "completed",
           "repair_required", "blocked", "human_required", "failed",
           "cancelled"}

TerminalStates == {"completed", "failed", "cancelled"}

Allowed ==
    [pending         |-> {"ready", "blocked", "cancelled"},
     ready           |-> {"running", "blocked", "cancelled"},
     running         |-> {"awaiting_review", "blocked", "human_required",
                          "failed", "cancelled"},
     awaiting_review |-> {"completed", "repair_required", "human_required",
                          "cancelled"},
     repair_required |-> {"running", "human_required", "cancelled"},
     blocked         |-> {"pending", "ready", "human_required", "cancelled"},
     human_required  |-> {"ready", "running", "cancelled", "failed"},
     completed       |-> {"repair_required"},
     failed          |-> {"ready", "cancelled"},
     cancelled       |-> {}]

\* validate_transition, and the status its caller then writes
Move(n, target) ==
    /\ target \in Allowed[status[n]]
    /\ status' = [status EXCEPT ![n] = target]

\* A verdict with the evidence it arrives with.
Reviews == [verdict   : {"pass", "repair_required", "human_required"},
            defects   : BOOLEAN,   \* at least one bounded defect
            repairs   : BOOLEAN,   \* at least one repair instruction
            escalation: BOOLEAN]   \* question, attempts and impacted nodes

VerdictToState(verdict) == IF verdict = "pass" THEN "completed" ELSE verdict

\* The checks apply_manager_review makes before it looks at the transition.
Reviewable(review) ==
    /\ review.verdict = "repair_required" => review.defects /\ review.repairs
    /\ review.verdict = "human_required" => review.escalation

-----------------------------------------------------------------------------
(***************************************************************************)
(* The two frontiers.                                                      *)
(***************************************************************************)

\* Mutant: a worker's submission already satisfies its dependents.
DependenciesSubmitted(n) ==
    \A d \in DependsOn[n] : status[d] \in {"completed", "awaiting_review"}

DependenciesCompleted(n) == \A d \in DependsOn[n] : status[d] = "completed"

\* Mutant: what a manager returned is not offered again.
FirstAttemptFrontier ==
    {n \in Atomic : /\ status[n] \in {"pending", "ready"}
                    /\ DependenciesCompleted(n)}

\* recovery.ready_frontier, the query whose answer is dispatched
ReadyFrontier ==
    {n \in Atomic : /\ status[n] \in {"pending", "ready", "repair_required"}
                    /\ DependenciesCompleted(n)}

Isolated ==
    UNION {BlockDescendants(n) :
        n \in {m \in Nodes :
                 status[m] \in {"human_required", "blocked", "failed"}}}

\* execution.compute_frontier
Frontier ==
    LET considered == {n \in Nodes :
            status[n] \notin TerminalStates \cup
                {"running", "awaiting_review", "human_required"}}
        held == {n \in considered :
            n \in Isolated \/ ~DependenciesCompleted(n)}
    IN [ready   |-> considered \ held,
        blocked |-> held,
        awaiting_review |-> {n \in Nodes : status[n] = "awaiting_review"},
        human_required  |-> {n \in Nodes : status[n] = "human_required"}]

-----------------------------------------------------------------------------
(***************************************************************************)
(* Steps.  They concern units only: nothing in the package or its skills   *)
(* moves a composite node, which keeps the "pending" it is compiled with.  *)
(***************************************************************************)

\* graph compile writes "ready" for the nodes of graph.frontier, the units
\* without dependencies, and "pending" for the rest.
InitialStatus(n) ==
    IF n \in Atomic /\ DependsOn[n] = {} THEN "ready" ELSE "pending"

Init ==
    /\ status = [n \in Nodes |-> InitialStatus(n)]
    /\ passed = {}
    /\ reopened = {}

\* Nothing but validate_transition guards "ready".
MakeReady(n) ==
    /\ status[n] = "pending"
    /\ Move(n, "ready")
    /\ UNCHANGED <<passed, reopened>>

\* A worker is started on a node of the ready frontier, first attempt and
\* repair alike.
Dispatch(n) ==
    /\ n \in ReadyFrontier
    /\ Move(n, "running")
    /\ UNCHANGED <<passed, reopened>>

Submit(n) ==
    /\ Move(n, "awaiting_review")
    /\ UNCHANGED <<passed, reopened>>

\* apply_manager_review
Review(n, review) ==
    /\ status[n] = "awaiting_review"
    /\ Reviewable(review)
    /\ Move(n, VerdictToState(review.verdict))
    /\ passed' = IF review.verdict = "pass" THEN passed \cup {n} ELSE passed
    /\ UNCHANGED reopened

\* Work on a node stops short: a blocker, an escalation of a running or a
\* returned node, a failure, a cancellation.
Halt(n, target) ==
    /\ target \in {"blocked", "human_required", "failed", "cancelled"}
    /\ status[n] # "human_required"
    /\ status[n] = "awaiting_review" => target = "cancelled"
    /\ Move(n, target)
    /\ UNCHANGED <<passed, reopened>>

Unblock(n, target) ==
    /\ status[n] = "blocked"
    /\ target \in {"pending", "ready"}
    /\ Move(n, target)
    /\ UNCHANGED <<passed, reopened>>

\* recovery.resume_human_required, the decision of a person
Resume(n, target) ==
    /\ status[n] = "human_required"
    /\ target \in {"ready", "cancelled", "failed"}
    /\ status' = [status EXCEPT ![n] = target]
    /\ UNCHANGED <<passed, reopened>>

Retry(n) ==
    /\ status[n] = "failed"
    /\ Move(n, "ready")
    /\ UNCHANGED <<passed, reopened>>

\* A completed unit is found wanting and goes back to a worker.
Reopen(n) ==
    /\ status[n] = "completed"
    /\ Move(n, "repair_required")
    /\ reopened' = reopened \cup {n}
    /\ UNCHANGED passed

\* Steps that give a node another round; nothing in the package counts them.
AnotherRound(n) ==
    \/ \E review \in Reviews :
         review.verdict = "repair_required" /\ Review(n, review)
    \/ \E target \in States : Unblock(n, target)
    \/ Resume(n, "ready")
    \/ Retry(n)
    \/ Reopen(n)

Step(n) ==
    \/ MakeReady(n)
    \/ Dispatch(n)
    \/ Submit(n)
    \/ \E review \in Reviews : Review(n, review)
    \/ \E target \in States :
         Halt(n, target) \/ Unblock(n, target) \/ Resume(n, target)
    \/ Retry(n)
    \/ Reopen(n)

Next == \E n \in Atomic : Step(n)

Spec == Init /\ [][Next]_vars

\* The Director works through the frontier, a worker reports or stops, and a
\* submission is reviewed.  Rescues (AnotherRound) are never owed.
Fairness ==
    \A n \in Atomic :
        /\ WF_vars(n \in ReadyFrontier /\ (MakeReady(n) \/ Dispatch(n)))
        /\ WF_vars(status[n] = "running"
                     /\ (Submit(n) \/ \E target \in States : Halt(n, target)))
        /\ WF_vars(\E review \in Reviews : Review(n, review))

FairSpec == Spec /\ Fairness

-----------------------------------------------------------------------------
(***************************************************************************)
(* Properties.                                                             *)
(***************************************************************************)

\* Every status is an execution state, composite nodes never leave "pending",
\* and a node counts as passed exactly as its status requires.
TypeOK ==
    /\ status \in [Nodes -> States]
    /\ \A n \in Nodes \ Atomic : status[n] = "pending"
    /\ passed \subseteq Atomic
    /\ reopened \subseteq passed
    /\ \A n \in Nodes : status[n] = "completed" => n \in passed

\* Work is never unlocked by anything but reviews of what it depends on:
\* a unit some worker was ever started on had all its transitive dependencies
\* passed by then (DEPENDENCY_SATISFYING_STATES, "a worker's own claim of
\* success does not unlock anything downstream").
OnlyReviewsUnlock ==
    \A n \in Nodes :
        status[n] \in {"running", "awaiting_review", "completed",
                       "repair_required"}
            => AncestorsOf[n] \subseteq passed

\* As long as no completed unit has been sent back, the query recovery
\* dispatches from and the frontier execution.compute_frontier derives agree
\* about every unit, blocked ones aside: the query never offers a unit
\* downstream of an isolated failure.
FrontiersAgree ==
    reopened = {} =>
        ReadyFrontier = {n \in Atomic \cap Frontier.ready :
                            status[n] # "blocked"}

\* Two workers run in one write scope only if one of them runs upstream of the
\* other and had been completed and sent back to repair: that is the one way to
\* the conflict which the order of overlapping writers is to prevent, and
\* reopening what is downstream, or anything else, does not lead to it.
WritersSeparate ==
    \A m, n \in Nodes :
        (m # n /\ <<m, n>> \in Overlap
               /\ status[m] = "running" /\ status[n] = "running")
            => \/ m \in reopened \cap AncestorsOf[n]
               \/ n \in reopened \cap AncestorsOf[m]

(* The inductive invariant behind the three properties above.              *)

\* Whoever was started on a node had its dependencies passed.
StartedOnPassed ==
    \A n \in Nodes :
        status[n] \in {"running", "awaiting_review", "completed",
                       "repair_required"}
            => DependsOn[n] \subseteq passed

\* A passed node stays completed until it is sent back.
ApprovalStands == \A n \in passed \ reopened : status[n] = "completed"

IInv ==
    /\ TypeOK
    /\ StartedOnPassed
    /\ ApprovalStands
    /\ ClosedUnderDependencies(passed)

Gate == INSTANCE ReviewGate WITH approved <- passed

\* Approvals come in dependency order: the abstract contract.
ImplementsGate == Gate!Spec

\* A node needs nobody, or waits for a person, or waits for a node upstream
\* that stopped short.
Settled(n) ==
    \/ status[n] \in TerminalStates \cup {"blocked", "human_required"}
    \/ /\ status[n] \in {"pending", "ready", "repair_required"}
       /\ \E m \in AncestorsOf[n] :
            status[m] \in {"blocked", "human_required", "failed", "cancelled"}

\* Once nobody grants another round, every unit that is not downstream of a
\* stopped one finishes or stops: an isolated failure stalls its descendants
\* and nothing else.
IndependentBranchesFinish ==
    <>[][\A n \in Atomic : ~AnotherRound(n)]_vars
        => <>[](\A n \in Atomic : Settled(n))

\* recovery.py:88-90 says of the ready frontier that `blocked` and
\* `human_required` nodes are not dispatchable, "and neither is anything
\* downstream of them".
NothingDownstreamOffered ==
    \A n \in ReadyFrontier, m \in Nodes :
        status[m] \in {"blocked", "human_required"} => m \notin AncestorsOf[n]

=============================================================================
