-------------------------- MODULE ExecutionProofs --------------------------
(***************************************************************************)
(* Proofs about the execution contract, for every graph that passed        *)
(* validation.                                                             *)
(***************************************************************************)
EXTENDS Execution, TLAPS

(***************************************************************************)
(* Facts about Ancestors, the result of the code's work lists.             *)
(***************************************************************************)

\* Ancestors(n) lies within every closed set that holds n's dependencies.
LEMMA AncestorsLeast ==
    ASSUME NEW n \in Nodes, NEW S \in SUBSET Nodes,
           DependsOn[n] \subseteq S, ClosedUnderDependencies(S)
    PROVE  AncestorsOf[n] \subseteq S
BY DEF AncestorsOf, Ancestors

\* Ancestors(n) holds n's dependencies.
LEMMA AncestorsHoldDependencies ==
    ASSUME NEW n \in Nodes
    PROVE  DependsOn[n] \subseteq AncestorsOf[n]
BY GraphAssumption DEF AncestorsOf, Ancestors

-----------------------------------------------------------------------------
(***************************************************************************)
(* The inductive invariant.                                                *)
(***************************************************************************)

\* Compilation establishes the invariant.
LEMMA InitIInv == Init => IInv
BY GraphAssumption
DEF Init, IInv, TypeOK, States, InitialStatus, StartedOnPassed,
    ApprovalStands, ClosedUnderDependencies

\* A move of one unit keeps the types: what Move writes is a state.
LEMMA AllowedAreStates ==
    ASSUME TypeOK, NEW n \in Nodes, NEW target, Move(n, target)
    PROVE  /\ target \in States
           /\ status' = [status EXCEPT ![n] = target]
           /\ status' \in [Nodes -> States]
           /\ status'[n] = target
           /\ \A k \in Nodes \ {n} : status'[k] = status[k]
           /\ target \in Allowed[status[n]]
<1>1. status[n] \in States
    BY DEF TypeOK
<1>2. \A s \in States : Allowed[s] \subseteq States
    BY DEF Allowed, States
<1>3. target \in States
    BY <1>1, <1>2 DEF Move
<1> QED
    BY <1>3 DEF Move, TypeOK

\* Moves that leave both histories alone keep the invariant when they start
\* nothing and complete nothing, and do not touch a completed node.
LEMMA QuietMove ==
    ASSUME IInv, NEW n \in Atomic, NEW target \in States,
           status' = [status EXCEPT ![n] = target],
           status[n] # "completed",
           target \notin {"running", "awaiting_review", "completed",
                          "repair_required"},
           UNCHANGED <<passed, reopened>>
    PROVE  IInv'
<1>1. n \in Nodes
    BY GraphAssumption
<1>2. TypeOK'
    BY <1>1 DEF IInv, TypeOK
<1>3. StartedOnPassed'
    BY <1>1 DEF IInv, TypeOK, StartedOnPassed
<1>4. ApprovalStands'
    BY <1>1, GraphAssumption DEF IInv, TypeOK, ApprovalStands
<1>5. ClosedUnderDependencies(passed)'
    BY DEF IInv, ClosedUnderDependencies
<1> QED
    BY <1>2, <1>3, <1>4, <1>5 DEF IInv

\* A started node keeps its dependencies passed as it moves on.
LEMMA StartedMove ==
    ASSUME IInv, NEW n \in Atomic, NEW target \in States,
           status' = [status EXCEPT ![n] = target],
           status[n] # "completed",
           target # "completed",
           DependsOn[n] \subseteq passed,
           UNCHANGED <<passed, reopened>>
    PROVE  IInv'
<1>1. n \in Nodes
    BY GraphAssumption
<1>2. TypeOK'
    BY <1>1 DEF IInv, TypeOK
<1>3. StartedOnPassed'
    BY <1>1 DEF IInv, TypeOK, StartedOnPassed
<1>4. ApprovalStands'
    BY <1>1, GraphAssumption DEF IInv, TypeOK, ApprovalStands
<1>5. ClosedUnderDependencies(passed)'
    BY DEF IInv, ClosedUnderDependencies
<1> QED
    BY <1>2, <1>3, <1>4, <1>5 DEF IInv

\* A passing review closes the set of passed nodes once more.
LEMMA PassMove ==
    ASSUME IInv, NEW n \in Atomic,
           status[n] = "awaiting_review",
           status' = [status EXCEPT ![n] = "completed"],
           passed' = passed \cup {n},
           UNCHANGED reopened
    PROVE  IInv'
<1>1. n \in Nodes
    BY GraphAssumption
<1>2. DependsOn[n] \subseteq passed
    BY <1>1 DEF IInv, StartedOnPassed
<1>3. TypeOK'
    BY <1>1 DEF IInv, TypeOK, States
<1>4. StartedOnPassed'
    BY <1>1, <1>2 DEF IInv, TypeOK, StartedOnPassed
<1>5. ApprovalStands'
    BY <1>1, GraphAssumption DEF IInv, TypeOK, ApprovalStands
<1>6. ClosedUnderDependencies(passed)'
    BY <1>2 DEF IInv, ClosedUnderDependencies
<1> QED
    BY <1>3, <1>4, <1>5, <1>6 DEF IInv

\* Sending a completed node back takes it out of the standing approvals.
LEMMA ReopenMove ==
    ASSUME IInv, NEW n \in Atomic, Reopen(n)
    PROVE  IInv'
<1>1. n \in Nodes
    BY GraphAssumption
<1>2. /\ status[n] = "completed"
      /\ status' = [status EXCEPT ![n] = "repair_required"]
      /\ reopened' = reopened \cup {n}
      /\ passed' = passed
    BY DEF Reopen, Move
<1>3. n \in passed
    BY <1>1, <1>2 DEF IInv, TypeOK
<1>4. TypeOK'
    BY <1>1, <1>2, <1>3 DEF IInv, TypeOK, States
<1>5. StartedOnPassed'
    BY <1>1, <1>2 DEF IInv, TypeOK, StartedOnPassed
<1>6. ApprovalStands'
    BY <1>1, <1>2, GraphAssumption DEF IInv, TypeOK, ApprovalStands
<1>7. ClosedUnderDependencies(passed)'
    BY <1>2 DEF IInv, ClosedUnderDependencies
<1> QED
    BY <1>4, <1>5, <1>6, <1>7 DEF IInv

-----------------------------------------------------------------------------
(***************************************************************************)
(* Every step keeps the invariant: one step of the proof per action.       *)
(***************************************************************************)

\* The moves of one unit.
LEMMA StepIInv ==
    ASSUME IInv, NEW n \in Atomic, Step(n)
    PROVE  IInv'
<1> n \in Nodes /\ TypeOK
    BY GraphAssumption DEF IInv
<1> USE DEF vars
<1>1. CASE MakeReady(n)
    BY <1>1, AllowedAreStates, QuietMove DEF MakeReady, Move
<1>2. CASE Dispatch(n)
  <2>1. status[n] \in {"pending", "ready", "repair_required"}
      BY <1>2 DEF Dispatch, ReadyFrontier
  <2>2. DependsOn[n] \subseteq passed
      BY <1>2, GraphAssumption
      DEF Dispatch, ReadyFrontier, DependenciesCompleted, TypeOK
  <2>3. /\ "running" \in States
        /\ status' = [status EXCEPT ![n] = "running"]
        /\ UNCHANGED <<passed, reopened>>
      BY <1>2 DEF Dispatch, Move, States
  <2> QED
      BY <2>1, <2>2, <2>3, StartedMove
<1>3. CASE Submit(n)
  <2>1. /\ Move(n, "awaiting_review")
        /\ UNCHANGED <<passed, reopened>>
      BY <1>3 DEF Submit
  <2>2. status[n] = "running"
      BY <2>1, AllowedAreStates DEF Allowed, TypeOK, States
  <2>3. DependsOn[n] \subseteq passed
      BY <2>2 DEF IInv, StartedOnPassed
  <2>4. "awaiting_review" \in States
      BY DEF States
  <2> QED
      BY <2>1, <2>2, <2>3, <2>4, StartedMove DEF Move
<1>4. ASSUME NEW review \in Reviews, Review(n, review)
      PROVE  IInv'
  <2>1. /\ status[n] = "awaiting_review"
        /\ review.verdict \in {"pass", "repair_required", "human_required"}
        /\ status' = [status EXCEPT ![n] = VerdictToState(review.verdict)]
        /\ UNCHANGED reopened
      BY <1>4 DEF Review, Reviews, Move
  <2>2. CASE review.verdict = "pass"
    <3>1. /\ status' = [status EXCEPT ![n] = "completed"]
          /\ passed' = passed \cup {n}
        BY <1>4, <2>1, <2>2 DEF Review, VerdictToState
    <3> QED
        BY <2>1, <3>1, PassMove
  <2>3. CASE review.verdict = "repair_required"
    <3>1. /\ status' = [status EXCEPT ![n] = "repair_required"]
          /\ passed' = passed
        BY <1>4, <2>1, <2>3 DEF Review, VerdictToState
    <3>2. DependsOn[n] \subseteq passed
        BY <2>1 DEF IInv, StartedOnPassed
    <3>3. "repair_required" \in States
        BY DEF States
    <3> QED
        BY <2>1, <3>1, <3>2, <3>3, StartedMove
  <2>4. CASE review.verdict = "human_required"
    <3>1. /\ status' = [status EXCEPT ![n] = "human_required"]
          /\ passed' = passed
          /\ "human_required" \in States
        BY <1>4, <2>1, <2>4 DEF Review, VerdictToState, States
    <3> QED
        BY <2>1, <3>1, QuietMove
  <2> QED
      BY <2>1, <2>2, <2>3, <2>4
<1>5. ASSUME NEW target \in States,
             Halt(n, target) \/ Unblock(n, target)
      PROVE  IInv'
  <2>1. /\ target \in {"pending", "ready", "blocked", "human_required",
                       "failed", "cancelled"}
        /\ Move(n, target)
        /\ UNCHANGED <<passed, reopened>>
      BY <1>5 DEF Halt, Unblock
  <2>2. status[n] # "completed"
      BY <2>1, AllowedAreStates DEF Allowed, TypeOK, States
  <2> QED
      BY <2>1, <2>2, QuietMove DEF Move
<1>6. ASSUME NEW target \in States, Resume(n, target)
      PROVE  IInv'
    BY <1>6, QuietMove DEF Resume
<1>7. CASE Retry(n)
  <2>1. "ready" \in States
      BY DEF States
  <2> QED
      BY <1>7, <2>1, QuietMove DEF Retry, Move
<1>8. CASE Reopen(n)
    BY <1>8, ReopenMove
<1> QED
    BY <1>1, <1>2, <1>3, <1>4, <1>5, <1>6, <1>7, <1>8 DEF Step

\* The strengthening holds in every reachable state, for every graph.
THEOREM InductiveInvariant == Spec => []IInv
<1>1. IInv /\ [Next]_vars => IInv'
  <2> SUFFICES ASSUME IInv, [Next]_vars PROVE IInv'
      OBVIOUS
  <2>1. CASE Next
      BY <2>1, StepIInv DEF Next
  <2>2. CASE UNCHANGED vars
      BY <2>2 DEF vars, IInv, TypeOK, StartedOnPassed, ApprovalStands,
                  ClosedUnderDependencies
  <2> QED
      BY <2>1, <2>2
<1> QED
    BY InitIInv, <1>1, PTL DEF Spec

\* Type correctness of the execution contract.
THEOREM TypeCorrect == Spec => []TypeOK
<1>1. IInv => TypeOK
    BY DEF IInv
<1> QED
    BY <1>1, InductiveInvariant, PTL

-----------------------------------------------------------------------------
(***************************************************************************)
(* What the invariant gives.                                               *)
(***************************************************************************)

\* Everything upstream of a passed or started node has been passed.
LEMMA UpstreamPassed ==
    ASSUME IInv, NEW n \in Nodes, DependsOn[n] \subseteq passed
    PROVE  AncestorsOf[n] \subseteq passed
<1>1. passed \in SUBSET Nodes
    BY GraphAssumption DEF IInv, TypeOK
<1> QED
    BY <1>1, AncestorsLeast DEF IInv

\* No unit is ever started on anything but reviewed work, all the way up.
THEOREM StartedAfterReviews == Spec => []OnlyReviewsUnlock
<1>1. IInv => OnlyReviewsUnlock
    BY UpstreamPassed DEF OnlyReviewsUnlock, IInv, StartedOnPassed
<1> QED
    BY <1>1, InductiveInvariant, PTL

\* validate_transition, ready_frontier: of two workers in one write scope the
\* upstream one has had its approval withdrawn.
THEOREM WritersSeparateUntilReopened == Spec => []WritersSeparate
<1>1. IInv => WritersSeparate
  <2> SUFFICES ASSUME IInv, NEW m \in Nodes, NEW n \in Nodes,
                      m # n, <<m, n>> \in Overlap,
                      status[m] = "running", status[n] = "running"
               PROVE  \/ m \in reopened \cap AncestorsOf[n]
                      \/ n \in reopened \cap AncestorsOf[m]
      BY DEF WritersSeparate
  <2>1. /\ AncestorsOf[n] \subseteq passed
        /\ AncestorsOf[m] \subseteq passed
      BY UpstreamPassed DEF IInv, StartedOnPassed
  <2>2. m \in AncestorsOf[n] \/ n \in AncestorsOf[m]
      BY GraphAssumption DEF WriteSafe, Ordered
  <2>3. m \notin passed \ reopened /\ n \notin passed \ reopened
      BY DEF IInv, ApprovalStands
  <2> QED
      BY <2>1, <2>2, <2>3
<1> QED
    BY <1>1, InductiveInvariant, PTL

\* Before the first withdrawal the query and compute_frontier agree.
THEOREM FrontiersAgreeUntilReopened == Spec => []FrontiersAgree
<1>1. IInv => FrontiersAgree
  <2> SUFFICES ASSUME IInv, reopened = {}
               PROVE  ReadyFrontier = {n \in Atomic \cap Frontier.ready :
                                           status[n] # "blocked"}
      BY DEF FrontiersAgree
  <2>1. \A n \in passed : status[n] = "completed"
      BY DEF IInv, ApprovalStands
  <2>2. ASSUME NEW n \in Atomic, DependenciesCompleted(n)
        PROVE  n \notin Isolated
    <3>1. n \in Nodes /\ DependsOn[n] \subseteq passed
        BY <2>2, GraphAssumption DEF DependenciesCompleted, IInv, TypeOK
    <3>2. \A k \in AncestorsOf[n] : status[k] = "completed"
        BY <2>1, <3>1, UpstreamPassed
    <3> QED
        BY <3>2 DEF Isolated, BlockDescendants
  <2>3. Frontier.ready =
            {n \in Nodes :
                /\ status[n] \notin TerminalStates \cup
                     {"running", "awaiting_review", "human_required"}
                /\ n \notin Isolated
                /\ DependenciesCompleted(n)}
      BY DEF Frontier
  <2>4. \A n \in Atomic :
            (/\ status[n] \notin TerminalStates \cup
                  {"running", "awaiting_review", "human_required"}
             /\ status[n] # "blocked")
            <=> status[n] \in {"pending", "ready", "repair_required"}
      BY GraphAssumption DEF IInv, TypeOK, States, TerminalStates
  <2> QED
      BY <2>2, <2>3, <2>4, GraphAssumption DEF ReadyFrontier
<1> QED
    BY <1>1, InductiveInvariant, PTL

-----------------------------------------------------------------------------
(***************************************************************************)
(* Refinement: the detailed contract implements the abstract one.          *)
(***************************************************************************)

\* A step of one unit approves it in order or approves nothing.
LEMMA StepGate ==
    ASSUME IInv, NEW n \in Atomic, Step(n)
    PROVE  [Gate!Next]_passed
<1> n \in Nodes
    BY GraphAssumption
<1>1. ASSUME NEW review \in Reviews, Review(n, review)
      PROVE  [Gate!Next]_passed
  <2>1. DependsOn[n] \subseteq passed
      BY <1>1 DEF Review, IInv, StartedOnPassed
  <2>2. passed' = passed \/ passed' = passed \cup {n}
      BY <1>1 DEF Review
  <2> QED
      BY <2>1, <2>2 DEF Gate!Next, Gate!Approve
<1>2. ASSUME NEW target \in States,
             Halt(n, target) \/ Unblock(n, target) \/ Resume(n, target)
      PROVE  passed' = passed
    BY <1>2 DEF Halt, Unblock, Resume
<1>3. (MakeReady(n) \/ Dispatch(n) \/ Submit(n) \/ Retry(n) \/ Reopen(n))
          => passed' = passed
    BY DEF MakeReady, Dispatch, Submit, Retry, Reopen
<1> QED
    BY <1>1, <1>2, <1>3 DEF Step

\* Approvals come in dependency order, whatever the graph.
THEOREM Refinement == Spec => ImplementsGate
<1>1. Init => Gate!Init
    BY DEF Init, Gate!Init
<1>2. IInv /\ [Next]_vars => [Gate!Next]_passed
  <2> SUFFICES ASSUME IInv, [Next]_vars PROVE [Gate!Next]_passed
      OBVIOUS
  <2>1. CASE Next
      BY <2>1, StepGate DEF Next
  <2>2. CASE UNCHANGED vars
      BY <2>2 DEF vars
  <2> QED
      BY <2>1, <2>2
<1> QED
    BY <1>1, <1>2, InductiveInvariant, PTL DEF Spec, ImplementsGate, Gate!Spec

=============================================================================
