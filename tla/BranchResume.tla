---------------------------- MODULE BranchResume ----------------------------
(***************************************************************************)
(* A person's decision on a branch that waits for one: `run resume`, which *)
(* is resume_human_required of src/graph_coder/recovery.py.  It reads the  *)
(* row of the node, writes status and decisions back in one transaction,   *)
(* and appends branch.resumed in another; other processes do the same      *)
(* meanwhile, and `graph compile` writes the rows anew.                    *)
(*                                                                         *)
(* append_event is one step here, as module Ledger justifies.              *)
(***************************************************************************)
EXTENDS Integers, Sequences

CONSTANTS
    Procs,          \* processes of the command line tool
    Branches,       \* rows of graph_nodes, by graph_id and node_id
    NodeOf,         \* NodeOf[b]: the node_id of the row
    Decisions,      \* what a person may decide
    NoBranch,
    MaxEscalations, \* bound: times a branch comes to wait for a person
    MaxCompiles,    \* bound: rows written anew by graph compile
    MaxStops        \* bound: processes stopped in the middle

ASSUME ResumeAssumption ==
    /\ MaxEscalations \in Nat
    /\ MaxCompiles \in Nat
    /\ MaxStops \in Nat
    /\ NoBranch \notin Branches
    /\ DOMAIN NodeOf = Branches

VARIABLES
    status,      \* graph_nodes.status, as far as resuming tells apart
    decisions,   \* human_decisions in graph_nodes.data_json
    log,         \* the branch.resumed events in the ledger
    pc,          \* where in resume_human_required a process is
    branch,      \* the row it read
    history,     \* the decisions it is to write
    answer,      \* the event it is to report
    escalations, \* branches sent to a person so far
    compiles,    \* rows written anew so far
    stops,       \* processes stopped so far
    raced,       \* history: some row changed between a read and its update
    lost         \* history: the decisions, by branch and number, that a
                 \* process had written when it was stopped before its event

vars == <<status, decisions, log, pc, branch, history, answer,
          escalations, compiles, stops, raced, lost>>

-----------------------------------------------------------------------------

Targets == {"ready", "cancelled", "failed"}

\* "working" stands for the states in which nobody waits and nothing ended.
Statuses == Targets \cup {"working", "human_required"}

Entries == [decision : Decisions, resumed_to : Targets]

Nodes == {NodeOf[b] : b \in Branches}

\* Mutant: the decisions are counted before the new one is added.
ResumedFromZero(b, number, entry) ==
    [node |-> NodeOf[b], number |-> number - 1, entry |-> entry]

\* Mutant: the key does not count the decisions.
ResumedOnce(b, number, entry) ==
    [node |-> NodeOf[b], number |-> 1, entry |-> entry]

\* Key branch-resume:{node_id}:{number}.
Resumed(b, number, entry) ==
    [node |-> NodeOf[b], number |-> number, entry |-> entry]

SameKey(e, f) == e.node = f.node /\ e.number = f.number

\* append_event: the event with the key of e, an earlier one before e itself
Answers(e) == {i \in DOMAIN log : SameKey(log[i], e)}

Init ==
    /\ status = [b \in Branches |-> "working"]
    /\ decisions = [b \in Branches |-> <<>>]
    /\ log = <<>>
    /\ pc = [p \in Procs |-> "idle"]
    /\ branch = [p \in Procs |-> NoBranch]
    /\ history = [p \in Procs |-> <<>>]
    /\ answer = [p \in Procs |-> 0]
    /\ escalations = 0
    /\ compiles = 0
    /\ stops = 0
    /\ raced = FALSE
    /\ lost = {}

Goto(p, label) == pc' = [pc EXCEPT ![p] = label]

UnchangedResume ==
    UNCHANGED <<log, pc, branch, history, answer, stops, raced, lost>>

\* Work on the branch comes to a point only a person can decide.
Escalate(b) ==
    /\ status[b] \in {"working", "ready", "failed"}
    /\ escalations < MaxEscalations
    /\ escalations' = escalations + 1
    /\ status' = [status EXCEPT ![b] = "human_required"]
    /\ UNCHANGED <<decisions, compiles>>
    /\ UnchangedResume

\* graph compile deletes the row and inserts it as the plan has it.
Compile(b) ==
    /\ compiles < MaxCompiles
    /\ compiles' = compiles + 1
    /\ status' = [status EXCEPT ![b] = "working"]
    /\ decisions' = [decisions EXCEPT ![b] = <<>>]
    /\ UNCHANGED escalations
    /\ UnchangedResume

\* The row is read, by node_id alone, and its status checked.
Read(p, b, entry) ==
    /\ pc[p] = "idle"
    /\ status[b] = "human_required"
    /\ branch' = [branch EXCEPT ![p] = b]
    /\ history' = [history EXCEPT ![p] = Append(decisions[b], entry)]
    /\ Goto(p, "update")
    /\ UNCHANGED <<status, decisions, log, answer, escalations, compiles,
                   stops, raced, lost>>

Latest(h) == h[Len(h)]

\* Status and decisions are written, whatever the row holds by now.
Update(p) ==
    LET b == branch[p]
        h == history[p]
    IN /\ pc[p] = "update"
       /\ status' = [status EXCEPT ![b] = Latest(h).resumed_to]
       /\ decisions' = [decisions EXCEPT ![b] = h]
       /\ raced' = \/ raced
                   \/ h # Append(decisions[b], Latest(h))
                   \/ status[b] # "human_required"
       /\ Goto(p, "append")
       /\ UNCHANGED <<log, branch, history, answer, escalations, compiles,
                      stops, lost>>

AppendResumed(p) ==
    LET h == history[p]
        e == Resumed(branch[p], Len(h), Latest(h))
    IN /\ pc[p] = "append"
       /\ \/ /\ Answers(e) = {}
             /\ log' = Append(log, e)
             /\ answer' = [answer EXCEPT ![p] = Len(log) + 1]
          \/ /\ \E i \in Answers(e) : answer' = [answer EXCEPT ![p] = i]
             /\ UNCHANGED log
       /\ Goto(p, "return")
       /\ UNCHANGED <<status, decisions, branch, history, escalations,
                      compiles, stops, raced, lost>>

Forget(p) ==
    /\ Goto(p, "idle")
    /\ branch' = [branch EXCEPT ![p] = NoBranch]
    /\ history' = [history EXCEPT ![p] = <<>>]
    /\ answer' = [answer EXCEPT ![p] = 0]

Return(p) ==
    /\ pc[p] = "return"
    /\ Forget(p)
    /\ UNCHANGED <<status, decisions, log, escalations, compiles, stops, raced,
                   lost>>

\* The process is killed, or gives up waiting for the database.
Stop(p) ==
    /\ pc[p] # "idle"
    /\ stops < MaxStops
    /\ stops' = stops + 1
    /\ lost' = IF pc[p] = "append"
                 THEN lost \cup {<<branch[p], Len(history[p])>>} ELSE lost
    /\ Forget(p)
    /\ UNCHANGED <<status, decisions, log, escalations, compiles, raced>>

Next ==
    \/ \E b \in Branches : Escalate(b) \/ Compile(b)
    \/ \E p \in Procs :
         \/ \E b \in Branches, entry \in Entries : Read(p, b, entry)
         \/ Update(p)
         \/ AppendResumed(p)
         \/ Return(p)
         \/ Stop(p)

Spec == Init /\ [][Next]_vars

-----------------------------------------------------------------------------
(***************************************************************************)
(* Properties.                                                             *)
(***************************************************************************)

Labels == {"idle", "update", "append", "return"}

\* Rows, events and the state of every process are well formed.
TypeOK ==
    /\ status \in [Branches -> Statuses]
    /\ decisions \in [Branches -> Seq(Entries)]
    /\ log \in Seq([node : Nodes, number : Nat \ {0}, entry : Entries])
    /\ pc \in [Procs -> Labels]
    /\ branch \in [Procs -> Branches \cup {NoBranch}]
    /\ history \in [Procs -> Seq(Entries)]
    /\ answer \in [Procs -> Nat]
    /\ escalations \in 0..MaxEscalations
    /\ compiles \in 0..MaxCompiles
    /\ stops \in 0..MaxStops
    /\ raced \in BOOLEAN
    /\ lost \subseteq Branches \X (Nat \ {0})
    /\ \A p \in Procs : pc[p] # "idle" =>
          branch[p] \in Branches /\ history[p] # <<>>

\* Nothing came between the steps of a resume so far: no other resume or
\* compilation of the same row, and no other row with the same node.
Undisturbed ==
    /\ ~raced
    /\ compiles = 0
    /\ \A b, c \in Branches : NodeOf[b] = NodeOf[c] => b = c

\* A process is about to append the event of a decision.
Owed(b, number, entry) ==
    \E p \in Procs : /\ pc[p] = "append"
                     /\ branch[p] = b
                     /\ Len(history[p]) = number
                     /\ Latest(history[p]) = entry

\* resume_human_required: while resumes do not disturb each other, the record
\* of a branch and the ledger tell the same story, also after stops: the
\* decisions of the row, in order, are those of the events, but for one whose
\* event is being appended and for those whose process was stopped before it.
LedgerAgreesWithRecord ==
    Undisturbed =>
        /\ \A b \in Branches : \A i \in DOMAIN decisions[b] :
              \/ Owed(b, i, decisions[b][i])
              \/ <<b, i>> \in lost
              \/ \E j \in DOMAIN log : log[j] = Resumed(b, i, decisions[b][i])
        /\ \A j \in DOMAIN log : \E b \in Branches :
              /\ log[j].number \in DOMAIN decisions[b]
              /\ log[j] = Resumed(b, log[j].number,
                                  decisions[b][log[j].number])

\* While resumes do not disturb each other, each is answered with the event of
\* its own decision.
AnsweredForItself ==
    Undisturbed =>
        \A p \in Procs : pc[p] = "return" =>
            log[answer[p]] = Resumed(branch[p], Len(history[p]),
                                     Latest(history[p]))

\* A decision of a row is in the ledger by its number, or on its way there, or
\* was lost with its process.
Accounted(b, i) ==
    \/ \E j \in DOMAIN log : log[j].node = NodeOf[b] /\ log[j].number = i
    \/ \E p \in Procs : /\ pc[p] = "append"
                        /\ branch[p] = b
                        /\ Len(history[p]) = i
    \/ <<b, i>> \in lost

\* resume_human_required: whatever races with it, rows compiled anew and nodes
\* that share their name with one of another plan version included, there is no
\* decision in a row whose number the ledger has no event of, unless just its
\* process is before the event or was stopped there.
NoSilentDecision ==
    \A b \in Branches : \A i \in DOMAIN decisions[b] : Accounted(b, i)

\* recovery.py:133-135: "the decision is appended to the node's durable record
\* rather than replacing it".  A resume leaves earlier decisions in place.
DecisionsKept ==
    [][\A p \in Procs, b \in Branches : (Update(p) /\ branch[p] = b) =>
         /\ Len(decisions'[b]) > Len(decisions[b])
         /\ SubSeq(decisions'[b], 1, Len(decisions[b])) = decisions[b]]_vars

=============================================================================
