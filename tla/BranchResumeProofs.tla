------------------------- MODULE BranchResumeProofs -------------------------
(***************************************************************************)
(* Proofs that no decision goes without its event, and that undisturbed    *)
(* resumes leave rows and events in agreement, for any number of           *)
(* processes, branches and events.                                         *)
(***************************************************************************)
EXTENDS BranchResume, SequenceTheorems, TLAPS

\* The last decision of a record that is not empty, and a record with one more.
LEMMA LatestIsEntry ==
    ASSUME NEW h \in Seq(Entries), h # <<>>
    PROVE  /\ Latest(h) \in Entries
           /\ Len(h) \in DOMAIN h /\ Len(h) \in Nat \ {0}
BY DEF Latest

\* Every step keeps the types of rows, events and processes.
LEMMA BranchTypes ==
    ASSUME TypeOK, [Next]_vars
    PROVE  TypeOK'
<1> USE DEF TypeOK
<1>1. ASSUME NEW b \in Branches, Escalate(b) \/ Compile(b)
      PROVE  TypeOK'
  <2>1. <<>> \in Seq(Entries)
    OBVIOUS
  <2>2. CASE Escalate(b)
    BY <2>2, ResumeAssumption DEF Escalate, UnchangedResume, Statuses,
       ResumeAssumption
  <2>3. CASE Compile(b)
    BY <2>1, <2>3, ResumeAssumption DEF Compile, UnchangedResume, Statuses,
       ResumeAssumption
  <2> QED
    BY <1>1, <2>2, <2>3
<1>2. ASSUME NEW p \in Procs, NEW b \in Branches, NEW entry \in Entries,
             Read(p, b, entry)
      PROVE  TypeOK'
  <2>1. decisions[b] \in Seq(Entries)
    OBVIOUS
  <2>2. /\ Append(decisions[b], entry) \in Seq(Entries)
        /\ Append(decisions[b], entry) # <<>>
    BY <2>1, AppendProperties
  <2> QED
    BY <1>2, <2>2 DEF Read, Goto, Labels
<1>3. ASSUME NEW p \in Procs, Update(p) PROVE TypeOK'
  <2>1. /\ branch[p] \in Branches /\ history[p] \in Seq(Entries)
        /\ Latest(history[p]) \in Entries
    BY <1>3, LatestIsEntry DEF Update
  <2>2. Latest(history[p]).resumed_to \in Statuses
    BY <2>1 DEF Entries, Statuses
  <2> QED
    BY <1>3, <2>1, <2>2 DEF Update, Goto, Labels
<1>4. ASSUME NEW p \in Procs, AppendResumed(p) PROVE TypeOK'
  <2> DEFINE e == Resumed(branch[p], Len(history[p]), Latest(history[p]))
             Facts == [node : Nodes, number : Nat \ {0}, entry : Entries]
  <2>1. /\ branch[p] \in Branches /\ Latest(history[p]) \in Entries
        /\ Len(history[p]) \in Nat \ {0}
    BY <1>4, LatestIsEntry DEF AppendResumed
  <2>2. e \in Facts
    BY <2>1 DEF Resumed, Nodes
  <2>3. log' \in Seq(Facts) /\ answer' \in [Procs -> Nat]
    <3> HIDE DEF e, Facts
    <3>1. Append(log, e) \in Seq(Facts) /\ Len(log) + 1 \in Nat
      BY <2>2 DEF Facts
    <3>2. \A i \in Answers(e) : i \in Nat
      BY DEF Answers, Facts
    <3> QED
      BY <1>4, <3>1, <3>2 DEF AppendResumed, e, Facts
  <2> QED
    BY <1>4, <2>1, <2>3 DEF AppendResumed, Goto, Labels
<1>5. ASSUME NEW p \in Procs, Return(p) \/ Stop(p) PROVE TypeOK'
  <2>1. <<>> \in Seq(Entries)
    OBVIOUS
  <2>2. pc' = [pc EXCEPT ![p] = "idle"]
        /\ branch' = [branch EXCEPT ![p] = NoBranch]
        /\ history' = [history EXCEPT ![p] = <<>>]
        /\ answer' = [answer EXCEPT ![p] = 0]
        /\ UNCHANGED <<status, decisions, log, escalations, compiles, raced>>
    BY <1>5 DEF Return, Stop, Forget, Goto
  <2>3. stops' \in 0..MaxStops
    BY <1>5, ResumeAssumption DEF Return, Stop, ResumeAssumption
  <2>4. lost' \subseteq Branches \X (Nat \ {0})
    <3>1. CASE pc[p] = "append"
      <4>1. branch[p] \in Branches /\ Len(history[p]) \in Nat \ {0}
        BY <3>1, LatestIsEntry
      <4> QED
        BY <1>5, <4>1 DEF Return, Stop
    <3>2. CASE pc[p] # "append"
      BY <1>5, <3>2 DEF Return, Stop
    <3> QED
      BY <3>1, <3>2
  <2> QED
    BY <2>1, <2>2, <2>3, <2>4 DEF Labels
<1>6. CASE UNCHANGED vars
  BY <1>6 DEF vars
<1> QED
  BY <1>1, <1>2, <1>3, <1>4, <1>5, <1>6 DEF Next

\* resume_human_required: rows, events and processes stay well formed, whatever
\* comes between the steps of a resume.
THEOREM BranchTypeCorrect == Spec => []TypeOK
<1>1. Init => TypeOK
  <2> SUFFICES ASSUME Init PROVE TypeOK
    OBVIOUS
  <2>1. \A S : <<>> \in Seq(S)
    OBVIOUS
  <2>2. /\ log \in Seq([node : Nodes, number : Nat \ {0},
                        entry : Entries])
        /\ decisions \in [Branches -> Seq(Entries)]
        /\ history \in [Procs -> Seq(Entries)]
    BY <2>1 DEF Init
  <2>3. /\ escalations \in 0..MaxEscalations
        /\ compiles \in 0..MaxCompiles
        /\ stops \in 0..MaxStops
    BY ResumeAssumption DEF Init, ResumeAssumption
  <2> QED
    BY <2>2, <2>3 DEF Init, TypeOK, Statuses, Labels
<1>2. TypeOK /\ [Next]_vars => TypeOK'
  BY BranchTypes
<1> QED
  BY <1>1, <1>2, PTL DEF Spec

-----------------------------------------------------------------------------

Written(p) == pc[p] \in {"append", "return"}

\* The event of what p has written.
Own(p) == Resumed(branch[p], Len(history[p]), Latest(history[p]))

\* What a process has written stands in the row, under a number no other
\* process has; before it tells the ledger that number is free there, and
\* after it the answer is its own event.
Told(p) ==
    /\ Written(p) =>
          /\ Len(history[p]) \in DOMAIN decisions[branch[p]]
          /\ decisions[branch[p]][Len(history[p])] = Latest(history[p])
          /\ \A q \in Procs : Written(q) /\ branch[q] = branch[p] =>
                q = p \/ Len(history[q]) # Len(history[p])
    /\ pc[p] = "append" => Answers(Own(p)) = {}
    /\ pc[p] = "return" => answer[p] \in DOMAIN log /\ log[answer[p]] = Own(p)

\* The invariant: what is to be shown, and what each process has written.
RecordInv ==
    /\ LedgerAgreesWithRecord
    /\ Undisturbed => \A p \in Procs : Told(p)

\* What was undisturbed was so before.
LEMMA UndisturbedBefore ==
    ASSUME TypeOK, [Next]_vars, Undisturbed'
    PROVE  /\ Undisturbed
           /\ \A b \in Branches : ~Compile(b)
<1>1. ~raced' /\ compiles' = 0
  BY DEF Undisturbed
<1>2. compiles \in Nat
  BY ResumeAssumption DEF TypeOK, ResumeAssumption
<1>3. \A b \in Branches : ~Compile(b)
  BY <1>1, <1>2 DEF Compile
<1>4. compiles = 0
  BY <1>1, <1>3 DEF Next, vars, Escalate, UnchangedResume,
     Read, Update, AppendResumed, Return, Stop
<1>5. ~raced
  BY <1>1, <1>3 DEF Next, vars, Escalate, UnchangedResume,
     Read, Update, AppendResumed, Return, Stop
<1> QED
  BY <1>3, <1>4, <1>5 DEF Undisturbed

\* The row grows by the decision, which no event has been told of.
LEMMA UpdateRecord ==
    ASSUME TypeOK, RecordInv, Undisturbed, NEW p \in Procs,
           Update(p), ~raced'
    PROVE  RecordInv'
<1> DEFINE b == branch[p]
           h == history[p]
           d == decisions[b]
<1>1. /\ pc[p] = "update" /\ pc' = [pc EXCEPT ![p] = "append"]
      /\ b \in Branches /\ h \in Seq(Entries) /\ d \in Seq(Entries)
      /\ decisions' = [decisions EXCEPT ![b] = h]
      /\ UNCHANGED <<log, branch, history, answer, lost>>
      /\ h = Append(d, Latest(h))
  BY DEF Update, Goto, TypeOK
<1>2. /\ Len(h) = Len(d) + 1 /\ Len(d) \in Nat
      /\ DOMAIN d = 1..Len(d) /\ DOMAIN h = 1..(Len(d) + 1)
      /\ \A i \in DOMAIN d : h[i] = d[i]
      /\ h[Len(h)] = Latest(h)
  <2> DEFINE last == Latest(h)
  <2>1. last \in Entries
    BY <1>1, LatestIsEntry
  <2> HIDE DEF last
  <2>2. /\ Len(Append(d, last)) = Len(d) + 1 /\ Len(d) \in Nat
        /\ DOMAIN d = 1..Len(d) /\ DOMAIN Append(d, last) = 1..(Len(d) + 1)
        /\ \A i \in DOMAIN d : Append(d, last)[i] = d[i]
        /\ Append(d, last)[Len(d) + 1] = last
    BY <1>1, <2>1
  <2> QED
    BY <1>1, <2>2 DEF last
<1>3. \A c \in Branches : \A i \in DOMAIN decisions[c] :
         i \in DOMAIN decisions'[c] /\ decisions'[c][i] = decisions[c][i]
  BY <1>1, <1>2 DEF TypeOK
<1>4. \A q \in Procs : q # p => pc'[q] = pc[q]
  BY <1>1 DEF TypeOK
<1>5. pc'[p] = "append" /\ decisions'[b] = h
  BY <1>1 DEF TypeOK
<1>6. LedgerAgreesWithRecord'
  <2>1. ASSUME NEW c \in Branches, NEW i \in DOMAIN decisions'[c]
        PROVE  \/ Owed(c, i, decisions[c][i])'
               \/ <<c, i>> \in lost'
               \/ \E j \in DOMAIN log' :
                     log'[j] = Resumed(c, i, decisions'[c][i])
    <3>1. CASE i \in DOMAIN decisions[c]
      <4>1. decisions'[c][i] = decisions[c][i]
        BY <1>3, <3>1
      <4>2. \/ Owed(c, i, decisions[c][i])
            \/ <<c, i>> \in lost
            \/ \E j \in DOMAIN log : log[j] = Resumed(c, i, decisions[c][i])
        BY <3>1 DEF RecordInv, LedgerAgreesWithRecord
      <4>3. Owed(c, i, decisions[c][i]) => Owed(c, i, decisions[c][i])'
        BY <1>1, <1>3, <1>4, <3>1 DEF Owed
      <4> QED
        BY <1>1, <4>1, <4>2, <4>3 DEF Owed
    <3>2. CASE i \notin DOMAIN decisions[c]
      <4>1. c = b /\ i = Len(h)
        BY <1>1, <1>2, <3>2 DEF TypeOK
      <4>2. Owed(c, i, decisions[c][i])'
        BY <1>1, <1>2, <1>5, <4>1 DEF Owed
      <4> QED
        BY <4>2
    <3> QED
      BY <3>1, <3>2
  <2>2. ASSUME NEW j \in DOMAIN log'
        PROVE  \E c \in Branches :
                  /\ log'[j].number \in DOMAIN decisions'[c]
                  /\ log'[j] = Resumed(c, log'[j].number,
                                       decisions'[c][log'[j].number])
    <3>1. PICK c \in Branches :
                  /\ log[j].number \in DOMAIN decisions[c]
                  /\ log[j] = Resumed(c, log[j].number,
                                      decisions[c][log[j].number])
      BY <1>1 DEF RecordInv, LedgerAgreesWithRecord
    <3> QED
      BY <1>1, <1>3, <3>1
  <2> QED
    BY <2>1, <2>2 DEF LedgerAgreesWithRecord
<1>7. ASSUME NEW q \in Procs
      PROVE  Told(q)'
  <2>1. CASE q = p
    <3>1. ASSUME NEW r \in Procs, r # p, Written(r), branch[r] = b
          PROVE  Len(history[r]) # Len(h)
      <4>1. Len(history[r]) \in DOMAIN d
        BY <3>1 DEF RecordInv, Told
      <4> QED
        BY <1>2, <4>1
    <3>2. \A r \in Procs : (Written(r) /\ branch[r] = b)' =>
              r = p \/ Len(history'[r]) # Len(h)
      BY <1>1, <1>4, <3>1 DEF Written
    <3>3. Answers(Own(p)) = {}
      <4> SUFFICES ASSUME NEW j \in DOMAIN log, SameKey(log[j], Own(p))
                   PROVE  FALSE
        BY DEF Answers
      <4>1. log[j].node = NodeOf[b] /\ log[j].number = Len(h)
        BY DEF SameKey, Own, Resumed
      <4>2. PICK c \in Branches :
                  /\ log[j].number \in DOMAIN decisions[c]
                  /\ log[j].node = NodeOf[c]
        BY DEF RecordInv, LedgerAgreesWithRecord, Resumed
      <4>3. c = b
        BY <1>1, <4>1, <4>2 DEF Undisturbed
      <4> QED
        BY <1>2, <4>1, <4>2, <4>3
    <3>4. Answers(Own(p))' = {}
      BY <1>1, <3>3 DEF Answers, Own, SameKey, Resumed, Latest
    <3> QED
      BY <1>1, <1>2, <1>5, <2>1, <3>2, <3>4 DEF Told
  <2>2. CASE q # p
    <3>1. pc'[q] = pc[q] /\ Told(q)
      BY <1>4, <2>2 DEF RecordInv
    <3>2. /\ (Answers(Own(q)) = {})' <=> (Answers(Own(q)) = {})
          /\ Own(q)' = Own(q)
      BY <1>1 DEF Answers, Own, SameKey, Resumed, Latest
    <3>3. Written(q) => branch[q] \in Branches
      BY DEF Written, TypeOK
    <3>4. ASSUME Written(q)
          PROVE  /\ Len(history[q]) \in DOMAIN decisions'[branch[q]]
                 /\ decisions'[branch[q]][Len(history[q])]
                      = Latest(history[q])
                 /\ \A r \in Procs : (Written(r) /\ branch[r] = branch[q])' =>
                       r = q \/ Len(history[r]) # Len(history[q])
      <4>1. /\ Len(history[q]) \in DOMAIN decisions[branch[q]]
            /\ decisions[branch[q]][Len(history[q])] = Latest(history[q])
            /\ \A r \in Procs : Written(r) /\ branch[r] = branch[q] =>
                       r = q \/ Len(history[r]) # Len(history[q])
        BY <3>1, <3>4 DEF Told
      <4>2. branch[q] = b => Len(history[q]) # Len(h)
        BY <1>2, <4>1
      <4> QED
        BY <1>1, <1>3, <1>4, <3>3, <3>4, <4>1, <4>2 DEF Written
    <3> QED
      BY <1>1, <3>1, <3>2, <3>4 DEF Told, Written
  <2> QED
    BY <2>1, <2>2
<1> QED
  BY <1>6, <1>7 DEF RecordInv

\* The event is new, and answers the decision it is of.
LEMMA AppendRecord ==
    ASSUME TypeOK, RecordInv, Undisturbed, NEW p \in Procs,
           AppendResumed(p)
    PROVE  RecordInv'
<1> DEFINE e == Own(p)
<1>1. /\ pc[p] = "append" /\ pc' = [pc EXCEPT ![p] = "return"]
      /\ UNCHANGED <<decisions, branch, history, lost>>
      /\ branch[p] \in Branches
      /\ Told(p)
  BY DEF AppendResumed, Goto, TypeOK, RecordInv
<1>2. Answers(e) = {}
  BY <1>1 DEF Told
<1>3. log' = Append(log, e) /\ answer' = [answer EXCEPT ![p] = Len(log) + 1]
  BY <1>2 DEF AppendResumed, Own
<1>4. /\ DOMAIN log = 1..Len(log) /\ Len(log) \in Nat
      /\ DOMAIN log' = 1..(Len(log) + 1)
      /\ log'[Len(log) + 1] = e
      /\ \A j \in DOMAIN log : j \in DOMAIN log' /\ log'[j] = log[j]
  BY <1>3 DEF TypeOK
<1>5. /\ pc'[p] = "return" /\ answer'[p] = Len(log) + 1
      /\ \A q \in Procs : q # p => pc'[q] = pc[q] /\ answer'[q] = answer[q]
  BY <1>1, <1>3 DEF TypeOK
<1>6. \A q \in Procs : Own(q)' = Own(q)
  BY <1>1 DEF Own, Resumed, Latest
<1>7. /\ Len(history[p]) \in DOMAIN decisions[branch[p]]
      /\ decisions[branch[p]][Len(history[p])] = Latest(history[p])
  BY <1>1 DEF Told, Written
<1>8. LedgerAgreesWithRecord'
  <2>1. ASSUME NEW c \in Branches, NEW i \in DOMAIN decisions[c]
        PROVE  \/ Owed(c, i, decisions[c][i])'
               \/ <<c, i>> \in lost'
               \/ \E j \in DOMAIN log' :
                     log'[j] = Resumed(c, i, decisions[c][i])
    <3>1. CASE \E j \in DOMAIN log : log[j] = Resumed(c, i, decisions[c][i])
      BY <1>4, <3>1
    <3>2. CASE Owed(c, i, decisions[c][i])
      <4>1. PICK q \in Procs : /\ pc[q] = "append" /\ branch[q] = c
                               /\ Len(history[q]) = i
                               /\ Latest(history[q]) = decisions[c][i]
        BY <3>2 DEF Owed
      <4>2. CASE q = p
        <5>1. e = Resumed(c, i, decisions[c][i])
          BY <4>1, <4>2 DEF Own
        <5> QED
          BY <1>4, <5>1
      <4>3. CASE q # p
        BY <1>1, <1>5, <4>1, <4>3 DEF Owed, Latest
      <4> QED
        BY <4>2, <4>3
    <3>3. CASE <<c, i>> \in lost
      BY <1>1, <3>3
    <3> QED
      BY <3>1, <3>2, <3>3 DEF RecordInv, LedgerAgreesWithRecord
  <2>2. ASSUME NEW j \in DOMAIN log'
        PROVE  \E c \in Branches :
                  /\ log'[j].number \in DOMAIN decisions[c]
                  /\ log'[j] = Resumed(c, log'[j].number,
                                       decisions[c][log'[j].number])
    <3>1. CASE j \in DOMAIN log
      BY <1>4, <3>1 DEF RecordInv, LedgerAgreesWithRecord
    <3>2. CASE j = Len(log) + 1
      <4>1. log'[j] = e /\ e.number = Len(history[p])
        BY <1>4, <3>2 DEF Own, Resumed
      <4>2. e = Resumed(branch[p], Len(history[p]),
                        decisions[branch[p]][Len(history[p])])
        BY <1>7 DEF Own
      <4> QED
        BY <1>1, <1>7, <4>1, <4>2
    <3> QED
      BY <1>4, <3>1, <3>2
  <2> QED
    BY <1>1, <2>1, <2>2 DEF LedgerAgreesWithRecord
<1>9. ASSUME NEW q \in Procs
      PROVE  Told(q)'
  <2>1. Told(q)
    BY DEF RecordInv
  <2>2. \A r \in Procs : Written(r)' <=> Written(r)
    BY <1>1, <1>5 DEF Written
  <2>3. (pc[q] = "return")' =>
           answer'[q] \in DOMAIN log' /\ log'[answer'[q]] = Own(q)
    BY <1>4, <1>5, <2>1 DEF Told
  <2>4. ASSUME pc'[q] = "append"
        PROVE  (Answers(Own(q)) = {})'
    <3>1. q # p /\ pc[q] = "append"
      BY <1>5, <2>4
    <3>2. Answers(Own(q)) = {}
      BY <2>1, <3>1 DEF Told
    <3>3. ~SameKey(e, Own(q))
      <4> SUFFICES ASSUME SameKey(e, Own(q)) PROVE FALSE
        OBVIOUS
      <4>1. NodeOf[branch[p]] = NodeOf[branch[q]]
            /\ Len(history[p]) = Len(history[q])
        BY DEF SameKey, Own, Resumed
      <4>2. branch[q] \in Branches
        BY <3>1 DEF TypeOK
      <4>3. branch[p] = branch[q]
        BY <1>1, <4>1, <4>2 DEF Undisturbed
      <4> QED
        BY <1>1, <3>1, <4>1, <4>3 DEF Told, Written
    <3>4. \A j \in DOMAIN log' : ~SameKey(log'[j], Own(q))
      BY <1>4, <3>2, <3>3 DEF Answers
    <3> QED
      BY <1>6, <3>4 DEF Answers, SameKey
  <2> QED
    BY <1>1, <1>6, <2>1, <2>2, <2>3, <2>4 DEF Told, Latest
<1> QED
  BY <1>8, <1>9 DEF RecordInv

\* Steps that write neither rows nor events, or only the status of a row; what
\* a process owed when it was stopped is lost.
LEMMA OtherRecord ==
    ASSUME TypeOK, RecordInv, Undisturbed,
           UNCHANGED <<decisions, log>>, lost \subseteq lost',
           \A q \in Procs :
              \/ UNCHANGED <<pc[q], branch[q], history[q], answer[q]>>
              \/ ~Written(q) /\ pc'[q] \notin {"append", "return"}
              \/ pc[q] = "return" /\ pc'[q] = "idle"
              \/ /\ pc[q] = "append" /\ pc'[q] = "idle"
                 /\ <<branch[q], Len(history[q])>> \in lost'
    PROVE  RecordInv'
<1>1. ASSUME NEW q \in Procs, pc'[q] \in {"append", "return"}
      PROVE  UNCHANGED <<pc[q], branch[q], history[q], answer[q]>>
  BY <1>1
<1>2. ASSUME NEW q \in Procs, pc[q] = "append"
      PROVE  \/ UNCHANGED <<pc[q], branch[q], history[q], answer[q]>>
             \/ <<branch[q], Len(history[q])>> \in lost'
  BY <1>2 DEF Written
<1>3. ASSUME NEW c, NEW i, NEW entry, Owed(c, i, entry)
      PROVE  Owed(c, i, entry)' \/ <<c, i>> \in lost'
  <2>1. PICK q \in Procs : /\ pc[q] = "append" /\ branch[q] = c
                           /\ Len(history[q]) = i
                           /\ Latest(history[q]) = entry
    BY <1>3 DEF Owed
  <2>2. CASE UNCHANGED <<pc[q], branch[q], history[q], answer[q]>>
    BY <2>1, <2>2 DEF Owed, Latest
  <2> QED
    BY <1>2, <2>1, <2>2
<1>4. LedgerAgreesWithRecord'
  <2>1. ASSUME NEW c \in Branches, NEW i \in DOMAIN decisions[c]
        PROVE  \/ Owed(c, i, decisions[c][i])'
               \/ <<c, i>> \in lost'
               \/ \E j \in DOMAIN log :
                     log[j] = Resumed(c, i, decisions[c][i])
    BY <1>3 DEF RecordInv, LedgerAgreesWithRecord
  <2> QED
    BY <2>1 DEF RecordInv, LedgerAgreesWithRecord, Owed, Latest
<1>5. ASSUME NEW q \in Procs
      PROVE  Told(q)'
  <2>1. Told(q)
    BY DEF RecordInv
  <2>2. CASE Written(q)'
    <3>1. UNCHANGED <<pc[q], branch[q], history[q], answer[q]>> /\ Written(q)
      BY <1>1, <2>2 DEF Written
    <3>2. Own(q)' = Own(q) /\ Answers(Own(q))' = Answers(Own(q))
      BY <3>1 DEF Own, Answers, Resumed, Latest, SameKey
    <3>3. \A r \in Procs : Written(r)' => 
             Written(r) /\ UNCHANGED <<branch[r], history[r]>>
      BY <1>1 DEF Written
    <3> QED
      BY <2>1, <3>1, <3>2, <3>3 DEF Told, Latest
  <2>3. CASE ~Written(q)'
    BY <2>3 DEF Told, Written
  <2> QED
    BY <2>2, <2>3
<1> QED
  BY <1>4, <1>5 DEF RecordInv

\* Every step keeps the record and the ledger in agreement.
LEMMA StepRecord == TypeOK /\ RecordInv /\ [Next]_vars => RecordInv'
<1> SUFFICES ASSUME TypeOK, RecordInv, [Next]_vars PROVE RecordInv'
  OBVIOUS
<1>1. CASE ~Undisturbed'
  BY <1>1 DEF RecordInv, LedgerAgreesWithRecord
<1>2. CASE Undisturbed'
  <2>1. /\ Undisturbed /\ ~raced'
        /\ \A b \in Branches : ~Compile(b)
    BY <1>2, UndisturbedBefore DEF Undisturbed
  <2>2. ASSUME NEW b \in Branches, Escalate(b) PROVE RecordInv'
    BY <2>1, <2>2, OtherRecord DEF Escalate, UnchangedResume
  <2>3. ASSUME NEW p \in Procs, NEW b \in Branches, NEW entry \in Entries,
               Read(p, b, entry)
        PROVE  RecordInv'
    <3>1. /\ UNCHANGED <<decisions, log, lost>>
          /\ pc[p] = "idle" /\ pc'[p] = "update"
          /\ \A q \in Procs : q # p =>
                UNCHANGED <<pc[q], branch[q], history[q], answer[q]>>
      BY <2>3 DEF Read, Goto, TypeOK
    <3> QED
      BY <2>1, <3>1, OtherRecord DEF Written
  <2>4. ASSUME NEW p \in Procs, Return(p) PROVE RecordInv'
    <3>1. /\ UNCHANGED <<decisions, log, lost>>
          /\ pc[p] = "return" /\ pc'[p] = "idle"
          /\ \A q \in Procs : q # p =>
                UNCHANGED <<pc[q], branch[q], history[q], answer[q]>>
      BY <2>4 DEF Return, Forget, Goto, TypeOK
    <3> QED
      BY <2>1, <3>1, OtherRecord DEF Written
  <2>5. ASSUME NEW p \in Procs, Stop(p) PROVE RecordInv'
    <3>1. /\ UNCHANGED <<decisions, log>> /\ lost \subseteq lost'
          /\ pc'[p] = "idle" /\ pc[p] \in Labels
          /\ pc[p] = "append" => <<branch[p], Len(history[p])>> \in lost'
          /\ \A q \in Procs : q # p =>
                UNCHANGED <<pc[q], branch[q], history[q], answer[q]>>
      BY <2>5 DEF Stop, Forget, Goto, TypeOK
    <3> QED
      BY <2>1, <3>1, OtherRecord DEF Written, Labels
  <2>6. CASE UNCHANGED vars
    <3>1. RecordInv' <=> RecordInv
      BY <2>6 DEF vars, RecordInv, LedgerAgreesWithRecord,
         Undisturbed, Owed, Told, Written, Own, Answers, Latest,
         Resumed, SameKey
    <3> QED
      BY <3>1
  <2> QED
    BY <2>1, <2>2, <2>3, <2>4, <2>5, <2>6, UpdateRecord, AppendRecord DEF Next
<1> QED
  BY <1>1, <1>2

\* RecordInv holds in every reachable state.
THEOREM RecordInvariant == Spec => []RecordInv
<1>1. Init => RecordInv
  BY DEF Init, RecordInv, LedgerAgreesWithRecord, Told, Written
<1> QED
  BY <1>1, BranchTypeCorrect, StepRecord, PTL DEF Spec

\* resume_human_required: while resumes do not disturb each other, the record
\* of a branch and the ledger tell the same story.
THEOREM RecordAlwaysAgrees == Spec => []LedgerAgreesWithRecord
<1>1. RecordInv => LedgerAgreesWithRecord
  BY DEF RecordInv
<1> QED
  BY <1>1, RecordInvariant, PTL

\* resume_human_required: and each is answered with its own event.
THEOREM AlwaysAnsweredForItself == Spec => []AnsweredForItself
<1>1. RecordInv => AnsweredForItself
  BY DEF RecordInv, AnsweredForItself, Told, Own
<1> QED
  BY <1>1, RecordInvariant, PTL

-----------------------------------------------------------------------------

\* What a process is to write but its last decision is accounted for.
Founded(p) ==
    pc[p] = "update" =>
        \A i \in 1..(Len(history[p]) - 1) : Accounted(branch[p], i)

\* The invariant: what stands in rows and what processes still hold of them.
AccountInv == NoSilentDecision /\ \A p \in Procs : Founded(p)

\* What is accounted for stays so: events stay, a process leaves "append" with
\* an event of the number or with the decision among the lost ones.
LEMMA AccountsStay ==
    ASSUME TypeOK, [Next]_vars, NEW b \in Branches, NEW i, Accounted(b, i)
    PROVE  Accounted(b, i)'
<1>1. /\ lost \subseteq lost'
      /\ \A j \in DOMAIN log : j \in DOMAIN log' /\ log'[j] = log[j]
  <2>1. lost \subseteq lost'
    BY DEF Next, vars, Escalate, Compile, UnchangedResume, Read, Update,
       AppendResumed, Return, Stop
  <2>2. ASSUME NEW e, log' = Append(log, e)
        PROVE  \A j \in DOMAIN log : j \in DOMAIN log' /\ log'[j] = log[j]
    <3>1. /\ DOMAIN log = 1..Len(log) /\ Len(log) \in Nat
      BY DEF TypeOK
    <3> QED
      BY <2>2, <3>1 DEF TypeOK
  <2>3. UNCHANGED log \/ \E e : log' = Append(log, e)
    BY DEF Next, vars, Escalate, Compile, UnchangedResume, Read, Update,
       AppendResumed, Return, Stop
  <2> QED
    BY <2>1, <2>2, <2>3
<1>2. CASE <<b, i>> \in lost
  BY <1>1, <1>2 DEF Accounted
<1>3. CASE \E j \in DOMAIN log : log[j].node = NodeOf[b] /\ log[j].number = i
  BY <1>1, <1>3 DEF Accounted
<1>4. CASE \E p \in Procs : /\ pc[p] = "append" /\ branch[p] = b
                           /\ Len(history[p]) = i
  <2>1. PICK p \in Procs : /\ pc[p] = "append" /\ branch[p] = b
                           /\ Len(history[p]) = i
    BY <1>4
  <2>2. CASE UNCHANGED <<pc[p], branch[p], history[p]>>
    BY <2>1, <2>2 DEF Accounted
  <2>3. CASE Stop(p)
    BY <2>1, <2>3 DEF Accounted, Stop
  <2>4. CASE AppendResumed(p)
    <3> DEFINE e == Resumed(b, i, Latest(history[p]))
    <3>1. CASE Answers(e) = {} /\ log' = Append(log, e)
      <4>1. Len(log) + 1 \in DOMAIN log' /\ log'[Len(log) + 1] = e
        BY <3>1 DEF TypeOK
      <4> QED
        BY <4>1 DEF Accounted, Resumed
    <3>2. CASE Answers(e) # {}
      <4>1. PICK j \in DOMAIN log : SameKey(log[j], e)
        BY <3>2 DEF Answers
      <4>2. log[j].node = NodeOf[b] /\ log[j].number = i
        BY <4>1 DEF SameKey, Resumed
      <4> QED
        BY <1>1, <4>2 DEF Accounted
    <3>3. \/ Answers(e) = {} /\ log' = Append(log, e)
          \/ Answers(e) # {}
      BY <2>1, <2>4 DEF AppendResumed
    <3> QED
      BY <3>1, <3>2, <3>3
  <2>5. \/ UNCHANGED <<pc[p], branch[p], history[p]>>
        \/ Stop(p) \/ AppendResumed(p)
    <3>1. ASSUME NEW q \in Procs, q # p,
                 \/ \E c \in Branches, entry \in Entries : Read(q, c, entry)
                 \/ Update(q) \/ AppendResumed(q) \/ Return(q) \/ Stop(q)
          PROVE  UNCHANGED <<pc[p], branch[p], history[p]>>
      BY <3>1 DEF TypeOK, Read, Update, AppendResumed, Return, Stop, Forget,
         Goto
    <3>2. ASSUME NEW c \in Branches, Escalate(c) \/ Compile(c)
          PROVE  UNCHANGED <<pc[p], branch[p], history[p]>>
      BY <3>2 DEF Escalate, Compile, UnchangedResume
    <3>3. \/ \E c \in Branches, entry \in Entries : Read(p, c, entry)
          \/ Update(p) \/ Return(p)
          => FALSE
      BY <2>1 DEF Read, Update, Return
    <3> QED
      BY <3>1, <3>2, <3>3 DEF Next, vars
  <2> QED
    BY <2>2, <2>3, <2>4, <2>5
<1> QED
  BY <1>2, <1>3, <1>4 DEF Accounted

\* Every step keeps the decisions accounted for.
LEMMA StepAccounts ==
    ASSUME TypeOK, AccountInv, [Next]_vars
    PROVE  AccountInv'
<1>1. ASSUME NEW b \in Branches, NEW i \in DOMAIN decisions[b]
      PROVE  Accounted(b, i)'
  BY <1>1, AccountsStay DEF AccountInv, NoSilentDecision
<1>2. ASSUME NEW p \in Procs, UNCHANGED <<pc[p], branch[p], history[p]>>
      PROVE  Founded(p)'
  <2>1. ASSUME pc[p] = "update", NEW i \in 1..(Len(history[p]) - 1)
        PROVE  Accounted(branch[p], i)'
    <3>1. PICK b \in Branches : b = branch[p] /\ b = branch'[p]
      BY <1>2, <2>1 DEF TypeOK
    <3>2. Accounted(b, i)
      BY <2>1, <3>1 DEF AccountInv, Founded
    <3>3. Accounted(b, i)'
      BY <3>2, AccountsStay
    <3> QED
      BY <3>1, <3>3 DEF Accounted
  <2> QED
    BY <1>2, <2>1 DEF Founded, Accounted
<1>3. ASSUME \A b \in Branches :
                DOMAIN decisions'[b] \subseteq DOMAIN decisions[b]
      PROVE  NoSilentDecision'
  <2> SUFFICES ASSUME NEW b \in Branches, NEW i \in DOMAIN decisions'[b]
               PROVE  Accounted(b, i)'
    BY DEF NoSilentDecision
  <2>1. i \in DOMAIN decisions[b]
    BY <1>3
  <2> QED
    BY <1>1, <2>1
<1>4. ASSUME NEW b \in Branches, Escalate(b) \/ Compile(b)
      PROVE  AccountInv'
  <2>1. /\ UNCHANGED <<pc, branch, history>>
        /\ \A c \in Branches :
              DOMAIN decisions'[c] \subseteq DOMAIN decisions[c]
    <3>1. CASE Escalate(b)
      BY <3>1 DEF Escalate, UnchangedResume
    <3>2. CASE Compile(b)
      <4>1. decisions' = [decisions EXCEPT ![b] = <<>>] /\ DOMAIN <<>> = {}
        BY <3>2 DEF Compile
      <4>2. \A c \in Branches :
               decisions'[c] = decisions[c] \/ decisions'[c] = <<>>
        BY <4>1 DEF TypeOK
      <4> QED
        BY <3>2, <4>1, <4>2 DEF Compile, UnchangedResume
    <3> QED
      BY <1>4, <3>1, <3>2
  <2> QED
    BY <1>2, <1>3, <2>1 DEF AccountInv
<1>5. ASSUME NEW p \in Procs, NEW b \in Branches, NEW entry \in Entries,
             Read(p, b, entry)
      PROVE  AccountInv'
  <2>1. /\ pc'[p] = "update" /\ branch'[p] = b
        /\ history'[p] = Append(decisions[b], entry)
        /\ UNCHANGED decisions
        /\ \A q \in Procs \ {p} : UNCHANGED <<pc[q], branch[q], history[q]>>
    BY <1>5 DEF Read, Goto, TypeOK
  <2>2. 1..(Len(history'[p]) - 1) = DOMAIN decisions[b]
    BY <2>1 DEF TypeOK
  <2>3. Founded(p)'
    BY <1>1, <2>1, <2>2 DEF Founded, Accounted
  <2> QED
    BY <1>2, <1>3, <2>1, <2>3 DEF AccountInv
<1>6. ASSUME NEW p \in Procs, Update(p) PROVE AccountInv'
  <2>1. /\ pc[p] = "update" /\ pc'[p] = "append"
        /\ UNCHANGED <<branch, history>>
        /\ branch[p] \in Branches
        /\ decisions' = [decisions EXCEPT ![branch[p]] = history[p]]
        /\ \A q \in Procs \ {p} : pc'[q] = pc[q]
    BY <1>6 DEF Update, Goto, TypeOK
  <2>2. ASSUME NEW i \in DOMAIN history[p]
        PROVE  Accounted(branch[p], i)'
    <3>1. CASE i = Len(history[p])
      BY <2>1, <3>1 DEF Accounted
    <3>2. CASE i \in 1..(Len(history[p]) - 1)
      BY <2>1, <3>2, AccountsStay DEF AccountInv, Founded
    <3> QED
      BY <3>1, <3>2 DEF TypeOK
  <2>3. NoSilentDecision'
    <3> SUFFICES ASSUME NEW b \in Branches, NEW i \in DOMAIN decisions'[b]
                 PROVE  Accounted(b, i)'
      BY DEF NoSilentDecision
    <3>1. CASE b = branch[p]
      BY <2>1, <2>2, <3>1 DEF TypeOK
    <3>2. CASE b # branch[p]
      BY <1>1, <2>1, <3>2 DEF TypeOK
    <3> QED
      BY <3>1, <3>2
  <2>4. Founded(p)'
    BY <2>1 DEF Founded
  <2> QED
    BY <1>2, <2>1, <2>3, <2>4 DEF AccountInv
<1>7. ASSUME NEW p \in Procs, AppendResumed(p) \/ Return(p) \/ Stop(p)
      PROVE  AccountInv'
  <2>1. /\ pc'[p] # "update" /\ UNCHANGED decisions
        /\ \A q \in Procs \ {p} : UNCHANGED <<pc[q], branch[q], history[q]>>
    BY <1>7 DEF AppendResumed, Return, Stop, Forget, Goto, TypeOK
  <2> QED
    BY <1>2, <1>3, <2>1 DEF AccountInv, Founded
<1>8. CASE UNCHANGED vars
  BY <1>2, <1>3, <1>8 DEF vars, AccountInv
<1> QED
  BY <1>4, <1>5, <1>6, <1>7, <1>8 DEF Next

\* resume_human_required: however resumes, stops and compilations race, also
\* where nodes share a name, no decision of a row goes without an event of its
\* number, unless its process is before the event or was stopped there.
THEOREM NoDecisionSilent == Spec => []NoSilentDecision
<1>1. Init => AccountInv
  BY DEF Init, AccountInv, NoSilentDecision, Founded
<1>2. TypeOK /\ AccountInv /\ [Next]_vars => AccountInv'
  BY StepAccounts
<1>3. AccountInv => NoSilentDecision
  BY DEF AccountInv
<1> QED
  BY <1>1, <1>2, <1>3, BranchTypeCorrect, PTL DEF Spec

=============================================================================
