--------------------------- MODULE PlanStoreProofs --------------------------
(***************************************************************************)
(* Proofs of what holds of the versions of a plan however its commands     *)
(* race and stop, for any number of processes, contents and units.         *)
(***************************************************************************)
EXTENDS PlanStore, FiniteSetTheorems, WellFoundedInduction, TLAPS

(***************************************************************************)
(* Evidence.                                                               *)
(***************************************************************************)

\* Every step leaves each unit with evidence for its hash only.
LEMMA StepEvidence ==
    ASSUME EvidenceFits, [Next]_vars
    PROVE  EvidenceFits'
<1>1. CASE UNCHANGED units
  BY <1>1 DEF EvidenceFits
<1>2. CASE \E p \in Procs : Insert(p)
  <2>1. PICK p \in Procs : units' = UpsertedUnits(job[p])
    BY <1>2 DEF Insert
  <2> DEFINE c == job[p]
  <2>2. ASSUME NEW u \in DOMAIN units', units'[u].evidence # NoEvidence
        PROVE  units'[u].evidence = units'[u].hash
    <3>1. units'[u] = UpsertedUnit(c, u)
      BY <2>1 DEF UpsertedUnits
    <3>2. Unchanged(c, u)
      BY <2>2, <3>1 DEF UpsertedUnit
    <3>3. /\ units'[u].evidence = units[u].evidence
          /\ units'[u].hash = Plan[c].units[u].hash
      BY <3>1, <3>2 DEF UpsertedUnit
    <3> QED
      BY <2>2, <3>2, <3>3 DEF EvidenceFits, Unchanged
  <2> QED
    BY <2>2 DEF EvidenceFits
<1>3. CASE \E u \in Units : FileEvidence(u)
  <2>1. PICK u \in DOMAIN units :
           units' = [units EXCEPT ![u] = [hash |-> units[u].hash,
                                          status |-> "completed",
                                          evidence |-> units[u].hash]]
    BY <1>3 DEF FileEvidence
  <2> QED
    BY <2>1 DEF EvidenceFits
<1>4. CASE \E u \in Units : Reopen(u)
  <2>1. PICK u \in DOMAIN units :
           /\ units[u].evidence = NoEvidence
           /\ units' = [units EXCEPT ![u] = [hash |-> units[u].hash,
                                             status |-> "reopened",
                                             evidence |-> units[u].evidence]]
    BY <1>4 DEF Reopen
  <2> QED
    BY <2>1 DEF EvidenceFits
<1> QED
  BY <1>1, <1>2, <1>3, <1>4
  DEF Next, vars, Call, Query, ChooseVersion, WriteFile, InsertFails,
      AppendSnapshotted, Return, Stop

\* units.evidence_hash, as `plan snapshot` rewrites it: evidence never outlives
\* the unit it was filed for.
THEOREM EvidenceAlwaysFits == Spec => []EvidenceFits
<1>1. Init => EvidenceFits
  BY DEF Init, EvidenceFits
<1> QED
  BY <1>1, StepEvidence, PTL DEF Spec

-----------------------------------------------------------------------------
(***************************************************************************)
(* Answers.                                                                *)
(***************************************************************************)

\* What a command knows of its version once it has one.
SInv ==
    /\ pc \in [Procs -> Labels]
    /\ job \in [Procs -> Contents \cup {NoContent}]
    /\ version = [p \in Procs |-> version[p]]
    /\ log \in Seq(versions)
    /\ \A r \in versions : r = [version |-> r.version, content |-> r.content]
    /\ \A r, s \in versions :
          r.version = s.version \/ r.content = s.content => r = s
    /\ \A p \in Procs :
          /\ pc[p] \in {"append", "done"} => Entry(p) \in versions
          /\ pc[p] = "done" => \E i \in DOMAIN log : log[i] = Entry(p)

\* A step of one process that keeps the rows and the events.
LEMMA Stays ==
    ASSUME SInv, NEW p \in Procs, NEW label \in Labels, NEW c, NEW v,
           c \in Contents \cup {NoContent},
           UNCHANGED <<versions, log>>,
           pc' = [pc EXCEPT ![p] = label],
           job' = [job EXCEPT ![p] = c],
           version' = [version EXCEPT ![p] = v],
           label # "done",
           label = "append" => [version |-> v, content |-> c] \in versions
    PROVE  SInv'
<1>1. /\ pc' \in [Procs -> Labels] /\ pc'[p] = label
      /\ job' \in [Procs -> Contents \cup {NoContent}] /\ job'[p] = c
      /\ version' = [q \in Procs |-> version'[q]] /\ version'[p] = v
      /\ \A q \in Procs : q # p =>
            pc'[q] = pc[q] /\ job'[q] = job[q] /\ version'[q] = version[q]
  BY DEF SInv
<1>2. ASSUME NEW q \in Procs
      PROVE  /\ pc'[q] \in {"append", "done"} => Entry(q)' \in versions'
             /\ pc'[q] = "done" => \E i \in DOMAIN log' : log'[i] = Entry(q)'
  <2>1. CASE q = p
    BY <1>1, <2>1 DEF Entry
  <2>2. CASE q # p
    BY <1>1, <2>2 DEF Entry, SInv
  <2> QED
    BY <2>1, <2>2
<1> QED
  BY <1>1, <1>2 DEF SInv

\* The transaction that inserts a row which no key forbids.
LEMMA InsertStep ==
    ASSUME SInv, NEW p \in Procs, Insert(p)
    PROVE  SInv'
<1>1. /\ versions' = versions \cup {Entry(p)}
      /\ \A row \in versions : row.version # version[p] /\ row.content # job[p]
      /\ pc[p] = "insert"
      /\ pc' = [pc EXCEPT ![p] = "append"]
      /\ UNCHANGED <<log, job, version>>
  BY DEF Insert, Conflict, Goto
<1>2. /\ pc' \in [Procs -> Labels] /\ pc'[p] = "append"
      /\ \A q \in Procs : q # p => pc'[q] = pc[q]
  BY <1>1 DEF SInv, Labels
<1>3. log' \in Seq(versions')
  BY <1>1 DEF SInv
<1>4. /\ \A r \in versions' : r = [version |-> r.version, content |-> r.content]
      /\ \A r, s \in versions' :
            r.version = s.version \/ r.content = s.content => r = s
  <2>1. Entry(p) = [version |-> Entry(p).version, content |-> Entry(p).content]
    BY DEF Entry
  <2>2. Entry(p).version = version[p] /\ Entry(p).content = job[p]
    BY DEF Entry
  <2> QED
    BY <1>1, <2>1, <2>2 DEF SInv
<1>5. \A q \in Procs : Entry(q)' = Entry(q)
  BY <1>1 DEF Entry
<1>6. ASSUME NEW q \in Procs
      PROVE  /\ pc'[q] \in {"append", "done"} => Entry(q)' \in versions'
             /\ pc'[q] = "done" => \E i \in DOMAIN log' : log'[i] = Entry(q)'
  BY <1>1, <1>2, <1>5 DEF SInv
<1> QED
  BY <1>1, <1>2, <1>3, <1>4, <1>6 DEF SInv

\* append_event: an event there is for the content is the event of its version.
LEMMA AppendStep ==
    ASSUME SInv, NEW p \in Procs, AppendSnapshotted(p)
    PROVE  SInv'
<1>1. /\ pc[p] = "append"
      /\ log' = IF \E i \in DOMAIN log : log[i].content = job[p]
                  THEN log ELSE Append(log, Entry(p))
      /\ pc' = [pc EXCEPT ![p] = "done"]
      /\ UNCHANGED <<versions, job, version>>
  BY DEF AppendSnapshotted, Goto
<1>2. /\ pc' \in [Procs -> Labels] /\ pc'[p] = "done"
      /\ \A q \in Procs : q # p => pc'[q] = pc[q]
  BY <1>1 DEF SInv, Labels
<1>3. Entry(p) \in versions
  BY <1>1 DEF SInv
<1>4. /\ log' \in Seq(versions')
      /\ \A i \in DOMAIN log : i \in DOMAIN log' /\ log'[i] = log[i]
      /\ \E i \in DOMAIN log' : log'[i] = Entry(p)
  <2>1. CASE \E i \in DOMAIN log : log[i].content = job[p]
    <3>1. PICK i \in DOMAIN log : log[i].content = job[p]
      BY <2>1
    <3>2. log[i] \in versions /\ Entry(p).content = job[p]
      BY DEF SInv, Entry
    <3>3. log[i] = Entry(p)
      BY <1>3, <3>1, <3>2 DEF SInv
    <3> QED
      BY <1>1, <2>1, <3>3 DEF SInv
  <2>2. CASE ~\E i \in DOMAIN log : log[i].content = job[p]
    <3>1. log' = Append(log, Entry(p)) /\ log \in Seq(versions)
      BY <1>1, <2>2 DEF SInv
    <3>2. /\ log' \in Seq(versions)
          /\ Len(log) + 1 \in DOMAIN log'
          /\ log'[Len(log) + 1] = Entry(p)
          /\ \A i \in DOMAIN log : i \in DOMAIN log' /\ log'[i] = log[i]
      BY <1>3, <3>1
    <3> QED
      BY <1>1, <3>2
  <2> QED
    BY <2>1, <2>2
<1>5. \A q \in Procs : Entry(q)' = Entry(q)
  BY <1>1 DEF Entry
<1>6. ASSUME NEW q \in Procs
      PROVE  /\ pc'[q] \in {"append", "done"} => Entry(q)' \in versions'
             /\ pc'[q] = "done" => \E i \in DOMAIN log' : log'[i] = Entry(q)'
  <2>1. CASE q = p
    BY <1>1, <1>3, <1>4, <1>5, <2>1
  <2>2. CASE q # p
    BY <1>1, <1>2, <1>4, <1>5, <2>2 DEF SInv
  <2> QED
    BY <2>1, <2>2
<1> QED
  BY <1>1, <1>2, <1>4, <1>6 DEF SInv

\* Every step preserves what commands know.
LEMMA StepSInv ==
    ASSUME SInv, [Next]_vars
    PROVE  SInv'
<1>1. ASSUME NEW p \in Procs, NEW c \in Contents, Call(p, c) PROVE SInv'
  <2>1. version' = [version EXCEPT ![p] = version[p]]
    BY <1>1 DEF Call, SInv
  <2> QED
    BY <1>1, <2>1, Stays DEF Call, Goto, Labels
<1>2. ASSUME NEW p \in Procs, Query(p) PROVE SInv'
  <2>1. job' = [job EXCEPT ![p] = job[p]] /\ job[p] \in Contents \cup {NoContent}
    BY <1>2 DEF Query, SInv
  <2>2. CASE \E row \in versions :
               /\ row.content = job[p]
               /\ version' = [version EXCEPT ![p] = row.version]
               /\ Goto(p, "append")
    <3>1. PICK row \in versions :
             /\ row.content = job[p]
             /\ version' = [version EXCEPT ![p] = row.version]
             /\ Goto(p, "append")
      BY <2>2
    <3>2. [version |-> row.version, content |-> job[p]] \in versions
      BY <3>1 DEF SInv
    <3> QED
      BY <1>2, <2>1, <3>1, <3>2, Stays DEF Query, Goto, Labels
  <2>3. CASE Goto(p, "choose") /\ UNCHANGED version
    <3>1. /\ pc' = [pc EXCEPT ![p] = "choose"]
          /\ version' = [version EXCEPT ![p] = version[p]]
          /\ UNCHANGED <<versions, log>>
      BY <1>2, <2>3 DEF Query, Goto, SInv
    <3>2. "choose" \in Labels
      BY DEF Labels
    <3> QED
      BY <2>1, <3>1, <3>2, Stays
  <2> QED
    BY <1>2, <2>2, <2>3 DEF Query
<1>3. ASSUME NEW p \in Procs, ChooseVersion(p) \/ WriteFile(p) PROVE SInv'
  <2>1. job' = [job EXCEPT ![p] = job[p]] /\ job[p] \in Contents \cup {NoContent}
    BY <1>3 DEF ChooseVersion, WriteFile, SInv
  <2>2. CASE ChooseVersion(p)
    BY <2>1, <2>2, Stays DEF ChooseVersion, Goto, Labels
  <2>3. CASE WriteFile(p)
    <3>1. version' = [version EXCEPT ![p] = version[p]]
      BY <2>3 DEF WriteFile, SInv
    <3> QED
      BY <2>1, <2>3, <3>1, Stays DEF WriteFile, Goto, Labels
  <2> QED
    BY <1>3, <2>2, <2>3
<1>4. ASSUME NEW p \in Procs, InsertFails(p) \/ Return(p) \/ Stop(p) PROVE SInv'
  BY <1>4, Stays DEF InsertFails, Return, Stop, Forget, Goto, Labels
<1>5. CASE UNCHANGED <<versions, log, pc, job, version>>
  BY <1>5 DEF SInv, Entry
<1> QED
  BY <1>1, <1>2, <1>3, <1>4, <1>5, InsertStep, AppendStep
  DEF Next, vars, FileEvidence, Reopen

\* SInv holds in every reachable state.
LEMMA SInvariant == Spec => []SInv
<1>1. Init => SInv
  BY DEF Init, SInv, Labels
<1> QED
  BY <1>1, StepSInv, PTL DEF Spec

\* A version has its event, or a command that is before it, or one that was
\* stopped there.
Told(row) ==
    \/ Logged(row)
    \/ row \in late
    \/ \E p \in Procs : pc[p] = "append" /\ Entry(p) = row

EventsTold == \A row \in versions : Told(row)

\* Every step keeps the versions told: events stay, and a command leaves
\* "append" with its event logged or its version among the late ones.
LEMMA StepTold ==
    ASSUME SInv, SInv', EventsTold, [Next]_vars
    PROVE  EventsTold'
<1>1. late \subseteq late'
  BY DEF Next, vars, history, Call, Query, ChooseVersion, WriteFile, Insert,
     InsertFails, AppendSnapshotted, Return, Stop, FileEvidence, Reopen
<1>2. ASSUME NEW i \in DOMAIN log
      PROVE  i \in DOMAIN log' /\ log'[i] = log[i]
  <2>1. ASSUME NEW e, log' = Append(log, e)
        PROVE  i \in DOMAIN log' /\ log'[i] = log[i]
    <3>1. DOMAIN log = 1..Len(log) /\ Len(log) \in Nat /\ log \in Seq(versions)
      BY DEF SInv
    <3> QED
      BY <2>1, <3>1
  <2>2. UNCHANGED log \/ \E e : log' = Append(log, e)
    BY DEF Next, vars, Call, Query, ChooseVersion, WriteFile, Insert,
       InsertFails, AppendSnapshotted, Return, Stop, FileEvidence, Reopen
  <2> QED
    BY <2>1, <2>2
<1>3. ASSUME NEW row \in versions
      PROVE  Told(row)'
  <2>1. CASE Logged(row)
    BY <1>2, <2>1 DEF Logged, Told
  <2>2. CASE row \in late
    BY <1>1, <2>2 DEF Told
  <2>3. CASE \E p \in Procs : pc[p] = "append" /\ Entry(p) = row
    <3>1. PICK p \in Procs : pc[p] = "append" /\ Entry(p) = row
      BY <2>3
    <3>2. CASE UNCHANGED <<pc[p], job[p], version[p]>>
      BY <3>1, <3>2 DEF Told, Entry
    <3>3. CASE Stop(p)
      BY <3>1, <3>3 DEF Told, Stop
    <3>4. CASE AppendSnapshotted(p)
      <4>1. pc'[p] = "done" /\ Entry(p)' = row
        BY <3>1, <3>4 DEF AppendSnapshotted, Goto, Entry, SInv
      <4> QED
        BY <4>1 DEF SInv, Told, Logged
    <3>5. \/ UNCHANGED <<pc[p], job[p], version[p]>>
          \/ Stop(p) \/ AppendSnapshotted(p)
      <4>1. ASSUME NEW q \in Procs, q # p,
                   \/ \E c \in Contents : Call(q, c)
                   \/ Query(q) \/ ChooseVersion(q) \/ WriteFile(q) \/ Insert(q)
                   \/ InsertFails(q) \/ AppendSnapshotted(q) \/ Return(q)
                   \/ Stop(q)
            PROVE  UNCHANGED <<pc[p], job[p], version[p]>>
        BY <4>1 DEF Call, Query, ChooseVersion, WriteFile, Insert, InsertFails,
           AppendSnapshotted, Return, Stop, Forget, Goto, SInv
      <4>2. ASSUME \/ \E c \in Contents : Call(p, c)
                   \/ Query(p) \/ ChooseVersion(p) \/ WriteFile(p) \/ Insert(p)
                   \/ InsertFails(p) \/ Return(p)
            PROVE  FALSE
        BY <3>1, <4>2 DEF Call, Query, ChooseVersion, WriteFile, Insert,
           InsertFails, Return
      <4> QED
        BY <4>1, <4>2 DEF Next, vars, FileEvidence, Reopen
    <3> QED
      BY <3>2, <3>3, <3>4, <3>5
  <2> QED
    BY <2>1, <2>2, <2>3 DEF EventsTold, Told
<1>4. ASSUME NEW row \in versions', row \notin versions
      PROVE  Told(row)'
  <2>1. PICK p \in Procs : Insert(p) /\ row = Entry(p)
    BY <1>4 DEF Next, vars, Call, Query, ChooseVersion, WriteFile, Insert,
       InsertFails, AppendSnapshotted, Return, Stop, FileEvidence, Reopen
  <2>2. pc'[p] = "append" /\ Entry(p)' = row
    BY <2>1 DEF Insert, Goto, Entry, SInv
  <2> QED
    BY <2>2 DEF Told
<1> QED
  BY <1>3, <1>4 DEF EventsTold

\* EventsTold holds in every reachable state.
LEMMA ToldInvariant == Spec => []EventsTold
<1>1. Init => EventsTold
  BY DEF Init, EventsTold
<1> QED
  BY <1>1, StepTold, SInvariant, PTL DEF Spec

\* _cmd_plan_snapshot: however commands race and stop, rows, events and answers
\* name one version for one content, and no version goes without its event
\* unless its command is before it or was stopped there.
THEOREM AnswersAlwaysAgree == Spec => []AnswersAgree
<1>1. SInv /\ EventsTold => AnswersAgree
  <2> SUFFICES ASSUME SInv, EventsTold PROVE AnswersAgree
    OBVIOUS
  <2>1. \A i \in DOMAIN log : log[i] \in versions
    BY DEF SInv
  <2>2. \A p \in Procs : pc[p] = "done" => Logged(Entry(p))
    BY DEF SInv, Logged
  <2> QED
    BY <2>1, <2>2 DEF SInv, EventsTold, Told, AnswersAgree
<1> QED
  BY <1>1, SInvariant, ToldInvariant, PTL

-----------------------------------------------------------------------------
(***************************************************************************)
(* Numbers.                                                                *)
(***************************************************************************)

\* A finite set of integers has a maximum: the element above which least is.
LEMMA FiniteMax ==
    ASSUME NEW S \in SUBSET Int, IsFiniteSet(S), S # {}
    PROVE  Max(S) \in S /\ \A y \in S : y <= Max(S)
<1> DEFINE Above(x) == {y \in S : y > x}
           T == {Above(x) : x \in S}
           R == StrictSubsetOrdering(S)
<1>1. T \subseteq FiniteSubsetsOf(S) /\ T # {}
  <2>1. \A x \in S : Above(x) \in SUBSET S /\ IsFiniteSet(Above(x))
    BY FS_Subset
  <2> QED
    BY <2>1 DEF FiniteSubsetsOf
<1>2. PICK A \in T : \A B \in T : <<B, A>> \notin R
  <2>1. IsWellFoundedOn(R, FiniteSubsetsOf(S))
    BY FS_StrictSubsetOrderingWellFounded
  <2> HIDE DEF R, T
  <2> QED
    BY <1>1, <2>1, WFMin
<1>3. PICK x \in S : A = Above(x)
  OBVIOUS
<1>4. ASSUME NEW y \in S, y > x
      PROVE  FALSE
  <2>1. Above(y) \subseteq Above(x) /\ y \in Above(x) /\ y \notin Above(y)
    <3>1. x \in Int /\ \A z \in S : z \in Int
      OBVIOUS
    <3>2. \A z \in S : z > y => z > x
      BY <1>4, <3>1
    <3>3. ~(y > y)
      BY <3>1
    <3>4. Above(y) \subseteq Above(x)
      BY <3>2
    <3> QED
      BY <1>4, <3>3, <3>4
  <2>2. <<Above(y), A>> \in R
    BY <1>3, <2>1 DEF StrictSubsetOrdering
  <2> QED
    BY <1>2, <2>2
<1>5. \A y \in S : x >= y
  BY <1>4
<1>6. Max(S) \in S /\ \A y \in S : Max(S) >= y
  BY <1>5, Zenon DEF Max
<1> QED
  BY <1>6

\* Files are finitely many, and numbers are at least those of the plans.
NumberInv ==
    /\ DOMAIN files \subseteq Nat \ {0}
    /\ IsFiniteSet(DOMAIN files)
    /\ \A n \in DOMAIN files : files[n] \in Contents
    /\ versions \subseteq Entries
    /\ \A row \in versions : row.version >= Plan[row.content].version
    /\ version \in [Procs -> Nat]
    /\ \A p \in Procs :
          /\ pc[p] # "idle" => job[p] \in Contents
          /\ pc[p] \in {"write", "insert"} => version[p] >= Plan[job[p]].version

\* create_snapshot: the number is new among the files.
LEMMA NextVersionIs ==
    ASSUME NumberInv, NEW c \in Contents
    PROVE  /\ NextVersion(c) \in Nat
           /\ NextVersion(c) >= Plan[c].version
           /\ \A n \in DOMAIN files : n < NextVersion(c)
<1>1. Plan[c].version \in Nat \ {0}
  BY PlanAssumption DEF PlanAssumption
<1>2. LatestVersion \in Nat /\ \A n \in DOMAIN files : n <= LatestVersion
  <2>1. /\ {0} \cup DOMAIN files \in SUBSET Nat
        /\ IsFiniteSet({0} \cup DOMAIN files)
    BY FS_AddElement, FS_EmptySet, FS_Union, FS_Singleton DEF NumberInv
  <2>2. {0} \cup DOMAIN files \in SUBSET Int /\ {0} \cup DOMAIN files # {}
    BY <2>1
  <2> DEFINE D == {0} \cup DOMAIN files
  <2>3. Max(D) \in D /\ \A y \in D : y <= Max(D)
    <3> HIDE DEF D
    <3> QED
      BY <2>1, <2>2, FiniteMax DEF D
  <2> QED
    BY <2>1, <2>3 DEF LatestVersion
<1> DEFINE P == {LatestVersion + 1, Plan[c].version}
<1>3. P \in SUBSET Int /\ P # {} /\ IsFiniteSet(P)
  <2>1. IsFiniteSet({LatestVersion + 1})
    BY FS_Singleton
  <2>2. P = {LatestVersion + 1} \cup {Plan[c].version}
    OBVIOUS
  <2> QED
    BY <1>1, <1>2, <2>1, <2>2, FS_AddElement
<1>4. Max(P) \in P /\ \A y \in P : y <= Max(P)
  <2> HIDE DEF P
  <2> QED
    BY <1>3, FiniteMax
<1>5. NextVersion(c) = Max(P)
  BY DEF NextVersion
<1>6. /\ NextVersion(c) \in {LatestVersion + 1, Plan[c].version}
      /\ LatestVersion + 1 <= NextVersion(c)
      /\ Plan[c].version <= NextVersion(c)
  BY <1>4, <1>5
<1> QED
  BY <1>1, <1>2, <1>6 DEF NumberInv

\* Every step preserves what is known of numbers.
LEMMA StepNumbers ==
    ASSUME SInv, NumberInv, [Next]_vars
    PROVE  NumberInv'
<1> USE DEF SInv
<1>1. ASSUME NEW p \in Procs, NEW c \in Contents, Call(p, c) PROVE NumberInv'
  BY <1>1 DEF Call, Goto, NumberInv
<1>2. ASSUME NEW p \in Procs, Query(p) PROVE NumberInv'
  <2>1. /\ UNCHANGED <<files, versions, job>> /\ pc[p] = "query"
        /\ \/ pc' = [pc EXCEPT ![p] = "choose"] /\ version' = version
           \/ /\ pc' = [pc EXCEPT ![p] = "append"]
              /\ \E row \in versions : version' = [version EXCEPT ![p] = row.version]
    BY <1>2 DEF Query, Goto
  <2>2. version' \in [Procs -> Nat] /\ \A q \in Procs \ {p} : version'[q] = version[q]
    BY <2>1 DEF NumberInv, Entries
  <2>3. pc'[p] \in {"choose", "append"} /\ \A q \in Procs \ {p} : pc'[q] = pc[q]
    BY <2>1
  <2> QED
    BY <2>1, <2>2, <2>3 DEF NumberInv
<1>3. ASSUME NEW p \in Procs, ChooseVersion(p) PROVE NumberInv'
  <2>1. job[p] \in Contents
    BY <1>3 DEF ChooseVersion, NumberInv
  <2>2. NextVersion(job[p]) \in Nat /\ NextVersion(job[p]) >= Plan[job[p]].version
    BY <2>1, NextVersionIs
  <2> QED
    BY <1>3, <2>2 DEF ChooseVersion, Goto, NumberInv
<1>4. ASSUME NEW p \in Procs, WriteFile(p) PROVE NumberInv'
  <2>1. /\ job[p] \in Contents /\ version[p] \in Nat
        /\ version[p] >= Plan[job[p]].version
        /\ Plan[job[p]].version \in Nat \ {0}
    BY <1>4, PlanAssumption DEF WriteFile, NumberInv, PlanAssumption
  <2>2. version[p] \in Nat \ {0}
    BY <2>1
  <2>3. /\ DOMAIN files' = DOMAIN files \cup {version[p]}
        /\ \A n \in DOMAIN files' :
              files'[n] = IF n = version[p] THEN job[p] ELSE files[n]
    BY <1>4 DEF WriteFile
  <2>4. IsFiniteSet(DOMAIN files')
    <3>1. IsFiniteSet(DOMAIN files)
      BY DEF NumberInv
    <3>2. IsFiniteSet(DOMAIN files \cup {version[p]})
      BY <3>1, FS_AddElement
    <3> QED
      BY <2>3, <3>2
  <2>5. /\ \A q \in Procs : pc'[q] = IF q = p THEN "insert" ELSE pc[q]
        /\ UNCHANGED <<versions, version, job>>
        /\ pc[p] = "write"
    BY <1>4 DEF WriteFile, Goto
  <2> QED
    BY <2>1, <2>2, <2>3, <2>4, <2>5 DEF NumberInv
<1>5. ASSUME NEW p \in Procs, Insert(p) PROVE NumberInv'
  <2>1. /\ job[p] \in Contents /\ version[p] \in Nat
        /\ version[p] >= Plan[job[p]].version
        /\ Plan[job[p]].version \in Nat \ {0}
    BY <1>5, PlanAssumption DEF Insert, NumberInv, PlanAssumption
  <2>2. Entry(p) \in Entries /\ Entry(p).version = version[p] /\ Entry(p).content = job[p]
    BY <2>1 DEF Entry, Entries
  <2>3. /\ versions' = versions \cup {Entry(p)}
        /\ UNCHANGED <<files, job, version>>
        /\ \A q \in Procs : pc'[q] = IF q = p THEN "append" ELSE pc[q]
        /\ pc[p] = "insert"
    BY <1>5 DEF Insert, Goto
  <2> QED
    BY <2>1, <2>2, <2>3 DEF NumberInv
<1>6. ASSUME NEW p \in Procs, InsertFails(p) \/ Return(p) \/ Stop(p) PROVE NumberInv'
  <2>1. /\ UNCHANGED <<files, versions>>
        /\ pc' = [pc EXCEPT ![p] = "idle"]
        /\ job' = [job EXCEPT ![p] = NoContent]
        /\ version' = [version EXCEPT ![p] = 0]
    BY <1>6 DEF InsertFails, Return, Stop, Forget, Goto
  <2>2. /\ version' \in [Procs -> Nat]
        /\ \A q \in Procs : q # p =>
              pc'[q] = pc[q] /\ job'[q] = job[q] /\ version'[q] = version[q]
        /\ pc'[p] = "idle"
    BY <2>1 DEF NumberInv
  <2> QED
    BY <2>1, <2>2 DEF NumberInv
<1>7. ASSUME NEW p \in Procs, AppendSnapshotted(p) PROVE NumberInv'
  BY <1>7 DEF AppendSnapshotted, Goto, NumberInv
<1>8. CASE UNCHANGED <<files, versions, pc, job, version>>
  BY <1>8 DEF NumberInv
<1> QED
  BY <1>1, <1>2, <1>3, <1>4, <1>5, <1>6, <1>7, <1>8
  DEF Next, vars, FileEvidence, Reopen

\* NumberInv holds in every reachable state.
LEMMA NumberInvariant == Spec => []NumberInv
<1>1. Init => NumberInv
  BY FS_EmptySet DEF Init, NumberInv
<1> QED
  BY <1>1, StepNumbers, SInvariant, PTL DEF Spec

-----------------------------------------------------------------------------
(***************************************************************************)
(* Types.                                                                  *)
(***************************************************************************)

UnitRow == [hash : Hashes, status : PlanStatuses \cup {"reopened"},
            evidence : Hashes \cup {NoEvidence}]

\* The rest of the types.
RestOK ==
    /\ DOMAIN units \subseteq Units
    /\ \A u \in DOMAIN units : units[u] \in UnitRow
    /\ calls \in 0..MaxCalls
    /\ stops \in 0..MaxStops
    /\ overlapped \in BOOLEAN
    /\ contested \subseteq Nat
    /\ late \subseteq Entries

\* The units of a plan get rows of their type.
LEMMA UpsertedOK ==
    ASSUME RestOK, NEW c \in Contents
    PROVE  /\ DOMAIN UpsertedUnits(c) = DOMAIN Plan[c].units
           /\ DOMAIN UpsertedUnits(c) \subseteq Units
           /\ \A u \in DOMAIN UpsertedUnits(c) : UpsertedUnits(c)[u] \in UnitRow
<1>1. /\ DOMAIN UpsertedUnits(c) = DOMAIN Plan[c].units
      /\ DOMAIN Plan[c].units \subseteq Units
  BY PlanAssumption DEF PlanAssumption, UpsertedUnits
<1>2. ASSUME NEW u \in DOMAIN Plan[c].units
      PROVE  UpsertedUnit(c, u) \in UnitRow
  <2>1. Plan[c].units[u] \in [hash : Hashes, status : PlanStatuses]
    BY PlanAssumption DEF PlanAssumption
  <2>2. CASE Unchanged(c, u)
    <3>1. units[u] \in UnitRow
      BY <2>2 DEF Unchanged, RestOK
    <3> QED
      BY <2>1, <2>2, <3>1 DEF UpsertedUnit, UnitRow
  <2>3. CASE ~Unchanged(c, u)
    BY <2>1, <2>3 DEF UpsertedUnit, UnitRow
  <2> QED
    BY <2>2, <2>3
<1> QED
  BY <1>1, <1>2 DEF UpsertedUnits

\* Every step preserves the rest of the types.
LEMMA StepRest ==
    ASSUME SInv, NumberInv, RestOK, [Next]_vars
    PROVE  RestOK'
<1>1. CASE UNCHANGED <<units, calls, stops, history>>
  BY <1>1 DEF RestOK, history
<1>2. ASSUME NEW p \in Procs, NEW c \in Contents, Call(p, c) PROVE RestOK'
  BY <1>2, PlanAssumption DEF Call, RestOK, PlanAssumption
<1>3. ASSUME NEW p \in Procs, Insert(p) PROVE RestOK'
  <2>1. job[p] \in Contents
    BY <1>3 DEF Insert, NumberInv
  <2>2. units' = UpsertedUnits(job[p]) /\ UNCHANGED <<calls, stops, history>>
    BY <1>3 DEF Insert
  <2> QED
    BY <2>1, <2>2, UpsertedOK DEF RestOK, history
<1>4. ASSUME NEW p \in Procs, Stop(p) PROVE RestOK'
  <2>1. pc[p] = "append" => Entry(p) \in Entries
    BY DEF SInv, NumberInv
  <2> QED
    BY <1>4, <2>1, PlanAssumption DEF Stop, RestOK, PlanAssumption
<1>5. ASSUME NEW u \in Units, FileEvidence(u) \/ Reopen(u) PROVE RestOK'
  <2>1. u \in DOMAIN units /\ units[u] \in UnitRow
    BY <1>5 DEF FileEvidence, Reopen, RestOK
  <2>2. /\ \E row \in UnitRow : units' = [units EXCEPT ![u] = row]
        /\ UNCHANGED <<calls, stops, history>>
    BY <1>5, <2>1 DEF FileEvidence, Reopen, UnitRow, PlanStatuses
  <2> QED
    BY <2>1, <2>2 DEF RestOK, history
<1>6. ASSUME NEW p \in Procs, ChooseVersion(p) PROVE RestOK'
  <2>1. job[p] \in Contents
    BY <1>6 DEF ChooseVersion, NumberInv
  <2>2. Contested(p, NextVersion(job[p])) \subseteq Nat
    BY <2>1, NextVersionIs DEF Contested
  <2> QED
    BY <1>6, <2>2 DEF ChooseVersion, RestOK
<1> QED
  BY <1>1, <1>2, <1>3, <1>4, <1>5, <1>6
  DEF Next, vars, history, Query, WriteFile, InsertFails,
      AppendSnapshotted, Return

\* RestOK holds in every reachable state.
LEMMA RestInvariant == Spec => []RestOK
<1>1. Init => RestOK
  <2> SUFFICES ASSUME Init PROVE RestOK
    OBVIOUS
  <2>1. DOMAIN units = {}
    BY DEF Init
  <2>2. calls \in 0..MaxCalls /\ stops \in 0..MaxStops
    BY PlanAssumption DEF Init, PlanAssumption
  <2> QED
    BY <2>1, <2>2 DEF Init, RestOK
<1> QED
  BY <1>1, StepRest, SInvariant, NumberInvariant, PTL DEF Spec

\* Type correctness: files, rows and events are well formed, and a version is
\* never below the number its plan gives itself.
THEOREM TypeCorrect == Spec => []TypeOK
<1>1. SInv /\ NumberInv /\ RestOK => TypeOK
  <2> SUFFICES ASSUME SInv, NumberInv, RestOK PROVE TypeOK
    OBVIOUS
  <2>1. log \in Seq(Entries)
    BY DEF SInv, NumberInv
  <2> QED
    BY <2>1 DEF SInv, NumberInv, RestOK, TypeOK, UnitRow
<1> QED
  BY <1>1, SInvariant, NumberInvariant, RestInvariant, PTL

-----------------------------------------------------------------------------
(***************************************************************************)
(* Files.                                                                  *)
(***************************************************************************)

\* A number that is not contested belongs to the one command that chose it:
\* nothing is stored under it before that command writes, and its file after.
FileInv ==
    /\ FilesMatchRows
    /\ \A p \in Procs : pc[p] = "insert" =>
          /\ version[p] \in DOMAIN files
          /\ files[version[p]] = job[p] \/ version[p] \in contested
    /\ \A p \in Procs : pc[p] = "write" /\ version[p] \notin contested =>
          /\ version[p] \notin DOMAIN files
          /\ \A q \in Procs \ {p} : pc[q] = "write" => version[q] # version[p]

\* A step of one command that writes no file and no row.
LEMMA SameFiles ==
    ASSUME SInv, FileInv, NEW p \in Procs,
           UNCHANGED <<files, versions, contested>>,
           pc'[p] \notin {"write", "insert"},
           \A q \in Procs \ {p} :
              pc'[q] = pc[q] /\ job'[q] = job[q] /\ version'[q] = version[q]
    PROVE  FileInv'
BY DEF FileInv, FilesMatchRows

\* Every step keeps the files with their versions.
LEMMA StepFiles ==
    ASSUME SInv, NumberInv, FileInv, [Next]_vars
    PROVE  FileInv'
<1>1. ASSUME NEW p \in Procs,
             \/ \E c \in Contents : Call(p, c)
             \/ Query(p) \/ InsertFails(p) \/ AppendSnapshotted(p)
             \/ Return(p) \/ Stop(p)
      PROVE  FileInv'
  <2>1. /\ UNCHANGED <<files, versions, contested>>
        /\ pc'[p] \notin {"write", "insert"}
        /\ \A q \in Procs \ {p} :
              pc'[q] = pc[q] /\ job'[q] = job[q] /\ version'[q] = version[q]
    BY <1>1 DEF Call, Query, InsertFails, AppendSnapshotted, Return, Stop,
       Forget, Goto, history, SInv
  <2> QED
    BY <2>1, SameFiles
<1>2. ASSUME NEW p \in Procs, ChooseVersion(p) PROVE FileInv'
  <2> DEFINE v == NextVersion(job[p])
  <2>1. /\ UNCHANGED <<files, versions, job>> /\ pc[p] = "choose"
        /\ pc'[p] = "write" /\ version'[p] = v
        /\ \A q \in Procs \ {p} : pc'[q] = pc[q] /\ version'[q] = version[q]
        /\ contested' = contested \cup Contested(p, v)
    BY <1>2 DEF ChooseVersion, Goto, SInv, NumberInv
  <2>2. v \notin DOMAIN files
    <3>1. job[p] \in Contents
      BY <2>1 DEF NumberInv
    <3>2. v \in Nat /\ \A n \in DOMAIN files : n < v
      BY <3>1, NextVersionIs
    <3> QED
      BY <3>2
  <2>3. v \notin contested' =>
           \A q \in Procs \ {p} : pc[q] = "write" => version[q] # v
    BY <2>1 DEF Contested
  <2> HIDE DEF v
  <2>4. FilesMatchRows'
    BY <2>1 DEF FileInv, FilesMatchRows
  <2> QED
    BY <2>1, <2>2, <2>3, <2>4 DEF FileInv
<1>3. ASSUME NEW p \in Procs, WriteFile(p) PROVE FileInv'
  <2>1. /\ UNCHANGED <<versions, job, version, contested>> /\ pc[p] = "write"
        /\ pc'[p] = "insert" /\ \A q \in Procs \ {p} : pc'[q] = pc[q]
        /\ DOMAIN files' = DOMAIN files \cup {version[p]}
        /\ files'[version[p]] = job[p]
        /\ \A n \in DOMAIN files : n # version[p] => files'[n] = files[n]
    BY <1>3 DEF WriteFile, Goto, history, SInv
  <2>2. version[p] \in contested \/ version[p] \notin DOMAIN files
    BY <2>1 DEF FileInv
  <2>3. FilesMatchRows'
    BY <2>1, <2>2 DEF FileInv, FilesMatchRows
  <2> QED
    BY <2>1, <2>2, <2>3 DEF FileInv
<1>4. ASSUME NEW p \in Procs, Insert(p) PROVE FileInv'
  <2>1. /\ UNCHANGED <<files, job, version, contested>> /\ pc[p] = "insert"
        /\ versions' = versions \cup {Entry(p)}
        /\ pc'[p] = "append" /\ \A q \in Procs \ {p} : pc'[q] = pc[q]
    BY <1>4 DEF Insert, Goto, history, SInv
  <2>2. Entry(p).version = version[p] /\ Entry(p).content = job[p]
    BY DEF Entry
  <2>3. FilesMatchRows'
    BY <2>1, <2>2 DEF FileInv, FilesMatchRows
  <2> QED
    BY <2>1, <2>3 DEF FileInv
<1>5. CASE UNCHANGED <<files, versions, pc, job, version, contested>>
  BY <1>5 DEF FileInv, FilesMatchRows
<1> QED
  BY <1>1, <1>2, <1>3, <1>4, <1>5
  DEF Next, vars, history, FileEvidence, Reopen

\* FileInv holds in every reachable state.
LEMMA FileInvariant == Spec => []FileInv
<1>1. Init => FileInv
  BY DEF Init, FileInv, FilesMatchRows
<1> QED
  BY <1>1, StepFiles, SInvariant, NumberInvariant, PTL DEF Spec

\* write_snapshot: however commands race and stop, a version has a file, and it
\* holds the version's content unless two commands had chosen the number before
\* either wrote it.
THEOREM FilesAreOfTheirRows == Spec => []FilesMatchRows
<1>1. FileInv => FilesMatchRows
  BY DEF FileInv
<1> QED
  BY <1>1, FileInvariant, PTL

-----------------------------------------------------------------------------
(***************************************************************************)
(* Commands that run one after the other.                                  *)
(***************************************************************************)

\* What a command alone knows: its content has no row, its number is new among
\* the files, and then above every version.
Undisturbed(p) ==
    /\ pc[p] \in {"choose", "write", "insert"} =>
          \A row \in versions : row.content # job[p]
    /\ pc[p] = "write" => \A n \in DOMAIN files : n < version[p]
    /\ pc[p] = "insert" =>
          \A row \in versions : row.version < version[p]

SerialInv ==
    ~overlapped =>
        /\ \A p, q \in Procs : UnderWay(p) /\ UnderWay(q) => p = q
        /\ \A p \in Procs : Undisturbed(p)

\* A step of one command, when no other is under way.
LEMMA Alone ==
    ASSUME SInv, SerialInv, ~overlapped', NEW p \in Procs,
           NEW label \in Labels,
           pc' = [pc EXCEPT ![p] = label],
           UnderWay(p), UNCHANGED overlapped,
           label \in {"choose", "write", "insert"} => Undisturbed(p)'
    PROVE  SerialInv'
<1>1. pc'[p] = label /\ \A q \in Procs \ {p} : pc'[q] = pc[q]
  BY DEF SInv
<1>2. ASSUME NEW q \in Procs, NEW r \in Procs, UnderWay(q)', UnderWay(r)'
      PROVE  q = r
  BY <1>1, <1>2 DEF SerialInv, UnderWay
<1>3. ASSUME NEW q \in Procs
      PROVE  Undisturbed(q)'
  <2>1. CASE q = p
    BY <1>1, <2>1 DEF Undisturbed
  <2>2. CASE q # p
    <3>1. ~UnderWay(q)
      BY <2>2 DEF SerialInv
    <3> QED
      BY <1>1, <2>2, <3>1 DEF Undisturbed, UnderWay
  <2> QED
    BY <2>1, <2>2
<1> QED
  BY <1>2, <1>3 DEF SerialInv

\* Every step preserves what a command alone knows.
LEMMA StepSerial ==
    ASSUME SInv, NumberInv, RestOK, FileInv, SerialInv, [Next]_vars
    PROVE  SerialInv'
<1> SUFFICES ASSUME ~overlapped' PROVE SerialInv'
  BY DEF SerialInv
<1>1. ASSUME NEW p \in Procs, NEW c \in Contents, Call(p, c) PROVE SerialInv'
  <2>1. ~overlapped /\ \A q \in Procs : ~UnderWay(q)
    BY <1>1 DEF Call, RestOK
  <2>2. /\ pc' = [pc EXCEPT ![p] = "query"] /\ "query" \in Labels
        /\ UNCHANGED <<files, versions, version>>
        /\ job' = [job EXCEPT ![p] = c]
    BY <1>1 DEF Call, Goto, Labels
  <2>3. ASSUME NEW q \in Procs
        PROVE  ~UnderWay(q)' \/ q = p
    BY <2>1, <2>2 DEF UnderWay, SInv
  <2>4. pc'[p] = "query"
    BY <2>2 DEF SInv
  <2>5. ASSUME NEW q \in Procs
        PROVE  Undisturbed(q)'
    BY <2>3, <2>4 DEF Undisturbed, UnderWay
  <2> QED
    BY <2>1, <2>2, <2>3, <2>5 DEF SerialInv
<1>2. ASSUME NEW p \in Procs, Query(p) PROVE SerialInv'
  <2>1. UnderWay(p) /\ UNCHANGED <<overlapped, files, versions, job>>
    BY <1>2 DEF Query, UnderWay, history
  <2>2. PICK label \in {"append", "choose"} :
           /\ pc' = [pc EXCEPT ![p] = label]
           /\ label = "choose" => \A row \in versions : row.content # job[p]
    <3>1. CASE \E row \in versions : row.content = job[p]
      BY <1>2, <3>1 DEF Query, Goto
    <3>2. CASE \A row \in versions : row.content # job[p]
      BY <1>2, <3>2 DEF Query, Goto
    <3> QED
      BY <3>1, <3>2
  <2>3. label \in Labels /\ pc'[p] = label
    BY <2>2 DEF Labels, SInv
  <2>4. label \in {"choose", "write", "insert"} => Undisturbed(p)'
    BY <2>1, <2>2, <2>3 DEF Undisturbed
  <2> QED
    BY <2>1, <2>2, <2>3, <2>4, Alone DEF SerialInv
<1>3. ASSUME NEW p \in Procs, ChooseVersion(p) PROVE SerialInv'
  <2>1. /\ UnderWay(p) /\ UNCHANGED <<overlapped, files, versions, job>>
        /\ pc[p] = "choose" /\ pc' = [pc EXCEPT ![p] = "write"]
        /\ "write" \in Labels /\ pc'[p] = "write"
        /\ version'[p] = NextVersion(job[p])
    BY <1>3 DEF ChooseVersion, UnderWay, Goto, Labels, SInv, NumberInv
  <2>2. job[p] \in Contents
    BY <2>1 DEF NumberInv
  <2>3. \A n \in DOMAIN files : n < version'[p]
    BY <2>1, <2>2, NextVersionIs
  <2>4. Undisturbed(p)'
    BY <2>1, <2>3 DEF Undisturbed, SerialInv
  <2> QED
    BY <2>1, <2>4, Alone DEF SerialInv
<1>4. ASSUME NEW p \in Procs, WriteFile(p) PROVE SerialInv'
  <2>1. /\ UnderWay(p) /\ UNCHANGED <<overlapped, versions, job, version>>
        /\ pc[p] = "write" /\ pc' = [pc EXCEPT ![p] = "insert"]
        /\ "insert" \in Labels /\ pc'[p] = "insert"
    BY <1>4 DEF WriteFile, UnderWay, Goto, Labels, SInv, history
  <2>2. \A n \in DOMAIN files : n < version[p]
    BY <2>1 DEF SerialInv, Undisturbed
  <2>3. \A row \in versions : row.version < version[p]
    BY <2>2 DEF FileInv, FilesMatchRows
  <2>4. Undisturbed(p)'
    BY <2>1, <2>3 DEF Undisturbed, SerialInv
  <2> QED
    BY <2>1, <2>4, Alone
<1>5. ASSUME NEW p \in Procs, Insert(p) PROVE SerialInv'
  <2>1. /\ UnderWay(p) /\ UNCHANGED overlapped
        /\ pc' = [pc EXCEPT ![p] = "append"] /\ "append" \in Labels
    BY <1>5 DEF Insert, UnderWay, Goto, Labels, history
  <2> QED
    BY <2>1, Alone
<1>6. ASSUME NEW p \in Procs, AppendSnapshotted(p) PROVE SerialInv'
  <2>1. /\ UnderWay(p) /\ UNCHANGED overlapped
        /\ pc' = [pc EXCEPT ![p] = "done"] /\ "done" \in Labels
    BY <1>6 DEF AppendSnapshotted, UnderWay, Goto, Labels, history
  <2> QED
    BY <2>1, Alone DEF SerialInv
<1>7. ASSUME NEW p \in Procs, InsertFails(p) \/ Return(p) \/ Stop(p)
      PROVE  SerialInv'
  <2>1. /\ UNCHANGED <<overlapped, files, versions>>
        /\ pc' = [pc EXCEPT ![p] = "idle"]
        /\ job' = [job EXCEPT ![p] = NoContent]
        /\ version' = [version EXCEPT ![p] = 0]
    BY <1>7 DEF InsertFails, Return, Stop, Forget, Goto, history
  <2>2. /\ pc'[p] = "idle"
        /\ \A q \in Procs \ {p} :
              pc'[q] = pc[q] /\ job'[q] = job[q] /\ version'[q] = version[q]
    BY <2>1 DEF SInv
  <2>3. ASSUME NEW q \in Procs
        PROVE  /\ UnderWay(q)' => q # p /\ UnderWay(q)
               /\ Undisturbed(q)'
    <3>1. CASE q = p
      BY <2>2, <3>1 DEF UnderWay, Undisturbed
    <3>2. CASE q # p
      BY <2>1, <2>2, <3>2 DEF UnderWay, Undisturbed, SerialInv
    <3> QED
      BY <3>1, <3>2
  <2> QED
    BY <2>1, <2>3 DEF SerialInv
<1>8. CASE UNCHANGED <<files, versions, pc, job, version, overlapped>>
  BY <1>8 DEF SerialInv, Undisturbed, UnderWay
<1> QED
  BY <1>1, <1>2, <1>3, <1>4, <1>5, <1>6, <1>7, <1>8
  DEF Next, vars, history, FileEvidence, Reopen

\* SerialInv holds in every reachable state.
LEMMA SerialInvariant == Spec => []SerialInv
<1>1. Init => SerialInv
  BY DEF Init, SerialInv, UnderWay, Undisturbed
<1> QED
  BY <1>1, StepSerial, SInvariant, NumberInvariant, RestInvariant,
     FileInvariant, PTL DEF Spec

\* _cmd_plan_snapshot: commands that run one after the other never meet a key
\* of plan_versions, whatever stopped ones left behind.
THEOREM InsertsSucceedAlone == Spec => []UndisturbedInserts
<1>1. SInv /\ NumberInv /\ SerialInv => UndisturbedInserts
  <2> SUFFICES ASSUME SInv, NumberInv, SerialInv, ~overlapped, NEW p \in Procs,
                      pc[p] = "insert", NEW row \in versions
               PROVE  row.version # version[p] /\ row.content # job[p]
    BY DEF UndisturbedInserts, Conflict
  <2>1. row.version < version[p] /\ row.content # job[p]
    BY DEF SerialInv, Undisturbed
  <2>2. row.version \in Nat /\ version[p] \in Nat
    BY DEF NumberInv, Entries
  <2> QED
    BY <2>1, <2>2
<1> QED
  BY <1>1, SInvariant, NumberInvariant, SerialInvariant, PTL

-----------------------------------------------------------------------------
(***************************************************************************)
(* The newest version.                                                     *)
(***************************************************************************)

\* The units are those of the newest row.
Current(top) ==
    /\ \A row \in versions : row.version <= top.version
    /\ DOMAIN units = DOMAIN Plan[top.content].units
    /\ \A u \in DOMAIN units : units[u].hash = Plan[top.content].units[u].hash

CurrentInv ==
    ~overlapped /\ versions # {} => \E top \in versions : Current(top)

\* A row is inserted: it is the newest.
LEMMA InsertCurrent ==
    ASSUME SInv, NumberInv, SerialInv, NEW p \in Procs, Insert(p), ~overlapped
    PROVE  Current(Entry(p))'
<1>1. /\ pc[p] = "insert"
      /\ versions' = versions \cup {Entry(p)}
      /\ units' = UpsertedUnits(job[p])
      /\ UNCHANGED <<job, version>>
  BY DEF Insert, Goto
<1>2. /\ Entry(p)' = Entry(p)
      /\ Entry(p).version = version[p] /\ Entry(p).content = job[p]
  BY <1>1 DEF Entry
<1>3. \A row \in versions' : row.version <= Entry(p).version
  <2>1. \A row \in versions : row.version < version[p] /\ row.version \in Nat
    BY <1>1 DEF SerialInv, Undisturbed, NumberInv, Entries
  <2>2. version[p] \in Nat
    BY DEF NumberInv
  <2> QED
    BY <1>1, <1>2, <2>1, <2>2
<1>4. /\ DOMAIN units' = DOMAIN Plan[job[p]].units
      /\ \A u \in DOMAIN units' : units'[u].hash = Plan[job[p]].units[u].hash
  BY <1>1 DEF UpsertedUnits, UpsertedUnit
<1> QED
  BY <1>2, <1>3, <1>4 DEF Current

\* Every step leaves the units with the newest row.
LEMMA StepCurrent ==
    ASSUME SInv, NumberInv, RestOK, SerialInv, CurrentInv, [Next]_vars
    PROVE  CurrentInv'
<1> SUFFICES ASSUME ~overlapped', versions' # {}
             PROVE  \E top \in versions' : Current(top)'
  BY DEF CurrentInv
<1>1. ~overlapped
  BY DEF Next, vars, history, Call, Query, ChooseVersion, WriteFile, Insert,
     InsertFails, AppendSnapshotted, Return, Stop, FileEvidence, Reopen, RestOK
<1>2. CASE \E p \in Procs : Insert(p)
  <2>1. PICK p \in Procs : Insert(p)
    BY <1>2
  <2>2. Entry(p)' = Entry(p) /\ Entry(p) \in versions'
    BY <2>1 DEF Insert, Entry
  <2> QED
    BY <1>1, <2>1, <2>2, InsertCurrent
<1>3. CASE ~\E p \in Procs : Insert(p)
  <2>1. versions' = versions
    BY <1>3 DEF Next, vars, Call, Query, ChooseVersion, WriteFile, InsertFails,
       AppendSnapshotted, Return, Stop, FileEvidence, Reopen
  <2>2. PICK top \in versions : Current(top)
    BY <1>1, <2>1 DEF CurrentInv
  <2>3. /\ DOMAIN units' = DOMAIN units
        /\ \A u \in DOMAIN units : units'[u].hash = units[u].hash
    <3>1. CASE UNCHANGED units
      BY <3>1
    <3>2. ASSUME NEW u \in Units, FileEvidence(u) \/ Reopen(u)
          PROVE  /\ DOMAIN units' = DOMAIN units
                 /\ \A v \in DOMAIN units : units'[v].hash = units[v].hash
      BY <3>2 DEF FileEvidence, Reopen
    <3> QED
      BY <1>3, <3>1, <3>2 DEF Next, vars, Call, Query, ChooseVersion, WriteFile,
         InsertFails, AppendSnapshotted, Return, Stop
  <2> QED
    BY <2>1, <2>2, <2>3 DEF Current
<1> QED
  BY <1>2, <1>3

\* CurrentInv holds in every reachable state.
LEMMA CurrentInvariant == Spec => []CurrentInv
<1>1. Init => CurrentInv
  BY DEF Init, CurrentInv
<1> QED
  BY <1>1, StepCurrent, SInvariant, NumberInvariant, RestInvariant,
     SerialInvariant, PTL DEF Spec

\* Events come in the order of their versions, but for late ones; what a
\* command is to append is there, late, or of the newest version.
OrderInv ==
    ~overlapped =>
        /\ \A i, j \in DOMAIN log :
              i < j => log[i].version < log[j].version \/ log[j] \in late
        /\ \A p \in Procs : pc[p] = "append" =>
              \/ Logged(Entry(p))
              \/ Entry(p) \in late
              \/ \A row \in versions : row.version <= Entry(p).version

\* Without a step to "append", and without rows or events, the order stays.
LEMMA SameOrder ==
    ASSUME SInv, OrderInv, ~overlapped, UNCHANGED <<versions, log>>,
           late \subseteq late',
           \A q \in Procs : pc'[q] = "append" =>
              /\ pc[q] = "append"
              /\ UNCHANGED <<job[q], version[q]>>
    PROVE  OrderInv'
<1>1. \A q \in Procs : pc'[q] = "append" => Entry(q)' = Entry(q)
  BY DEF Entry
<1> QED
  BY <1>1 DEF OrderInv, Logged

\* Every step keeps the order.
LEMMA StepOrder ==
    ASSUME SInv, NumberInv, RestOK, SerialInv, EventsTold, OrderInv, [Next]_vars
    PROVE  OrderInv'
<1> SUFFICES ASSUME ~overlapped' PROVE OrderInv'
  BY DEF OrderInv
<1>1. ~overlapped
  BY DEF Next, vars, history, Call, Query, ChooseVersion, WriteFile, Insert,
     InsertFails, AppendSnapshotted, Return, Stop, FileEvidence, Reopen, RestOK
<1>2. ASSUME NEW p \in Procs,
             \/ \E c \in Contents : Call(p, c)
             \/ ChooseVersion(p) \/ WriteFile(p) \/ InsertFails(p)
             \/ Return(p) \/ Stop(p)
      PROVE  OrderInv'
  <2>1. /\ UNCHANGED <<versions, log>> /\ late \subseteq late'
        /\ pc'[p] # "append"
        /\ \A q \in Procs \ {p} :
              pc'[q] = pc[q] /\ job'[q] = job[q] /\ version'[q] = version[q]
    BY <1>2 DEF Call, ChooseVersion, WriteFile, InsertFails, Return, Stop,
       Forget, Goto, history, SInv
  <2> QED
    BY <1>1, <2>1, SameOrder
<1>3. ASSUME NEW p \in Procs, Query(p) PROVE OrderInv'
  <2>1. /\ UNCHANGED <<versions, log, job, late>> /\ pc[p] = "query"
        /\ \A q \in Procs \ {p} : pc'[q] = pc[q] /\ version'[q] = version[q]
    BY <1>3 DEF Query, Goto, history, SInv
  <2>2. CASE pc'[p] = "append"
    <3>1. Entry(p)' \in versions
      <4>1. PICK row \in versions :
               row.content = job[p] /\ version'[p] = row.version
        BY <1>3, <2>2 DEF Query, Goto, SInv
      <4>2. Entry(p)' = [version |-> row.version, content |-> row.content]
        BY <2>1, <4>1 DEF Entry
      <4> QED
        BY <4>1, <4>2 DEF SInv
    <3>2. PICK row \in versions : row = Entry(p)'
      BY <3>1
    <3>3. ~\E q \in Procs : pc[q] = "append"
      BY <1>1, <2>1 DEF SerialInv, UnderWay
    <3>4. Logged(row) \/ row \in late
      BY <3>3 DEF EventsTold, Told
    <3>5. \A q \in Procs : pc'[q] = "append" => q = p
      BY <2>1, <3>3
    <3> QED
      BY <1>1, <2>1, <3>2, <3>4, <3>5 DEF OrderInv, Logged
  <2>3. CASE pc'[p] # "append"
    BY <1>1, <2>1, <2>3, SameOrder
  <2> QED
    BY <2>2, <2>3
<1>4. ASSUME NEW p \in Procs, Insert(p) PROVE OrderInv'
  <2>1. /\ UNCHANGED <<log, job, version, late>> /\ pc[p] = "insert"
        /\ versions' = versions \cup {Entry(p)}
        /\ \A q \in Procs \ {p} : pc'[q] = pc[q]
    BY <1>4 DEF Insert, Goto, history, SInv
  <2>2. \A q \in Procs : pc'[q] = "append" => q = p
    BY <1>1, <2>1 DEF SerialInv, UnderWay
  <2>3. Entry(p)' = Entry(p) /\ Entry(p).version = version[p]
    BY <2>1 DEF Entry
  <2>4. \A row \in versions' : row.version <= Entry(p).version
    <3>1. \A row \in versions : row.version < version[p] /\ row.version \in Nat
      BY <1>1, <2>1 DEF SerialInv, Undisturbed, NumberInv, Entries
    <3>2. version[p] \in Nat
      BY DEF NumberInv
    <3> QED
      BY <2>1, <2>3, <3>1, <3>2
  <2> QED
    BY <1>1, <2>1, <2>2, <2>3, <2>4 DEF OrderInv
<1>5. ASSUME NEW p \in Procs, AppendSnapshotted(p) PROVE OrderInv'
  <2>1. /\ UNCHANGED <<versions, job, version, late>> /\ pc[p] = "append"
        /\ log' = IF \E i \in DOMAIN log : log[i].content = job[p]
                    THEN log ELSE Append(log, Entry(p))
        /\ pc'[p] = "done" /\ \A q \in Procs \ {p} : pc'[q] = pc[q]
    BY <1>5 DEF AppendSnapshotted, Goto, history, SInv
  <2>2. \A q \in Procs : pc'[q] # "append"
    BY <1>1, <2>1 DEF SerialInv, UnderWay
  <2>3. CASE log' = log
    BY <1>1, <2>1, <2>2, <2>3 DEF OrderInv
  <2>4. CASE log' = Append(log, Entry(p))
             /\ \A i \in DOMAIN log : log[i].content # job[p]
    <3>1. Entry(p) \in versions /\ Entry(p).content = job[p]
      BY <2>1 DEF SInv, Entry
    <3>2. /\ log \in Seq(versions) /\ DOMAIN log = 1..Len(log)
          /\ Len(log) \in Nat /\ DOMAIN log' = 1..(Len(log) + 1)
          /\ log'[Len(log) + 1] = Entry(p)
          /\ \A i \in DOMAIN log : log'[i] = log[i]
      BY <2>4, <3>1 DEF SInv
    <3>3. ASSUME Entry(p) \notin late, NEW i \in DOMAIN log
          PROVE  log[i].version < Entry(p).version
      <4>1. ~Logged(Entry(p))
        BY <2>4, <3>1 DEF Logged
      <4>2. log[i] \in versions /\ log[i] # Entry(p)
        BY <3>2, <4>1 DEF Logged
      <4>3. log[i].version <= Entry(p).version
        BY <1>1, <2>1, <3>3, <4>1, <4>2 DEF OrderInv
      <4>4. log[i].version # Entry(p).version
        BY <3>1, <4>2 DEF SInv
      <4>5. log[i].version \in Nat /\ Entry(p).version \in Nat
        BY <3>1, <4>2 DEF NumberInv, Entries
      <4> QED
        BY <4>3, <4>4, <4>5
    <3>4. ASSUME NEW i \in DOMAIN log', NEW j \in DOMAIN log', i < j
          PROVE  log'[i].version < log'[j].version \/ log'[j] \in late'
      <4>1. CASE j \in DOMAIN log
        <5>1. i \in DOMAIN log
          BY <3>2, <3>4, <4>1
        <5> QED
          BY <1>1, <2>1, <3>2, <3>4, <4>1, <5>1 DEF OrderInv
      <4>2. CASE j = Len(log) + 1
        <5>1. i \in DOMAIN log
          BY <3>2, <3>4, <4>2
        <5> QED
          BY <2>1, <3>2, <3>3, <4>2, <5>1
      <4> QED
        BY <3>2, <4>1, <4>2
    <3> QED
      BY <2>2, <3>4 DEF OrderInv
  <2> QED
    BY <2>1, <2>3, <2>4
<1>6. CASE UNCHANGED <<versions, log, pc, job, version, late>>
  BY <1>1, <1>6, SameOrder
<1> QED
  BY <1>2, <1>3, <1>4, <1>5, <1>6
  DEF Next, vars, history, FileEvidence, Reopen

\* OrderInv holds in every reachable state.
LEMMA OrderInvariant == Spec => []OrderInv
<1>1. Init => OrderInv
  BY DEF Init, OrderInv
<1> QED
  BY <1>1, StepOrder, SInvariant, NumberInvariant, RestInvariant,
     SerialInvariant, ToldInvariant, PTL DEF Spec

\* `plan snapshot`: as long as commands run one after the other, stopped ones
\* among them, the units are those of the newest version, and the events come
\* in the order of their versions but for those a stop left to a later command.
THEOREM NewestStaysCurrent == Spec => []NewestIsCurrent
<1>1. SInv /\ NumberInv /\ CurrentInv /\ OrderInv => NewestIsCurrent
  <2> SUFFICES ASSUME SInv, NumberInv, CurrentInv, OrderInv, ~overlapped,
                      versions # {}
               PROVE  /\ DOMAIN units = DOMAIN Plan[Newest.content].units
                      /\ \A u \in DOMAIN units : Unchanged(Newest.content, u)
                      /\ \A i, j \in DOMAIN log :
                            i < j => \/ log[i].version < log[j].version
                                     \/ log[j] \in late
    BY DEF NewestIsCurrent
  <2>1. PICK top \in versions : Current(top)
    BY DEF CurrentInv
  <2>2. Newest = top
    <3>1. \A r, s \in versions :
             r.version <= s.version /\ s.version <= r.version => r = s
      BY DEF SInv, NumberInv, Entries
    <3>2. \A row \in versions : row.version <= top.version
      BY <2>1 DEF Current
    <3>3. /\ Newest \in versions
          /\ \A row \in versions : row.version <= Newest.version
      BY <3>2, Zenon DEF Newest
    <3> QED
      BY <3>1, <3>2, <3>3
  <2> QED
    BY <2>1, <2>2 DEF Current, Unchanged, OrderInv
<1> QED
  BY <1>1, SInvariant, NumberInvariant, CurrentInvariant, OrderInvariant, PTL

=============================================================================
