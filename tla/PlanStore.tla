------------------------------ MODULE PlanStore -----------------------------
(***************************************************************************)
(* The versions of one plan: `plan snapshot` of src/graph_coder/cli.py with *)
(* the snapshot store of src/graph_coder/plans.py, step by step, run by     *)
(* several processes that may stop between any two steps.  A version has a *)
(* file, a row, and an event; the units table follows the versions.        *)
(*                                                                         *)
(* append_event is one step (module Ledger).  A file appears at once: it   *)
(* is written under a name that latest_version does not count, and renamed.*)
(***************************************************************************)
EXTENDS Integers, Sequences, FiniteSetsExt

CONSTANTS
    Procs,          \* processes of the command line tool
    Contents,       \* contents the file of the plan has over time
    Plan,           \* what each content parses to
    Units,          \* ids of units
    Hashes,         \* semantic hashes of units
    NoEvidence,     \* evidence_hash is NULL
    NoContent,      \* no command is running
    MaxCalls,       \* bound: commands run
    MaxStops        \* bound: processes stopped in the middle

PlanStatuses == {"pending", "completed"}

\* Plan[c].version is plan_version, at least 1 (_require_metadata).
ASSUME PlanAssumption ==
    /\ MaxCalls \in Nat
    /\ MaxStops \in Nat
    /\ NoEvidence \notin Hashes
    /\ NoContent \notin Contents
    /\ \A c \in Contents :
          /\ Plan[c].version \in Nat \ {0}
          /\ DOMAIN Plan[c].units \subseteq Units
          /\ \A u \in DOMAIN Plan[c].units :
                Plan[c].units[u] \in [hash : Hashes, status : PlanStatuses]

VARIABLES
    files,      \* content of v{n}.json, by n
    versions,   \* the rows of plan_versions
    units,      \* the rows of units, by id; evidence says what it is for
    log,        \* the plan.snapshotted events of the ledger
    pc,         \* where in _cmd_plan_snapshot a process is
    job,        \* the content a process read
    version,    \* the version it found or chose
    calls,      \* commands run so far
    stops,      \* processes stopped so far
    overlapped, \* history: two commands were under way at once
    contested,  \* history: numbers two commands had chosen before either wrote
    late        \* history: versions whose command was stopped before the event

history == <<overlapped, contested, late>>

vars == <<files, versions, units, log, pc, job, version, calls, stops,
          overlapped, contested, late>>

-----------------------------------------------------------------------------

\* The row or event of a version.
Entry(p) == [version |-> version[p], content |-> job[p]]

\* FileSnapshotStore.latest_version: 0 without files.
LatestVersion == Max({0} \cup DOMAIN files)

\* Mutant: the number the plan gives itself is taken as it is.
PlanVersion(c) == Plan[c].version

\* create_snapshot.
NextVersion(c) == Max({LatestVersion + 1, Plan[c].version})

\* The rows of `units` that have the semantic hash content c has for them.
Unchanged(c, u) == u \in DOMAIN units /\ units[u].hash = Plan[c].units[u].hash

\* Mutant: evidence stays with the id.
UpsertedById(c, u) ==
    LET new == Plan[c].units[u]
    IN [hash |-> new.hash, status |-> new.status,
        evidence |-> IF u \in DOMAIN units THEN units[u].evidence
                                           ELSE NoEvidence]

\* The row of a unit of content c: evidence stays while the hash does.
UpsertedUnit(c, u) ==
    LET new == Plan[c].units[u]
    IN IF Unchanged(c, u)
         THEN [hash |-> new.hash,
               status |-> IF /\ units[u].status = "completed"
                             /\ units[u].evidence # NoEvidence
                            THEN units[u].status ELSE new.status,
               evidence |-> units[u].evidence]
         ELSE [hash |-> new.hash, status |-> new.status, evidence |-> NoEvidence]

\* Mutant: units that left the plan are not deleted.
MergedUnits(c) ==
    [u \in DOMAIN units \cup DOMAIN Plan[c].units |->
        IF u \in DOMAIN Plan[c].units THEN UpsertedUnit(c, u) ELSE units[u]]

\* What the transaction leaves in `units`: units that are not in the plan are
\* deleted, the others inserted or updated.
UpsertedUnits(c) == [u \in DOMAIN Plan[c].units |-> UpsertedUnit(c, u)]

-----------------------------------------------------------------------------

Init ==
    /\ files = <<>>
    /\ versions = {}
    /\ units = [u \in {} |-> NoEvidence]
    /\ log = <<>>
    /\ pc = [p \in Procs |-> "idle"]
    /\ job = [p \in Procs |-> NoContent]
    /\ version = [p \in Procs |-> 0]
    /\ calls = 0
    /\ stops = 0
    /\ overlapped = FALSE
    /\ contested = {}
    /\ late = {}

Goto(p, label) == pc' = [pc EXCEPT ![p] = label]

UnderWay(p) == pc[p] \in {"query", "choose", "write", "insert", "append"}

\* The plan file is read, whatever its content is at that moment.
Call(p, c) ==
    /\ pc[p] = "idle"
    /\ calls < MaxCalls
    /\ calls' = calls + 1
    /\ job' = [job EXCEPT ![p] = c]
    /\ Goto(p, "query")
    /\ overlapped' = (overlapped \/ \E q \in Procs : UnderWay(q))
    /\ UNCHANGED <<files, versions, units, log, version, stops, contested,
                   late>>

\* Mutant: a content is never recognized.
QueryNothing(p) ==
    /\ pc[p] = "query"
    /\ Goto(p, "choose")
    /\ UNCHANGED <<files, versions, units, log, job, version, calls, stops,
                   history>>

\* A content that has a row is not stored again.
Query(p) ==
    /\ pc[p] = "query"
    /\ \/ \E row \in versions :
            /\ row.content = job[p]
            /\ version' = [version EXCEPT ![p] = row.version]
            /\ Goto(p, "append")
       \/ /\ \A row \in versions : row.content # job[p]
          /\ Goto(p, "choose")
          /\ UNCHANGED version
    /\ UNCHANGED <<files, versions, units, log, job, calls, stops, history>>

\* What p chooses while another command is about to write the same number.
Contested(p, v) ==
    {n \in {v} : \E q \in Procs \ {p} : pc[q] = "write" /\ version[q] = n}

ChooseVersion(p) ==
    LET v == NextVersion(job[p])
    IN /\ pc[p] = "choose"
       /\ version' = [version EXCEPT ![p] = v]
       /\ contested' = contested \cup Contested(p, v)
       /\ Goto(p, "write")
       /\ UNCHANGED <<files, versions, units, log, job, calls, stops,
                      overlapped, late>>

\* write_snapshot: os.replace takes the place of a file of that name.
WriteFile(p) ==
    /\ pc[p] = "write"
    /\ files' = [n \in DOMAIN files \cup {version[p]} |->
                    IF n = version[p] THEN job[p] ELSE files[n]]
    /\ Goto(p, "insert")
    /\ UNCHANGED <<versions, units, log, job, version, calls, stops, history>>

\* PRIMARY KEY (plan_id, version) and UNIQUE (plan_id, content_hash).
Conflict(p) ==
    \E row \in versions : row.version = version[p] \/ row.content = job[p]

Insert(p) ==
    /\ pc[p] = "insert"
    /\ ~Conflict(p)
    /\ versions' = versions \cup {Entry(p)}
    /\ units' = UpsertedUnits(job[p])
    /\ Goto(p, "append")
    /\ UNCHANGED <<files, log, job, version, calls, stops, history>>

Forget(p) ==
    /\ Goto(p, "idle")
    /\ job' = [job EXCEPT ![p] = NoContent]
    /\ version' = [version EXCEPT ![p] = 0]

\* Mutant: the error is passed over.
InsertIgnored(p) ==
    /\ pc[p] = "insert"
    /\ Conflict(p)
    /\ Goto(p, "append")
    /\ UNCHANGED <<files, versions, units, log, job, version, calls, stops,
                   history>>

\* IntegrityError: the transaction is rolled back and the command fails.
InsertFails(p) ==
    /\ pc[p] = "insert"
    /\ Conflict(p)
    /\ Forget(p)
    /\ UNCHANGED <<files, versions, units, log, calls, stops, history>>

\* append_event with the key plan-snapshot:{plan_id}:{content_hash}.
AppendSnapshotted(p) ==
    /\ pc[p] = "append"
    /\ log' = IF \E i \in DOMAIN log : log[i].content = job[p]
                THEN log ELSE Append(log, Entry(p))
    /\ Goto(p, "done")
    /\ UNCHANGED <<files, versions, units, job, version, calls, stops, history>>

Return(p) ==
    /\ pc[p] = "done"
    /\ Forget(p)
    /\ UNCHANGED <<files, versions, units, log, calls, stops, history>>

\* The process is killed, or an exception ends the command.
Stop(p) ==
    /\ UnderWay(p)
    /\ stops < MaxStops
    /\ stops' = stops + 1
    /\ late' = IF pc[p] = "append" THEN late \cup {Entry(p)} ELSE late
    /\ Forget(p)
    /\ UNCHANGED <<files, versions, units, log, calls, overlapped, contested>>

\* A worker's unit is completed with evidence for the unit as it is.
FileEvidence(u) ==
    /\ u \in DOMAIN units
    /\ units' = [units EXCEPT ![u] = [hash |-> @.hash, status |-> "completed",
                                      evidence |-> @.hash]]
    /\ UNCHANGED <<files, versions, log, pc, job, version, calls, stops,
                   history>>

\* recover() reopens completed units without evidence (module Recovery).
Reopen(u) ==
    /\ u \in DOMAIN units
    /\ units[u].status = "completed"
    /\ units[u].evidence = NoEvidence
    /\ units' = [units EXCEPT ![u] = [hash |-> @.hash, status |-> "reopened",
                                      evidence |-> @.evidence]]
    /\ UNCHANGED <<files, versions, log, pc, job, version, calls, stops,
                   history>>

Next ==
    \/ \E p \in Procs :
         \/ \E c \in Contents : Call(p, c)
         \/ Query(p)
         \/ ChooseVersion(p)
         \/ WriteFile(p)
         \/ Insert(p)
         \/ InsertFails(p)
         \/ AppendSnapshotted(p)
         \/ Return(p)
         \/ Stop(p)
    \/ \E u \in Units : FileEvidence(u) \/ Reopen(u)

Spec == Init /\ [][Next]_vars

-----------------------------------------------------------------------------
(***************************************************************************)
(* Properties.                                                             *)
(***************************************************************************)

Labels == {"idle", "query", "choose", "write", "insert", "append", "done"}

Entries == [version : Nat \ {0}, content : Contents]

\* Files, rows and events are well formed, and a version is never below the
\* number its plan gives itself.
TypeOK ==
    /\ DOMAIN files \subseteq Nat \ {0}
    /\ \A n \in DOMAIN files : files[n] \in Contents
    /\ versions \subseteq Entries
    /\ \A row \in versions : row.version >= Plan[row.content].version
    /\ DOMAIN units \subseteq Units
    /\ \A u \in DOMAIN units :
          units[u] \in [hash : Hashes, status : PlanStatuses \cup {"reopened"},
                        evidence : Hashes \cup {NoEvidence}]
    /\ log \in Seq(Entries)
    /\ pc \in [Procs -> Labels]
    /\ job \in [Procs -> Contents \cup {NoContent}]
    /\ version \in [Procs -> Nat]
    /\ calls \in 0..MaxCalls
    /\ stops \in 0..MaxStops
    /\ overlapped \in BOOLEAN
    /\ contested \subseteq Nat
    /\ late \subseteq Entries

\* Evidence is for the unit as the plan has it: a unit that was changed, or
\* changed and changed back, or dropped and put back, has to earn it again.
EvidenceFits ==
    \A u \in DOMAIN units :
        units[u].evidence # NoEvidence => units[u].evidence = units[u].hash

Logged(row) == \E i \in DOMAIN log : log[i] = row

\* Whoever races or stops: a content has one version, its event and every
\* answer given for it name that version; and no version goes without its
\* event, unless its command is before it or was stopped there.
AnswersAgree ==
    /\ \A r, s \in versions :
          r.version = s.version \/ r.content = s.content => r = s
    /\ \A i \in DOMAIN log : log[i] \in versions
    /\ \A row \in versions :
          \/ Logged(row)
          \/ row \in late
          \/ \E p \in Procs : pc[p] = "append" /\ Entry(p) = row
    /\ \A p \in Procs : pc[p] = "done" => Logged(Entry(p))

\* Commands that run one after the other, stopped ones among them, never fail
\* on the keys of plan_versions, although the version is chosen by the files
\* and checked by the rows.
UndisturbedInserts ==
    ~overlapped => \A p \in Procs : pc[p] = "insert" => ~Conflict(p)

\* However commands race and stop, a version has a file, and the file holds its
\* content, unless two commands had chosen the number before either wrote it.
FilesMatchRows ==
    \A row \in versions :
        /\ row.version \in DOMAIN files
        /\ files[row.version] = row.content \/ row.version \in contested

Newest == CHOOSE row \in versions : \A r \in versions : r.version <= row.version

\* When commands run one after the other, stopped ones among them, the units
\* are those of the newest version, and the events come in the order of their
\* versions, but for those that were left to a later command by a stop.
NewestIsCurrent ==
    ~overlapped /\ versions # {} =>
        /\ DOMAIN units = DOMAIN Plan[Newest.content].units
        /\ \A u \in DOMAIN units : Unchanged(Newest.content, u)
        /\ \A i, j \in DOMAIN log :
              i < j => log[i].version < log[j].version \/ log[j] \in late

=============================================================================
