------------------------------ MODULE Recovery ------------------------------
(***************************************************************************)
(* Crash recovery: recover() of src/graph_coder/recovery.py, which         *)
(* `run recover` and `context build` call, transaction by transaction, with *)
(* the projection of src/graph_coder/events.py it rebuilds.  Several        *)
(* processes recover one database at the same time while workers go on      *)
(* writing to it, and a process may stop between any two transactions.      *)
(*                                                                         *)
(* append_event is one step here: module Ledger shows it is atomic to its  *)
(* callers, and that the chain recover() verifies first always verifies.   *)
(*                                                                         *)
(* `event append` takes any event from anybody.  Here the harness appends   *)
(* attempt.started with it, as often as it likes and whenever it likes, and *)
(* leaves the two events and the keys of recovery.py to recovery.py.       *)
(***************************************************************************)
EXTENDS Integers, Sequences, FiniteSets

CONSTANTS
    Procs,          \* processes of the command line tool
    Attempts,       \* ids of rows in the attempts table
    Units,          \* rows of the units table
    MaxStarts,      \* bound: events that say that an attempt was started
    MaxWrites,      \* bound: unit rows written by plan snapshots
    MaxStops        \* bound: processes stopped in the middle

ASSUME RecoveryAssumption ==
    /\ MaxStarts \in Nat
    /\ MaxWrites \in Nat
    /\ MaxStops \in Nat
    /\ Attempts \cap Units = {}

VARIABLES
    attempts,   \* attempts.status, by id
    units,      \* units.status, and whether evidence_hash is set, by unit
    log,        \* the event ledger
    projection, \* the row "control" of projections: the attempts part
    pc,         \* where in recover() a process is
    owed,       \* the selected rows it has not recorded an event for yet
    reported,   \* what its packet counts as interrupted and names as reopened
    seen,       \* the length of the ledger it rebuilt from
    writes,     \* unit rows written so far
    stops,      \* processes stopped so far
    lost        \* history: attempts a stopped process had marked and not
                \* recorded

vars == <<attempts, units, log, projection, pc, owed, reported, seen,
          writes, stops, lost>>

-----------------------------------------------------------------------------
(***************************************************************************)
(* The ledger and what is derived from it.                                 *)
(***************************************************************************)

Started(a) == [type |-> "attempt.started", subject |-> a]

\* Key restart-interrupt:{id}, one for each attempt.
Interrupted(a) == [type |-> "attempt.interrupted", subject |-> a]

\* Key recovery-reopen:{plan_id}:{unit_id}, one for each unit.
Reopened(u) == [type |-> "unit.reopened", subject |-> u]

Events == {Started(a) : a \in Attempts} \cup {Interrupted(a) : a \in Attempts}
            \cup {Reopened(u) : u \in Units}

Recorded(event) == \E i \in DOMAIN log : log[i] = event

\* Mutant: no idempotency key.
AppendAnew(event) == log' = Append(log, event)

\* append_event with a key that says what the event says: a second one with
\* the key is answered with the first.
AppendEvent(event) ==
    log' = IF Recorded(event) THEN log ELSE Append(log, event)

NoAttempts == [a \in Attempts |-> "absent"]

\* Mutant: an attempt that is known is not started again.
AppliedOnce(state, event) ==
    CASE event.type = "attempt.started" /\ state[event.subject] = "absent" ->
           [state EXCEPT ![event.subject] = "in_flight"]
      [] event.type = "attempt.interrupted" /\ state[event.subject] # "absent" ->
           [state EXCEPT ![event.subject] = "interrupted"]
      [] OTHER -> state

\* rebuild_projections, one event and the attempts: whatever is known of an
\* attempt, attempt.started sets it in flight; attempt.interrupted is passed
\* over if nothing is known of it.
Applied(state, event) ==
    CASE event.type = "attempt.started" ->
           [state EXCEPT ![event.subject] = "in_flight"]
      [] event.type = "attempt.interrupted" /\ state[event.subject] # "absent" ->
           [state EXCEPT ![event.subject] = "interrupted"]
      [] OTHER -> state

\* The events one after the other.
Rebuild(events) ==
    LET after[n \in 0..Len(events)] ==
          IF n = 0 THEN NoAttempts ELSE Applied(after[n - 1], events[n])
    IN after[Len(events)]

\* The first n events.
Prefix(n) == SubSeq(log, 1, n)

\* Mutant: the query does not ask for the status.
NotInterrupted == {a \in Attempts : attempts[a] \in {"in_flight", "finished"}}

InFlight == {a \in Attempts : attempts[a] = "in_flight"}

Unverified == {u \in Units : units[u].status = "completed" /\ ~units[u].evidence}

-----------------------------------------------------------------------------

Init ==
    /\ attempts = NoAttempts
    /\ units = [u \in Units |-> [status |-> "pending", evidence |-> FALSE]]
    /\ log = <<>>
    /\ projection = [attempts |-> NoAttempts, sequence |-> 0]
    /\ pc = [p \in Procs |-> "idle"]
    /\ owed = [p \in Procs |-> {}]
    /\ reported = [p \in Procs |-> {}]
    /\ seen = [p \in Procs |-> 0]
    /\ writes = 0
    /\ stops = 0
    /\ lost = {}

(***************************************************************************)
(* The others who write to the database.                                   *)
(***************************************************************************)

UnchangedRecovery ==
    UNCHANGED <<projection, pc, owed, reported, seen, stops, lost>>

\* A worker's attempt begins, and ends on its own; its row and its event are
\* written by different commands.  `event append` has a key only if it is given
\* one: without, the event is recorded every time; with the key of an earlier
\* one nothing happens.
StartAttempt(a) ==
    /\ attempts[a] = "absent"
    /\ attempts' = [attempts EXCEPT ![a] = "in_flight"]
    /\ UNCHANGED <<units, log, writes>>
    /\ UnchangedRecovery

RecordStart(a) ==
    /\ Cardinality({i \in DOMAIN log : log[i] = Started(a)}) < MaxStarts
    /\ log' = Append(log, Started(a))
    /\ UNCHANGED <<attempts, units, writes>>
    /\ UnchangedRecovery

FinishAttempt(a) ==
    /\ attempts[a] = "in_flight"
    /\ attempts' = [attempts EXCEPT ![a] = "finished"]
    /\ UNCHANGED <<units, log, writes>>
    /\ UnchangedRecovery

\* The row `plan snapshot` writes for a unit of the plan: the plan's status,
\* unless the unit is completed, unchanged and has evidence; evidence stays
\* with an unchanged unit.
WriteUnit(u, status, changed) ==
    /\ writes < MaxWrites
    /\ writes' = writes + 1
    /\ LET row == units[u]
           kept == ~changed /\ row.evidence
       IN units' = [units EXCEPT ![u] =
            [status |-> IF kept /\ row.status = "completed"
                          THEN row.status ELSE status,
             evidence |-> kept]]
    /\ UNCHANGED <<attempts, log>>
    /\ UnchangedRecovery

\* Evidence of a completed unit is filed.
FileEvidence(u) ==
    /\ u \in Unverified
    /\ units' = [units EXCEPT ![u].evidence = TRUE]
    /\ UNCHANGED <<attempts, log, writes>>
    /\ UnchangedRecovery

(***************************************************************************)
(* recover().                                                              *)
(***************************************************************************)

Goto(p, label) == pc' = [pc EXCEPT ![p] = label]

\* mark_interrupted_on_startup: the rows are selected, then updated together
\* by their ids, then recorded one by one.
SelectInFlight(p) ==
    /\ pc[p] = "idle"
    /\ owed' = [owed EXCEPT ![p] = InFlight]
    /\ reported' = [reported EXCEPT ![p] = InFlight]
    /\ Goto(p, "mark")
    /\ UNCHANGED <<attempts, units, log, projection, seen, writes, stops, lost>>

\* Mutant: the update selects by status again.
MarkInFlight(p) ==
    /\ pc[p] = "mark"
    /\ attempts' = [a \in Attempts |->
                      IF a \in InFlight THEN "interrupted" ELSE attempts[a]]
    /\ Goto(p, "record_marks")
    /\ UNCHANGED <<units, log, projection, owed, reported, seen,
                   writes, stops, lost>>

MarkInterrupted(p) ==
    /\ pc[p] = "mark"
    /\ attempts' = [a \in Attempts |->
                      IF a \in owed[p] THEN "interrupted" ELSE attempts[a]]
    /\ Goto(p, "record_marks")
    /\ UNCHANGED <<units, log, projection, owed, reported, seen,
                   writes, stops, lost>>

RecordInterrupted(p, a) ==
    /\ pc[p] = "record_marks"
    /\ a \in owed[p]
    /\ AppendEvent(Interrupted(a))
    /\ owed' = [owed EXCEPT ![p] = @ \ {a}]
    /\ UNCHANGED <<attempts, units, projection, pc, reported, seen,
                   writes, stops, lost>>

\* reopen_unverified_completed_units, likewise.
SelectUnverified(p) ==
    /\ pc[p] = "record_marks"
    /\ owed[p] = {}
    /\ owed' = [owed EXCEPT ![p] = Unverified]
    /\ reported' = [reported EXCEPT ![p] = @ \cup Unverified]
    /\ Goto(p, "reopen")
    /\ UNCHANGED <<attempts, units, log, projection, seen, writes, stops, lost>>

\* Mutant: units whose reopening is in the ledger are taken as done.
ReopenUnitsOnce(p) ==
    /\ pc[p] = "reopen"
    /\ units' = [u \in Units |->
                   IF u \in owed[p] /\ ~Recorded(Reopened(u))
                     THEN [units[u] EXCEPT !.status = "reopened"] ELSE units[u]]
    /\ Goto(p, "record_reopenings")
    /\ UNCHANGED <<attempts, log, projection, owed, reported, seen,
                   writes, stops, lost>>

ReopenUnits(p) ==
    /\ pc[p] = "reopen"
    /\ units' = [u \in Units |->
                   IF u \in owed[p] THEN [units[u] EXCEPT !.status = "reopened"]
                                    ELSE units[u]]
    /\ Goto(p, "record_reopenings")
    /\ UNCHANGED <<attempts, log, projection, owed, reported, seen,
                   writes, stops, lost>>

RecordReopened(p, u) ==
    /\ pc[p] = "record_reopenings"
    /\ u \in owed[p]
    /\ AppendEvent(Reopened(u))
    /\ owed' = [owed EXCEPT ![p] = @ \ {u}]
    /\ UNCHANGED <<attempts, units, projection, pc, reported, seen,
                   writes, stops, lost>>

\* Mutant: the last event is left out.
ReadEarlierEvents(p) ==
    /\ pc[p] = "record_reopenings"
    /\ owed[p] = {}
    /\ seen' = [seen EXCEPT ![p] = Len(log) - 1]
    /\ Goto(p, "store")
    /\ UNCHANGED <<attempts, units, log, projection, owed, reported,
                   writes, stops, lost>>

\* rebuild_projections: one query for the events, one statement to store.
ReadEvents(p) ==
    /\ pc[p] = "record_reopenings"
    /\ owed[p] = {}
    /\ seen' = [seen EXCEPT ![p] = Len(log)]
    /\ Goto(p, "store")
    /\ UNCHANGED <<attempts, units, log, projection, owed, reported,
                   writes, stops, lost>>

\* Mutant: the sequence is read when the row is stored.
StoreLatest(p) ==
    /\ pc[p] = "store"
    /\ projection' = [attempts |-> Rebuild(Prefix(seen[p])),
                      sequence |-> Len(log)]
    /\ Goto(p, "done")
    /\ UNCHANGED <<attempts, units, log, owed, reported, seen,
                   writes, stops, lost>>

StoreProjection(p) ==
    /\ pc[p] = "store"
    /\ projection' = [attempts |-> Rebuild(Prefix(seen[p])),
                      sequence |-> seen[p]]
    /\ Goto(p, "done")
    /\ UNCHANGED <<attempts, units, log, owed, reported, seen,
                   writes, stops, lost>>

\* What a process that is not in recover() holds.
Forget(p) ==
    /\ Goto(p, "idle")
    /\ owed' = [owed EXCEPT ![p] = {}]
    /\ reported' = [reported EXCEPT ![p] = {}]
    /\ seen' = [seen EXCEPT ![p] = 0]

\* The packet is returned.
Return(p) ==
    /\ pc[p] = "done"
    /\ Forget(p)
    /\ UNCHANGED <<attempts, units, log, projection, writes, stops, lost>>

\* The process is killed, or gives up waiting for the database: the exception
\* ends the command, and what it committed stays.
Stop(p) ==
    /\ pc[p] # "idle"
    /\ stops < MaxStops
    /\ stops' = stops + 1
    /\ lost' = IF pc[p] = "record_marks" THEN lost \cup owed[p] ELSE lost
    /\ Forget(p)
    /\ UNCHANGED <<attempts, units, log, projection, writes>>

Recover(p) ==
    \/ SelectInFlight(p)
    \/ MarkInterrupted(p)
    \/ \E a \in Attempts : RecordInterrupted(p, a)
    \/ SelectUnverified(p)
    \/ ReopenUnits(p)
    \/ \E u \in Units : RecordReopened(p, u)
    \/ ReadEvents(p)
    \/ StoreProjection(p)
    \/ Return(p)

\* The statuses a plan gives its units.
UnitStatuses == {"pending", "completed"}

Next ==
    \/ \E p \in Procs : Recover(p) \/ Stop(p)
    \/ \E a \in Attempts :
         StartAttempt(a) \/ RecordStart(a) \/ FinishAttempt(a)
    \/ \E u \in Units :
         \/ \E status \in UnitStatuses, changed \in BOOLEAN :
              WriteUnit(u, status, changed)
         \/ FileEvidence(u)

Spec == Init /\ [][Next]_vars

-----------------------------------------------------------------------------
(***************************************************************************)
(* Properties.                                                             *)
(***************************************************************************)

ReplayedStates == {"absent", "in_flight", "interrupted"}

AttemptStates == {"absent", "in_flight", "interrupted", "finished"}

Labels == {"idle", "mark", "record_marks", "reopen", "record_reopenings",
           "store", "done"}

\* Rows, events and the state of every process are well formed.
TypeOK ==
    /\ attempts \in [Attempts -> AttemptStates]
    /\ units \in [Units -> [status : UnitStatuses \cup {"reopened"},
                            evidence : BOOLEAN]]
    /\ log \in Seq(Events)
    /\ projection \in [attempts : [Attempts -> ReplayedStates],
                       sequence : 0..Len(log)]
    /\ pc \in [Procs -> Labels]
    /\ owed \in [Procs -> SUBSET (Attempts \cup Units)]
    /\ reported \in [Procs -> SUBSET (Attempts \cup Units)]
    /\ seen \in [Procs -> 0..Len(log)]
    /\ writes \in 0..MaxWrites
    /\ stops \in 0..MaxStops
    /\ lost \subseteq Attempts

\* mark_interrupted_on_startup: however many processes recover at once, and
\* however often attempts are said to have started, an attempt is recorded as
\* interrupted once, and only if its row says so.
MarkedExactlyOnce ==
    \A a \in Attempts :
        /\ \A i, j \in DOMAIN log :
              log[i] = Interrupted(a) /\ log[j] = Interrupted(a) => i = j
        /\ Recorded(Interrupted(a)) => attempts[a] = "interrupted"

\* A process is about to record the interruption of an attempt.
Owed(a) == \E p \in Procs : pc[p] = "record_marks" /\ a \in owed[p]

\* mark_interrupted_on_startup: an attempt that is interrupted is so in the
\* ledger, or a recovery is about to record it, or one that had marked just
\* this attempt was stopped before its event.  Nothing else is silent, before
\* or after a stop.
SilentOnlyAfterStop ==
    \A a \in Attempts :
        attempts[a] = "interrupted" =>
            Recorded(Interrupted(a)) \/ Owed(a) \/ a \in lost

\* A recovery selected the row and has not updated it yet.
Held(a) == \E p \in Procs : pc[p] = "mark" /\ a \in owed[p]

\* recover() beside live workers: an attempt that has finished is marked as
\* interrupted by nobody but a recovery that selected it while it was in
\* flight, and no later recovery selects it.
FinishedStands ==
    [][\A a \in Attempts :
          attempts[a] = "finished" /\ ~Held(a) =>
              attempts'[a] = "finished" /\ ~Held(a)']_vars

(* The inductive invariant behind the first two of these.                  *)

\* Who selected attempts owes attempts, and who records them has marked them.
OwedMarked ==
    \A p \in Procs :
        /\ pc[p] \in {"mark", "record_marks"} => owed[p] \subseteq Attempts
        /\ pc[p] = "record_marks" =>
              \A a \in owed[p] : attempts[a] = "interrupted"

RInv ==
    /\ TypeOK
    /\ MarkedExactlyOnce
    /\ OwedMarked
    /\ SilentOnlyAfterStop

\* What some events say of each attempt, as a reader of them would put it: it
\* is interrupted if it was so after the last time it started.
LastWord(events) ==
    [a \in Attempts |->
        LET starts == {i \in DOMAIN events : events[i] = Started(a)}
            over == \E j \in DOMAIN events :
                       /\ events[j] = Interrupted(a)
                       /\ \A i \in starts : i < j
        IN IF starts = {} THEN "absent"
           ELSE IF over THEN "interrupted" ELSE "in_flight"]

\* rebuild_projections: whichever recovery stored the projection, whatever it
\* met in the ledger and whatever was appended since, it shows the last word of
\* the part of the ledger whose end it names.
ProjectionIsLastWord ==
    projection.attempts = LastWord(Prefix(projection.sequence))

\* The event that something the packet reports is recorded with.
Reports(s) == IF s \in Attempts THEN Interrupted(s) ELSE Reopened(s)

\* recover(): each attempt the packet counts as interrupted, and each unit it
\* names as reopened, has its event up to the last_sequence of the packet;
\* and if the projection of this recovery shows such an attempt in flight, it
\* was said to have started after its interruption.
ReportedIsInLedger ==
    \A p \in Procs : pc[p] = "done" =>
        \A s \in reported[p] : \E i \in 1..seen[p] :
            /\ log[i] = Reports(s)
            /\ s \in Attempts /\ Rebuild(Prefix(seen[p]))[s] = "in_flight" =>
                  \E j \in (i + 1)..seen[p] : log[j] = Started(s)

\* If recoveries keep being completed, none of the attempts in flight and none
\* of the units that claim completion without evidence are passed over for
\* ever, whatever earlier recoveries did, recorded, or left undone.
RecoveredAtLast ==
    (\E p \in Procs : []<><<Return(p)>>_vars) =>
        /\ \A a \in Attempts : a \in InFlight ~> a \notin InFlight
        /\ \A u \in Units : u \in Unverified ~> u \notin Unverified

=============================================================================
