------------------------------- MODULE Ledger -------------------------------
(***************************************************************************)
(* The hash-chained event ledger of src/graph_coder/events.py, on the      *)
(* transactions of src/graph_coder/db.py: processes of the command line    *)
(* tool append to one SQLite table at the same time, time out on its lock, *)
(* are killed between any two statements, and call again.                  *)
(*                                                                         *)
(* SHA-256 is taken to be free of collisions: a digest is the sequence of  *)
(* the contents it commits to.                                             *)
(***************************************************************************)
EXTENDS Integers, Sequences

CONSTANTS
    Procs,      \* processes of the command line tool
    Keys,       \* idempotency keys that are not empty
    EmptyKey,   \* the idempotency key ""
    NoKey,      \* no idempotency key: NULL in the table
    Payloads,   \* everything else a caller puts in an event
    Pending,    \* the placeholder "pending" a row is inserted with
    Nobody,     \* the database is not locked
    MaxCalls    \* bound: calls of append_event in a behaviour

ASSUME LedgerAssumption ==
    /\ MaxCalls \in Nat
    /\ Payloads # {}
    /\ NoKey \notin Keys \cup {EmptyKey}
    /\ EmptyKey \notin Keys
    /\ Nobody \notin Procs

AllKeys == Keys \cup {EmptyKey, NoKey}

Requests == [key : AllKeys, payload : Payloads]

\* What compute_hash covers, the previous hash aside.
Contents == [sequence : Nat, key : AllKeys, payload : Payloads]

Digests == Seq(Contents)

GenesisHash == <<>>

Rows == [sequence : Nat, key : AllKeys, payload : Payloads,
         prev_hash : Digests, event_hash : Digests \cup {Pending}]

ComputeHash(row) ==
    Append(row.prev_hash, [sequence |-> row.sequence, key |-> row.key,
                           payload |-> row.payload])

VARIABLES
    events,     \* the committed table, in the order of sequence
    draft,      \* the table as the transaction in progress sees it
    lock,       \* the process in a transaction
    pc,         \* where in append_event a process is
    request,    \* the arguments of its call
    call,       \* the number of its call
    result,     \* the sequence of the row it is to return
    calls,      \* how many calls were made
    acks        \* history: what was returned to whom

vars == <<events, draft, lock, pc, request, call, result, calls, acks>>

-----------------------------------------------------------------------------
(***************************************************************************)
(* Reading the table.                                                      *)
(***************************************************************************)

RowsWithKey(rows, key) == {i \in DOMAIN rows : rows[i].key = key}

\* Mutant: the wrong column of the last row.
LastPrevHash(rows) ==
    IF rows = <<>> THEN GenesisHash ELSE rows[Len(rows)].prev_hash

LastHash(rows) ==
    IF rows = <<>> THEN GenesisHash ELSE rows[Len(rows)].event_hash

\* AUTOINCREMENT: one more than the largest sequence ever committed
NextSequence(rows) == IF rows = <<>> THEN 1 ELSE rows[Len(rows)].sequence + 1

\* Mutant: the hashes are compared with each other only.
VerifyLinks(rows) ==
    \A i \in DOMAIN rows :
        /\ rows[i].sequence = i
        /\ rows[i].prev_hash =
               IF i = 1 THEN GenesisHash ELSE rows[i - 1].event_hash

\* verify_chain
VerifyChain(rows) ==
    \A i \in DOMAIN rows :
        /\ rows[i].sequence = i
        /\ rows[i].prev_hash =
               IF i = 1 THEN GenesisHash ELSE rows[i - 1].event_hash
        /\ rows[i].event_hash = ComputeHash(rows[i])

-----------------------------------------------------------------------------
(***************************************************************************)
(* append_event, statement by statement.                                   *)
(***************************************************************************)

\* What a process that never called holds; it is not looked at.
NoRequest == [key |-> NoKey, payload |-> CHOOSE x \in Payloads : TRUE]

Init ==
    /\ events = <<>>
    /\ draft = <<>>
    /\ lock = Nobody
    /\ pc = [p \in Procs |-> "idle"]
    /\ request = [p \in Procs |-> NoRequest]
    /\ call = [p \in Procs |-> 0]
    /\ result = [p \in Procs |-> 0]
    /\ calls = 0
    /\ acks = {}

Goto(p, label) == pc' = [pc EXCEPT ![p] = label]

\* The process calls append_event, for the first time or again.
Call(p, r) ==
    /\ pc[p] = "idle"
    /\ calls < MaxCalls
    /\ calls' = calls + 1
    /\ call' = [call EXCEPT ![p] = calls + 1]
    /\ request' = [request EXCEPT ![p] = r]
    /\ result' = [result EXCEPT ![p] = 0]
    /\ Goto(p, "begin")
    /\ UNCHANGED <<events, draft, lock, acks>>

\* BEGIN IMMEDIATE
Begin(p) ==
    /\ pc[p] = "begin"
    /\ lock = Nobody
    /\ lock' = p
    /\ draft' = events
    /\ Goto(p, "lookup")
    /\ UNCHANGED <<events, request, call, result, calls, acks>>

\* The busy timeout runs out while another process holds the lock.
BusyTimeout(p) ==
    /\ pc[p] = "begin"
    /\ lock # Nobody
    /\ Goto(p, "idle")
    /\ UNCHANGED <<events, draft, lock, request, call, result, calls, acks>>

\* Mutant: the last row is returned for a key that was used.
LookupLatest(p) ==
    LET key == request[p].key
        found == key \in Keys /\ RowsWithKey(draft, key) # {}
    IN /\ pc[p] = "lookup"
       /\ result' = IF found THEN [result EXCEPT ![p] = Len(draft)] ELSE result
       /\ Goto(p, IF found THEN "commit" ELSE "insert")
       /\ UNCHANGED <<events, draft, lock, request, call, calls, acks>>

\* A key that is not empty and is in the table already ends the call: the row
\* it is in is returned.
Lookup(p) ==
    LET key == request[p].key
    IN /\ pc[p] = "lookup"
       /\ \/ /\ key \in Keys
             /\ \E i \in RowsWithKey(draft, key) :
                    result' = [result EXCEPT ![p] = draft[i].sequence]
             /\ Goto(p, "commit")
          \/ /\ key \in Keys => RowsWithKey(draft, key) = {}
             /\ Goto(p, "insert")
             /\ UNCHANGED result
       /\ UNCHANGED <<events, draft, lock, request, call, calls, acks>>

\* The row as it is inserted.
NewRow(rows, r) ==
    [sequence   |-> NextSequence(rows),
     key        |-> r.key,
     payload    |-> r.payload,
     prev_hash  |-> LastHash(rows),
     event_hash |-> Pending]

\* Mutant: the column is not UNIQUE.
InsertAnyKey(p) ==
    /\ pc[p] = "insert"
    /\ draft' = Append(draft, NewRow(draft, request[p]))
    /\ result' = [result EXCEPT ![p] = NextSequence(draft)]
    /\ Goto(p, "seal")
    /\ UNCHANGED <<events, lock, request, call, calls, acks>>

Insert(p) ==
    /\ pc[p] = "insert"
    /\ request[p].key # NoKey => RowsWithKey(draft, request[p].key) = {}
    /\ draft' = Append(draft, NewRow(draft, request[p]))
    /\ result' = [result EXCEPT ![p] = NextSequence(draft)]
    /\ Goto(p, "seal")
    /\ UNCHANGED <<events, lock, request, call, calls, acks>>

\* Mutant: no ROLLBACK when a statement raises.
InsertRaises(p) ==
    /\ pc[p] = "insert"
    /\ request[p].key # NoKey
    /\ RowsWithKey(draft, request[p].key) # {}
    /\ Goto(p, "idle")
    /\ UNCHANGED <<events, draft, lock, request, call, result, calls, acks>>

\* The UNIQUE column refuses the key; the transaction is rolled back.
InsertRefused(p) ==
    /\ pc[p] = "insert"
    /\ request[p].key # NoKey
    /\ RowsWithKey(draft, request[p].key) # {}
    /\ draft' = events
    /\ lock' = Nobody
    /\ Goto(p, "idle")
    /\ UNCHANGED <<events, request, call, result, calls, acks>>

\* The row is read back, hashed, and updated.
Seal(p) ==
    /\ pc[p] = "seal"
    /\ draft' = [draft EXCEPT ![Len(draft)].event_hash =
                    ComputeHash(draft[Len(draft)])]
    /\ Goto(p, "commit")
    /\ UNCHANGED <<events, lock, request, call, result, calls, acks>>

Commit(p) ==
    /\ pc[p] = "commit"
    /\ events' = draft
    /\ lock' = Nobody
    /\ Goto(p, "return")
    /\ UNCHANGED <<draft, request, call, result, calls, acks>>

Return(p) ==
    /\ pc[p] = "return"
    /\ acks' = acks \cup {[call |-> call[p], entry |-> request[p],
                           position |-> result[p]]}
    /\ Goto(p, "idle")
    /\ UNCHANGED <<events, draft, lock, request, call, result, calls>>

\* The process is killed.  SQLite drops what its transaction did not commit.
Crash(p) ==
    /\ pc[p] # "idle"
    /\ Goto(p, "idle")
    /\ lock' = IF lock = p THEN Nobody ELSE lock
    /\ draft' = IF lock = p THEN events ELSE draft
    /\ UNCHANGED <<events, request, call, result, calls, acks>>

InTransaction(p) ==
    Lookup(p) \/ Insert(p) \/ InsertRefused(p) \/ Seal(p) \/ Commit(p)

Next ==
    \E p \in Procs :
        \/ \E r \in Requests : Call(p, r)
        \/ Begin(p)
        \/ BusyTimeout(p)
        \/ InTransaction(p)
        \/ Return(p)
        \/ Crash(p)

Spec == Init /\ [][Next]_vars

\* A process that runs gets on, and none waits for the lock longer than the
\* busy timeout.
Fairness ==
    \A p \in Procs :
        /\ WF_vars(Begin(p) \/ BusyTimeout(p))
        /\ WF_vars(InTransaction(p))
        /\ WF_vars(Return(p))

FairSpec == Spec /\ Fairness

-----------------------------------------------------------------------------
(***************************************************************************)
(* Properties.                                                             *)
(***************************************************************************)

Labels == {"idle", "begin", "lookup", "insert", "seal", "commit", "return"}

Holding == {"lookup", "insert", "seal", "commit"}

\* Rows, drafts and the control state are well formed, and the lock is held by
\* the process inside the transaction.
TypeOK ==
    /\ events \in Seq(Rows)
    /\ draft \in Seq(Rows)
    /\ lock \in Procs \cup {Nobody}
    /\ pc \in [Procs -> Labels]
    /\ request \in [Procs -> Requests]
    /\ call \in [Procs -> 0..MaxCalls]
    /\ result \in [Procs -> Nat]
    /\ calls \in 0..MaxCalls
    /\ acks \subseteq [call : 1..MaxCalls, entry : Requests, position : Nat]
    /\ \A p \in Procs : lock = p <=> pc[p] \in Holding

\* Whoever verifies the ledger, at any moment, from another process, finds the
\* chain intact: killed writers, timed out writers and writers in progress
\* leave no gap, no placeholder and no fork.
ChainVerifies == VerifyChain(events)

\* Whatever is retried, a key that is not empty is recorded once.
KeysUnique ==
    \A i, j \in DOMAIN events :
        (events[i].key = events[j].key /\ events[i].key # NoKey) => i = j

\* verify_chain finds every single change made behind append_event's back,
\* short of cutting off or rewriting the end: a payload edited, a payload
\* edited and its row hashed anew, a row removed, two rows exchanged.
Edited(i, x) == [events EXCEPT ![i].payload = x]
Rehashed(rows, i) == [rows EXCEPT ![i].event_hash = ComputeHash(rows[i])]
Without(i) == SubSeq(events, 1, i - 1) \o SubSeq(events, i + 1, Len(events))
Exchanged(i, j) ==
    [events EXCEPT ![i] = [events[j] EXCEPT !.sequence = i],
                   ![j] = [events[i] EXCEPT !.sequence = j]]

TamperingShows ==
    \A i \in DOMAIN events :
        /\ \A x \in Payloads \ {events[i].payload} :
              /\ ~VerifyChain(Edited(i, x))
              /\ i < Len(events) => ~VerifyChain(Rehashed(Edited(i, x), i))
        /\ i < Len(events) => ~VerifyChain(Without(i))
        /\ \A j \in DOMAIN events : i < j => ~VerifyChain(Exchanged(i, j))

Entry(row) == [key |-> row.key, payload |-> row.payload]

Log == INSTANCE AppendLog
         WITH Keys <- Keys \cup {EmptyKey},
              Calls <- 1..MaxCalls,
              log <- [i \in DOMAIN events |-> Entry(events[i])],
              acks <- acks

\* append_event is atomic to its callers: it records at most once, only
\* appends, and answers with the entry that stands for the call.
ImplementsLog == Log!Spec

(* The inductive invariant: what a process knows at each statement.        *)

Unused(rows, key) == key # NoKey => RowsWithKey(rows, key) = {}

Sealed(row) == [row EXCEPT !.event_hash = ComputeHash(row)]

\* In the transaction the draft is the committed table, with the process's
\* own row at the end from the insert on.
DraftFollows ==
    \A p \in Procs :
        LET r == request[p]
            row == NewRow(events, r)
            found == /\ r.key \in Keys
                     /\ draft = events
                     /\ result[p] \in RowsWithKey(events, r.key)
            inserted == /\ Unused(events, r.key)
                        /\ result[p] = Len(events) + 1
        IN /\ pc[p] \in {"lookup", "insert"} => draft = events
           /\ (pc[p] = "insert" /\ r.key \in Keys) => Unused(events, r.key)
           /\ pc[p] = "seal" => inserted /\ draft = Append(events, row)
           /\ pc[p] = "commit" =>
                 found \/ (inserted /\ draft = Append(events, Sealed(row)))

\* A process about to return has the row that stands for its call, and
\* without a key nobody else was or will be given that row.
ResultStands ==
    \A p \in Procs : pc[p] = "return" =>
        /\ result[p] \in DOMAIN events
        /\ events[result[p]].key = request[p].key
        /\ request[p].key = NoKey =>
              /\ Entry(events[result[p]]) = request[p]
              /\ \A ack \in acks : ack.position # result[p]
              /\ \A q \in Procs \ {p} :
                    pc[q] = "return" => result[q] # result[p]

\* Calls are numbered apart, and answered at most once.
CallsApart ==
    /\ \A ack \in acks : ack.call <= calls /\ ack.position \in DOMAIN events
    /\ \A p \in Procs : pc[p] # "idle" =>
          /\ call[p] \in 1..calls
          /\ \A ack \in acks : ack.call # call[p]
          /\ \A q \in Procs \ {p} : pc[q] # "idle" => call[q] # call[p]

LInv ==
    /\ TypeOK
    /\ ChainVerifies
    /\ KeysUnique
    /\ DraftFollows
    /\ ResultStands
    /\ CallsApart

\* However a transaction ends, the lock is free again.
LockIsReleased == \A p \in Procs : lock = p ~> lock # p

=============================================================================
