----------------------------- MODULE AppendLog -----------------------------
(***************************************************************************)
(* What the event ledger promises its callers: one log that only grows, in *)
(* which a key occurs at most once, and answers that name the entry that   *)
(* stands for the call.                                                    *)
(***************************************************************************)
EXTENDS Integers, Sequences

CONSTANTS
    Keys,       \* idempotency keys
    Payloads,
    NoKey,      \* the key of a call that gives none
    Calls       \* identifiers of append calls

Entries == [key : Keys \cup {NoKey}, payload : Payloads]

VARIABLES
    log,    \* the entries, in order
    acks    \* what was answered: the call, its entry, and a position in log

Init ==
    /\ log = <<>>
    /\ acks = {}

Used(key) == key # NoKey /\ \E i \in DOMAIN log : log[i].key = key

\* The entry is recorded, unless its key was used before.
Record(entry) ==
    /\ ~Used(entry.key)
    /\ log' = Append(log, entry)
    /\ UNCHANGED acks

\* A call is answered with an entry of its key or, without a key, with an
\* entry of its own no other call was answered with.
Acknowledge(call, entry, i) ==
    /\ \A ack \in acks : ack.call # call
    /\ log[i].key = entry.key
    /\ entry.key = NoKey => /\ log[i] = entry
                            /\ \A ack \in acks : ack.position # i
    /\ acks' = acks \cup {[call |-> call, entry |-> entry, position |-> i]}
    /\ UNCHANGED log

Next ==
    \E entry \in Entries :
        \/ Record(entry)
        \/ \E call \in Calls, i \in DOMAIN log : Acknowledge(call, entry, i)

Spec == Init /\ [][Next]_<<log, acks>>

=============================================================================
