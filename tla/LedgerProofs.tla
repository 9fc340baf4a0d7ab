---------------------------- MODULE LedgerProofs ----------------------------
(***************************************************************************)
(* Proofs about the ledger, for any number of processes, keys and calls.   *)
(***************************************************************************)
EXTENDS Ledger, SequenceTheorems, TLAPS

(***************************************************************************)
(* Facts about tables.                                                     *)
(***************************************************************************)

\* The hash of a row is a digest.
LEMMA HashIsDigest ==
    ASSUME NEW row \in Rows
    PROVE  ComputeHash(row) \in Digests
BY DEF Rows, ComputeHash, Digests, Contents

\* A row about to be appended to a verified table fits it.
LEMMA NewRowFits ==
    ASSUME NEW rows \in Seq(Rows), VerifyChain(rows), NEW r \in Requests
    PROVE  /\ NextSequence(rows) = Len(rows) + 1
           /\ NewRow(rows, r) \in Rows
           /\ Sealed(NewRow(rows, r)) \in Rows
           /\ Entry(NewRow(rows, r)) = r
           /\ Entry(Sealed(NewRow(rows, r))) = r
<1>1. NextSequence(rows) = Len(rows) + 1
    BY DEF NextSequence, VerifyChain
<1>2. LastHash(rows) \in Digests
  <2>1. CASE rows = <<>>
      BY <2>1 DEF LastHash, GenesisHash, Digests
  <2>2. CASE rows # <<>>
    <3>1. Len(rows) \in DOMAIN rows /\ rows[Len(rows)] \in Rows
        BY <2>2
    <3>2. rows[Len(rows)].event_hash \in Digests
        BY <3>1, HashIsDigest DEF VerifyChain
    <3> QED
        BY <2>2, <3>2 DEF LastHash
  <2> QED
      BY <2>1, <2>2
<1>3. NewRow(rows, r) \in Rows
    BY <1>1, <1>2 DEF NewRow, Rows, Requests
<1>4. Sealed(NewRow(rows, r)) \in Rows
    BY <1>3, HashIsDigest DEF Sealed, Rows
<1>5. Entry(NewRow(rows, r)) = r
    BY DEF Entry, NewRow, Requests
<1>6. Entry(Sealed(NewRow(rows, r))) = r
    BY <1>5 DEF Entry, Sealed, NewRow
<1> QED
    BY <1>1, <1>3, <1>4, <1>5, <1>6

\* Appending the sealed row keeps the chain.
LEMMA SealedExtendsChain ==
    ASSUME NEW rows \in Seq(Rows), VerifyChain(rows), NEW r \in Requests
    PROVE  VerifyChain(Append(rows, Sealed(NewRow(rows, r))))
<1> DEFINE row == Sealed(NewRow(rows, r))
           longer == Append(rows, row)
<1>1. row \in Rows /\ NextSequence(rows) = Len(rows) + 1
    BY NewRowFits
<1>2. /\ row.sequence = Len(rows) + 1
      /\ row.prev_hash = LastHash(rows)
      /\ row.event_hash = ComputeHash(row)
    BY <1>1 DEF Sealed, NewRow, ComputeHash
<1>3. /\ Len(longer) = Len(rows) + 1
      /\ \A i \in 1..Len(rows) : longer[i] = rows[i]
      /\ longer[Len(rows) + 1] = row
      /\ DOMAIN longer = 1..(Len(rows) + 1)
    BY <1>1
<1>4. LastHash(rows) = IF Len(rows) + 1 = 1 THEN GenesisHash
                                          ELSE rows[Len(rows)].event_hash
    BY DEF LastHash
<1> HIDE DEF row, longer
<1>5. ASSUME NEW i \in DOMAIN longer
      PROVE  /\ longer[i].sequence = i
             /\ longer[i].prev_hash =
                    IF i = 1 THEN GenesisHash ELSE longer[i - 1].event_hash
             /\ longer[i].event_hash = ComputeHash(longer[i])
  <2>1. CASE i \in 1..Len(rows)
    <3>1. i = 1 \/ i - 1 \in 1..Len(rows)
        BY <2>1
    <3> QED
        BY <1>3, <2>1, <3>1 DEF VerifyChain
  <2>2. CASE i = Len(rows) + 1
    <3>1. i = 1 \/ i - 1 \in 1..Len(rows)
        BY <2>2
    <3> QED
        BY <1>2, <1>3, <1>4, <2>2, <3>1
  <2> QED
      BY <1>3, <2>1, <2>2
<1> QED
    BY <1>5 DEF VerifyChain, longer, row

\* Appending a row whose key is unused keeps the keys unique.
LEMMA UnusedKeepsUnique ==
    ASSUME NEW rows \in Seq(Rows), NEW row \in Rows, Unused(rows, row.key),
           \A i, j \in DOMAIN rows :
               (rows[i].key = rows[j].key /\ rows[i].key # NoKey) => i = j,
           NEW i \in DOMAIN Append(rows, row), NEW j \in DOMAIN Append(rows, row),
           Append(rows, row)[i].key = Append(rows, row)[j].key,
           Append(rows, row)[i].key # NoKey
    PROVE  i = j
<1> DEFINE longer == Append(rows, row)
<1>1. /\ DOMAIN longer = 1..(Len(rows) + 1)
      /\ \A n \in 1..Len(rows) : longer[n] = rows[n]
      /\ longer[Len(rows) + 1] = row
    OBVIOUS
<1>2. \A n \in 1..Len(rows) : row.key # NoKey => rows[n].key # row.key
    BY DEF Unused, RowsWithKey
<1> QED
    BY <1>1, <1>2

-----------------------------------------------------------------------------
(***************************************************************************)
(* The inductive invariant.                                                *)
(***************************************************************************)

\* An empty, unlocked ledger satisfies it.
LEMMA InitLInv == Init => LInv
<1> SUFFICES ASSUME Init PROVE LInv
    OBVIOUS
<1>1. TypeOK
  <2>1. NoRequest \in Requests
      BY LedgerAssumption DEF NoRequest, Requests, AllKeys
  <2> QED
      BY <2>1, LedgerAssumption
      DEF Init, TypeOK, Labels, Holding
<1>2. ChainVerifies /\ KeysUnique
    BY DEF Init, ChainVerifies, VerifyChain, KeysUnique
<1>3. DraftFollows
    BY DEF Init, DraftFollows
<1>4. ResultStands /\ CallsApart
    BY DEF Init, ResultStands, CallsApart
<1> QED
    BY <1>1, <1>2, <1>3, <1>4 DEF LInv

\* A call begins: it gets a number of its own.
LEMMA CallLInv ==
    ASSUME LInv, NEW p \in Procs, NEW r \in Requests, Call(p, r)
    PROVE  LInv'
<1> USE DEF LInv
<1>1. TypeOK'
    BY LedgerAssumption DEF Call, Goto, TypeOK, Labels, Holding
<1>2. (ChainVerifies /\ KeysUnique)'
    BY DEF Call, ChainVerifies, KeysUnique
<1>3. DraftFollows'
    BY DEF Call, Goto, TypeOK, DraftFollows
<1>4. ResultStands'
    BY DEF Call, Goto, TypeOK, ResultStands
<1>5. CallsApart'
    BY LedgerAssumption DEF Call, Goto, TypeOK, CallsApart
<1> QED
    BY <1>1, <1>2, <1>3, <1>4, <1>5

\* The transaction begins on the committed table.
LEMMA BeginLInv ==
    ASSUME LInv, NEW p \in Procs, Begin(p)
    PROVE  LInv'
<1> USE DEF LInv
<1>1. TypeOK'
    BY LedgerAssumption DEF Begin, Goto, TypeOK, Labels, Holding
<1>2. (ChainVerifies /\ KeysUnique)'
    BY DEF Begin, ChainVerifies, KeysUnique
<1>3. DraftFollows'
  <2>1. \A q \in Procs : pc[q] \notin {"lookup", "insert", "seal", "commit"}
      BY LedgerAssumption DEF Begin, TypeOK, Holding
  <2> QED
      BY <2>1 DEF Begin, Goto, TypeOK, DraftFollows
<1>4. ResultStands'
    BY DEF Begin, Goto, TypeOK, ResultStands
<1>5. CallsApart'
    BY DEF Begin, Goto, TypeOK, CallsApart
<1> QED
    BY <1>1, <1>2, <1>3, <1>4, <1>5

\* Whoever stops waiting leaves everything as it was.
LEMMA BusyTimeoutLInv ==
    ASSUME LInv, NEW p \in Procs, BusyTimeout(p)
    PROVE  LInv'
<1> USE DEF LInv
<1>1. TypeOK'
    BY DEF BusyTimeout, Goto, TypeOK, Labels, Holding
<1>2. (ChainVerifies /\ KeysUnique)'
    BY DEF BusyTimeout, ChainVerifies, KeysUnique
<1>3. DraftFollows'
    BY DEF BusyTimeout, Goto, TypeOK, DraftFollows
<1>4. ResultStands'
    BY DEF BusyTimeout, Goto, TypeOK, ResultStands
<1>5. CallsApart'
    BY DEF BusyTimeout, Goto, TypeOK, CallsApart
<1> QED
    BY <1>1, <1>2, <1>3, <1>4, <1>5

\* Only the process in the transaction is past its begin.
LEMMA OneHolder ==
    ASSUME TypeOK, NEW p \in Procs, pc[p] \in Holding, NEW q \in Procs, q # p
    PROVE  pc[q] \notin Holding
BY DEF TypeOK

\* The lookup finds the row of the key, or finds the key unused.
LEMMA LookupLInv ==
    ASSUME LInv, NEW p \in Procs, Lookup(p)
    PROVE  LInv'
<1> USE DEF LInv
<1>1. /\ pc[p] = "lookup" /\ draft = events
      /\ events \in Seq(Rows)
    BY DEF Lookup, DraftFollows, TypeOK
<1>2. \A i \in DOMAIN events :
          events[i].sequence = i /\ events[i].sequence \in Nat
    BY <1>1 DEF ChainVerifies, VerifyChain, Rows
<1>3. TypeOK'
  <2>1. result' \in [Procs -> Nat]
      BY <1>1, <1>2 DEF Lookup, RowsWithKey, TypeOK
  <2> QED
      BY <2>1 DEF Lookup, Goto, TypeOK, Labels, Holding
<1>4. (ChainVerifies /\ KeysUnique)'
    BY DEF Lookup, ChainVerifies, KeysUnique
<1>5. DraftFollows'
  <2>1. \A q \in Procs \ {p} :
            /\ pc'[q] = pc[q]
            /\ pc[q] \notin {"lookup", "insert", "seal", "commit"}
      BY <1>1, OneHolder DEF Lookup, Goto, TypeOK, Holding
  <2>2. CASE /\ request[p].key \in Keys
             /\ \E i \in RowsWithKey(draft, request[p].key) :
                    result' = [result EXCEPT ![p] = draft[i].sequence]
             /\ Goto(p, "commit")
    <3>1. result'[p] \in RowsWithKey(events, request[p].key)
        BY <1>1, <1>2, <2>2 DEF RowsWithKey, TypeOK
    <3>2. pc'[p] = "commit"
        BY <2>2 DEF Goto, TypeOK
    <3> QED
        BY <1>1, <2>1, <2>2, <3>1, <3>2 DEF Lookup, DraftFollows
  <2>3. CASE /\ request[p].key \in Keys =>
                    RowsWithKey(draft, request[p].key) = {}
             /\ Goto(p, "insert")
             /\ UNCHANGED result
    <3>1. pc'[p] = "insert"
        BY <2>3 DEF Goto, TypeOK
    <3> QED
        BY <1>1, <2>1, <2>3, <3>1 DEF Lookup, DraftFollows, Unused
  <2> QED
      BY <2>2, <2>3 DEF Lookup
<1>6. ResultStands'
  <2>1. \A q \in Procs : pc'[q] = "return" =>
            q # p /\ pc[q] = "return" /\ result'[q] = result[q]
      BY <1>1 DEF Lookup, Goto, TypeOK
  <2> QED
      BY <2>1 DEF Lookup, ResultStands
<1>7. CallsApart'
    BY <1>1 DEF Lookup, Goto, TypeOK, CallsApart
<1> QED
    BY <1>3, <1>4, <1>5, <1>6, <1>7

\* The row is inserted under a key nobody used.
LEMMA InsertLInv ==
    ASSUME LInv, NEW p \in Procs, Insert(p)
    PROVE  LInv'
<1> USE DEF LInv
<1>1. /\ pc[p] = "insert" /\ draft = events
      /\ events \in Seq(Rows) /\ VerifyChain(events)
      /\ request[p] \in Requests
    BY DEF Insert, DraftFollows, TypeOK, ChainVerifies
<1>2. /\ NextSequence(events) = Len(events) + 1
      /\ NewRow(events, request[p]) \in Rows
    BY <1>1, NewRowFits
<1>3. TypeOK'
  <2>1. draft' \in Seq(Rows)
      BY <1>1, <1>2 DEF Insert
  <2>2. result' \in [Procs -> Nat]
      BY <1>1, <1>2 DEF Insert, TypeOK
  <2> QED
      BY <2>1, <2>2 DEF Insert, Goto, TypeOK, Labels, Holding
<1>4. (ChainVerifies /\ KeysUnique)'
    BY DEF Insert, ChainVerifies, KeysUnique
<1>5. DraftFollows'
  <2>1. \A q \in Procs \ {p} :
            /\ pc'[q] = pc[q]
            /\ pc[q] \notin {"lookup", "insert", "seal", "commit"}
      BY <1>1, OneHolder DEF Insert, Goto, TypeOK, Holding
  <2>2. /\ pc'[p] = "seal"
        /\ result'[p] = Len(events) + 1
        /\ draft' = Append(events, NewRow(events, request[p]))
      BY <1>1, <1>2 DEF Insert, Goto, TypeOK
  <2>3. Unused(events, request[p].key)
      BY <1>1 DEF Insert, Unused
  <2> QED
      BY <2>1, <2>2, <2>3 DEF Insert, DraftFollows
<1>6. ResultStands'
    BY <1>1 DEF Insert, Goto, TypeOK, ResultStands
<1>7. CallsApart'
    BY <1>1 DEF Insert, Goto, TypeOK, CallsApart
<1> QED
    BY <1>3, <1>4, <1>5, <1>6, <1>7

\* A refused insert rolls the transaction back.
LEMMA InsertRefusedLInv ==
    ASSUME LInv, NEW p \in Procs, InsertRefused(p)
    PROVE  LInv'
<1> USE DEF LInv
<1>1. pc[p] = "insert" /\ lock = p
    BY DEF InsertRefused, TypeOK, Holding
<1>2. TypeOK'
    BY <1>1, LedgerAssumption
    DEF InsertRefused, Goto, TypeOK, Labels, Holding
<1>3. (ChainVerifies /\ KeysUnique)'
    BY DEF InsertRefused, ChainVerifies, KeysUnique
<1>4. DraftFollows'
  <2>1. \A q \in Procs :
            pc'[q] \notin {"lookup", "insert", "seal", "commit"}
      BY <1>1, OneHolder DEF InsertRefused, Goto, TypeOK, Holding
  <2> QED
      BY <2>1 DEF DraftFollows
<1>5. ResultStands'
    BY <1>1 DEF InsertRefused, Goto, TypeOK, ResultStands
<1>6. CallsApart'
    BY <1>1 DEF InsertRefused, Goto, TypeOK, CallsApart
<1> QED
    BY <1>2, <1>3, <1>4, <1>5, <1>6

\* Sealing replaces the placeholder in the last row of the draft.
LEMMA SealLInv ==
    ASSUME LInv, NEW p \in Procs, Seal(p)
    PROVE  LInv'
<1> USE DEF LInv
<1> DEFINE row == NewRow(events, request[p])
<1>1. /\ pc[p] = "seal"
      /\ events \in Seq(Rows) /\ VerifyChain(events)
      /\ request[p] \in Requests
      /\ Unused(events, request[p].key)
      /\ result[p] = Len(events) + 1
      /\ draft = Append(events, row)
    BY DEF Seal, DraftFollows, TypeOK, ChainVerifies
<1>2. row \in Rows /\ Sealed(row) \in Rows
    BY <1>1, NewRowFits
<1>3. draft' = Append(events, Sealed(row))
  <2> HIDE DEF row
  <2>1. /\ Append(events, row) \in Seq(Rows)
        /\ Len(Append(events, row)) = Len(events) + 1
        /\ Append(events, row)[Len(events) + 1] = row
        /\ \A i \in 1..Len(events) : Append(events, row)[i] = events[i]
      BY <1>1, <1>2
  <2>2. draft' = [Append(events, row) EXCEPT ![Len(events) + 1] = Sealed(row)]
      BY <1>1, <2>1 DEF Seal, Sealed
  <2>3. /\ draft' \in Seq(Rows)
        /\ Len(draft') = Len(events) + 1
        /\ \A i \in 1..(Len(events) + 1) :
               draft'[i] = IF i = Len(events) + 1 THEN Sealed(row)
                                                  ELSE events[i]
    <3> DEFINE old == Append(events, row)
               last == Len(events) + 1
    <3>1. last \in 1..Len(old) /\ old \in Seq(Rows) /\ Sealed(row) \in Rows
        BY <1>1, <1>2, <2>1
    <3>2. draft' = [old EXCEPT ![last] = Sealed(row)] /\ Len(old) = last
        BY <2>1, <2>2
    <3>3. \A i \in 1..last : i # last => old[i] = events[i]
        BY <1>1, <2>1
    <3> HIDE DEF old, last
    <3>4. /\ draft' \in Seq(Rows)
          /\ Len(draft') = Len(old)
          /\ \A i \in 1..Len(old) :
                 draft'[i] = IF i = last THEN Sealed(row) ELSE old[i]
        BY <3>1, <3>2, ExceptSeq
    <3> QED
        BY <3>2, <3>3, <3>4 DEF last
  <2>4. /\ Append(events, Sealed(row)) \in Seq(Rows)
        /\ Len(Append(events, Sealed(row))) = Len(events) + 1
        /\ \A i \in 1..(Len(events) + 1) :
               Append(events, Sealed(row))[i] =
                   IF i = Len(events) + 1 THEN Sealed(row) ELSE events[i]
      BY <1>1, <1>2
  <2> QED
      BY <2>3, <2>4, SeqEqual
<1>4. TypeOK'
  <2>1. draft' \in Seq(Rows)
      BY <1>1, <1>2, <1>3
  <2> QED
      BY <2>1 DEF Seal, Goto, TypeOK, Labels, Holding
<1>5. (ChainVerifies /\ KeysUnique)'
    BY DEF Seal, ChainVerifies, KeysUnique
<1>6. DraftFollows'
  <2>1. \A q \in Procs \ {p} :
            /\ pc'[q] = pc[q]
            /\ pc[q] \notin {"lookup", "insert", "seal", "commit"}
      BY <1>1, OneHolder DEF Seal, Goto, TypeOK, Holding
  <2>2. pc'[p] = "commit"
      BY DEF Seal, Goto, TypeOK
  <2> QED
      BY <1>1, <1>3, <2>1, <2>2 DEF Seal, DraftFollows
<1>7. ResultStands'
    BY <1>1 DEF Seal, Goto, TypeOK, ResultStands
<1>8. CallsApart'
    BY <1>1 DEF Seal, Goto, TypeOK, CallsApart
<1> QED
    BY <1>4, <1>5, <1>6, <1>7, <1>8

\* What a commit writes: nothing new, or one sealed row under a new key.
LEMMA CommitWrites ==
    ASSUME LInv, NEW p \in Procs, Commit(p)
    PROVE  /\ events \in Seq(Rows) /\ VerifyChain(events)
           /\ request[p] \in Requests
           /\ \/ /\ events' = events
                 /\ request[p].key \in Keys
                 /\ result[p] \in RowsWithKey(events, request[p].key)
              \/ /\ events' = Append(events, Sealed(NewRow(events, request[p])))
                 /\ Unused(events, request[p].key)
                 /\ result[p] = Len(events) + 1
BY DEF LInv, TypeOK, ChainVerifies, DraftFollows, Commit

\* The committed table only grows, and the row at result is the answer.
LEMMA CommitAppends ==
    ASSUME LInv, NEW p \in Procs, Commit(p)
    PROVE  /\ events' \in Seq(Rows)
           /\ VerifyChain(events')
           /\ DOMAIN events \subseteq DOMAIN events'
           /\ \A i \in DOMAIN events : events'[i] = events[i]
           /\ result[p] \in DOMAIN events'
           /\ events'[result[p]].key = request[p].key
           /\ request[p].key = NoKey =>
                 /\ result[p] \notin DOMAIN events
                 /\ Entry(events'[result[p]]) = request[p]
<1> DEFINE row == Sealed(NewRow(events, request[p]))
<1>1. /\ events \in Seq(Rows) /\ VerifyChain(events)
      /\ request[p] \in Requests
    BY CommitWrites
<1>2. CASE /\ events' = events
           /\ request[p].key \in Keys
           /\ result[p] \in RowsWithKey(events, request[p].key)
    BY <1>1, <1>2, LedgerAssumption DEF RowsWithKey
<1>3. CASE /\ events' = Append(events, row)
           /\ Unused(events, request[p].key)
           /\ result[p] = Len(events) + 1
  <2>1. row \in Rows /\ Entry(row) = request[p]
      BY <1>1, NewRowFits
  <2>2. VerifyChain(events')
      BY <1>1, <1>3, SealedExtendsChain
  <2>3. row.key = request[p].key
      BY DEF Sealed, NewRow
  <2> HIDE DEF row
  <2>4. /\ events' \in Seq(Rows)
        /\ DOMAIN events' = 1..(Len(events) + 1)
        /\ \A i \in DOMAIN events : events'[i] = events[i]
        /\ events'[Len(events) + 1] = row
      BY <1>1, <1>3, <2>1
  <2> QED
      BY <1>1, <1>3, <2>1, <2>2, <2>3, <2>4
<1> QED
    BY CommitWrites, <1>2, <1>3

\* The draft becomes the table.
LEMMA CommitLInv ==
    ASSUME LInv, NEW p \in Procs, Commit(p)
    PROVE  LInv'
<1> USE DEF LInv
<1>1. /\ pc[p] = "commit" /\ lock = p
      /\ pc' = [pc EXCEPT ![p] = "return"]
      /\ UNCHANGED <<request, call, result, calls, acks>>
    BY DEF Commit, Goto, TypeOK, Holding
<1>2. TypeOK'
  <2>1. events' \in Seq(Rows)
      BY CommitAppends
  <2> QED
      BY <1>1, <2>1, LedgerAssumption DEF Commit, TypeOK, Labels, Holding
<1>3. ChainVerifies'
    BY CommitAppends DEF ChainVerifies
<1>4. KeysUnique'
  <2>1. CASE events' = events
      BY <2>1 DEF KeysUnique
  <2>2. CASE /\ events' = Append(events, Sealed(NewRow(events, request[p])))
             /\ Unused(events, request[p].key)
    <3> DEFINE row == Sealed(NewRow(events, request[p]))
    <3>1. row.key = request[p].key
        BY DEF Sealed, NewRow
    <3>2. row \in Rows /\ events \in Seq(Rows)
        BY NewRowFits, CommitWrites
    <3>3. events' = Append(events, row) /\ Unused(events, row.key)
        BY <2>2, <3>1
    <3> HIDE DEF row
    <3>4. \A i, j \in DOMAIN Append(events, row) :
              (/\ Append(events, row)[i].key = Append(events, row)[j].key
               /\ Append(events, row)[i].key # NoKey) => i = j
        BY <3>2, <3>3, UnusedKeepsUnique DEF KeysUnique
    <3> QED
        BY <3>3, <3>4 DEF KeysUnique
  <2> QED
      BY <2>1, <2>2, CommitWrites
<1>5. DraftFollows'
  <2>1. \A q \in Procs :
            pc'[q] \notin {"lookup", "insert", "seal", "commit"}
      BY <1>1, OneHolder DEF TypeOK, Holding
  <2> QED
      BY <2>1 DEF DraftFollows
<1>6. ResultStands'
  <2>1. /\ \A i \in DOMAIN events :
               i \in DOMAIN events' /\ events'[i] = events[i]
        /\ result[p] \in DOMAIN events'
        /\ events'[result[p]].key = request[p].key
        /\ request[p].key = NoKey =>
              /\ result[p] \notin DOMAIN events
              /\ Entry(events'[result[p]]) = request[p]
      BY CommitAppends
  <2>2. \A q \in Procs \ {p} : pc'[q] = "return" =>
            /\ pc[q] = "return"
            /\ result[q] \in DOMAIN events
      BY <1>1 DEF TypeOK, ResultStands
  <2>3. \A ack \in acks : ack.position \in DOMAIN events
      BY DEF CallsApart
  <2>4. ASSUME NEW q \in Procs, pc'[q] = "return", q # p
        PROVE  /\ result[q] \in DOMAIN events'
               /\ events'[result[q]].key = request[q].key
               /\ request[q].key = NoKey =>
                     /\ Entry(events'[result[q]]) = request[q]
                     /\ \A ack \in acks : ack.position # result[q]
                     /\ \A o \in Procs \ {q} :
                           pc'[o] = "return" => result[o] # result[q]
    <3>1. /\ pc[q] = "return"
          /\ result[q] \in DOMAIN events
          /\ events'[result[q]] = events[result[q]]
        BY <2>1, <2>2, <2>4
    <3>2. request[q].key = NoKey => result[p] # result[q]
      <4>1. CASE request[p].key = NoKey
          BY <2>1, <3>1, <4>1
      <4>2. CASE request[p].key # NoKey
          BY <2>1, <3>1, <4>2 DEF ResultStands
      <4> QED
          BY <4>1, <4>2
    <3> QED
        BY <1>1, <2>1, <2>2, <3>1, <3>2 DEF ResultStands
  <2>5. request[p].key = NoKey =>
            /\ \A ack \in acks : ack.position # result[p]
            /\ \A o \in Procs \ {p} :
                  pc'[o] = "return" => result[o] # result[p]
      BY <2>1, <2>2, <2>3
  <2> QED
      BY <1>1, <2>1, <2>4, <2>5 DEF ResultStands
<1>7. CallsApart'
    BY <1>1, CommitAppends DEF TypeOK, CallsApart
<1> QED
    BY <1>2, <1>3, <1>4, <1>5, <1>6, <1>7

\* An answer is noted under the number of its call.
LEMMA ReturnLInv ==
    ASSUME LInv, NEW p \in Procs, Return(p)
    PROVE  LInv'
<1> USE DEF LInv
<1> DEFINE new == [call |-> call[p], entry |-> request[p],
                   position |-> result[p]]
<1>1. /\ pc[p] = "return"
      /\ pc' = [pc EXCEPT ![p] = "idle"]
      /\ acks' = acks \cup {new}
      /\ UNCHANGED <<events, draft, lock, request, call, result, calls>>
      /\ call[p] \in 1..calls
      /\ result[p] \in DOMAIN events
    BY DEF Return, Goto, CallsApart, ResultStands
<1>2. TypeOK'
    BY <1>1, LedgerAssumption DEF TypeOK, Labels, Holding
<1>3. (ChainVerifies /\ KeysUnique)'
    BY <1>1 DEF ChainVerifies, KeysUnique
<1>4. DraftFollows'
    BY <1>1 DEF TypeOK, DraftFollows
<1>5. ResultStands'
  <2>1. \A q \in Procs : pc'[q] = "return" => pc[q] = "return" /\ q # p
      BY <1>1 DEF TypeOK
  <2>2. ASSUME NEW q \in Procs, pc'[q] = "return", request[q].key = NoKey
        PROVE  result[p] # result[q]
      BY <1>1, <2>1, <2>2 DEF ResultStands
  <2> QED
      BY <1>1, <2>1, <2>2 DEF ResultStands
<1>6. CallsApart'
    BY <1>1 DEF TypeOK, CallsApart
<1> QED
    BY <1>2, <1>3, <1>4, <1>5, <1>6

\* A killed process leaves the committed table and the other processes alone.
LEMMA CrashLInv ==
    ASSUME LInv, NEW p \in Procs, Crash(p)
    PROVE  LInv'
<1> USE DEF LInv
<1>1. TypeOK'
    BY LedgerAssumption DEF Crash, Goto, TypeOK, Labels, Holding
<1>2. (ChainVerifies /\ KeysUnique)'
    BY DEF Crash, ChainVerifies, KeysUnique
<1>3. DraftFollows'
  <2>1. CASE lock = p
    <3>1. \A q \in Procs :
              pc'[q] \notin {"lookup", "insert", "seal", "commit"}
        BY <2>1, OneHolder DEF Crash, Goto, TypeOK, Holding
    <3> QED
        BY <3>1 DEF DraftFollows
  <2>2. CASE lock # p
      BY <2>2 DEF Crash, Goto, TypeOK, DraftFollows
  <2> QED
      BY <2>1, <2>2
<1>4. ResultStands'
    BY DEF Crash, Goto, TypeOK, ResultStands
<1>5. CallsApart'
    BY DEF Crash, Goto, TypeOK, CallsApart
<1> QED
    BY <1>1, <1>2, <1>3, <1>4, <1>5

\* The invariant holds in every reachable state.
THEOREM LedgerInvariant == Spec => []LInv
<1>1. LInv /\ [Next]_vars => LInv'
  <2> SUFFICES ASSUME LInv, [Next]_vars PROVE LInv'
      OBVIOUS
  <2>1. CASE Next
      BY <2>1, CallLInv, BeginLInv, BusyTimeoutLInv, LookupLInv, InsertLInv,
         InsertRefusedLInv, SealLInv, CommitLInv, ReturnLInv, CrashLInv
      DEF Next, InTransaction
  <2>2. CASE UNCHANGED vars
      BY <2>2 DEF vars, LInv, TypeOK, ChainVerifies, KeysUnique, DraftFollows,
                  ResultStands, CallsApart
  <2> QED
      BY <2>1, <2>2
<1> QED
    BY InitLInv, <1>1, PTL DEF Spec

\* Type correctness of the ledger.
THEOREM LedgerTypeCorrect == Spec => []TypeOK
<1>1. LInv => TypeOK
    BY DEF LInv
<1> QED
    BY <1>1, LedgerInvariant, PTL

\* The committed chain verifies at every moment, whoever crashes or waits.
THEOREM ChainAlwaysVerifies == Spec => []ChainVerifies
<1>1. LInv => ChainVerifies
    BY DEF LInv
<1> QED
    BY <1>1, LedgerInvariant, PTL

\* No idempotency key is ever recorded twice.
THEOREM KeysAlwaysUnique == Spec => []KeysUnique
<1>1. LInv => KeysUnique
    BY DEF LInv
<1> QED
    BY <1>1, LedgerInvariant, PTL

-----------------------------------------------------------------------------
(***************************************************************************)
(* Refinement: append_event is atomic to its callers.                      *)
(***************************************************************************)

\* What a table says once the hashes are forgotten.
Told(rows) == [i \in DOMAIN rows |-> Entry(rows[i])]

\* Appending a row appends its entry.
LEMMA ToldAppend ==
    ASSUME NEW rows \in Seq(Rows), NEW row \in Rows
    PROVE  Told(Append(rows, row)) = Append(Told(rows), Entry(row))
<1> DEFINE left == Told(Append(rows, row))
           right == Append(Told(rows), Entry(row))
<1>1. \A r \in Rows : Entry(r) \in Requests
    BY DEF Entry, Rows, Requests
<1>2. /\ Append(rows, row) \in Seq(Rows)
      /\ DOMAIN Append(rows, row) = 1..(Len(rows) + 1)
      /\ \A i \in 1..Len(rows) : Append(rows, row)[i] = rows[i]
      /\ Append(rows, row)[Len(rows) + 1] = row
      /\ \A i \in 1..Len(rows) : rows[i] \in Rows
    OBVIOUS
<1>3. /\ left = [i \in 1..(Len(rows) + 1) |-> Entry(Append(rows, row)[i])]
      /\ Told(rows) = [i \in 1..Len(rows) |-> Entry(rows[i])]
    BY <1>2 DEF Told
<1>4. Told(rows) \in Seq(Requests) /\ Len(Told(rows)) = Len(rows)
    BY <1>1, <1>2, <1>3
<1>5. left \in Seq(Requests) /\ Len(left) = Len(rows) + 1
    BY <1>1, <1>2, <1>3
<1>6. right \in Seq(Requests) /\ Len(right) = Len(rows) + 1
    BY <1>1, <1>4
<1>7. \A i \in 1..(Len(rows) + 1) : left[i] = right[i]
  <2> SUFFICES ASSUME NEW i \in 1..(Len(rows) + 1) PROVE left[i] = right[i]
      OBVIOUS
  <2>1. left[i] = Entry(Append(rows, row)[i])
      BY <1>3
  <2>2. right[i] = IF i \in 1..Len(rows) THEN Told(rows)[i] ELSE Entry(row)
      BY <1>1, <1>4
  <2>3. i \in 1..Len(rows) => Told(rows)[i] = Entry(rows[i])
      BY <1>3
  <2>4. i \notin 1..Len(rows) => i = Len(rows) + 1
      OBVIOUS
  <2> HIDE DEF left, right
  <2> QED
      BY <1>2, <2>1, <2>2, <2>3, <2>4
<1> HIDE DEF left, right
<1>8. left = right
    BY <1>5, <1>6, <1>7, SeqEqual
<1> QED
    BY <1>8 DEF left, right

\* A commit records one entry under an unused key, or nothing.
LEMMA CommitRefines ==
    ASSUME LInv, NEW p \in Procs, Commit(p)
    PROVE  [Log!Next]_<<Told(events), acks>>
<1>1. /\ acks' = acks /\ events \in Seq(Rows) /\ VerifyChain(events)
      /\ request[p] \in Requests
    BY CommitWrites DEF Commit
<1>2. CASE events' = events
    BY <1>1, <1>2 DEF Told
<1>3. CASE /\ events' = Append(events, Sealed(NewRow(events, request[p])))
           /\ Unused(events, request[p].key)
  <2>1. Told(events)' = Append(Told(events), request[p])
    <3> DEFINE row == Sealed(NewRow(events, request[p]))
    <3>1. row \in Rows /\ Entry(row) = request[p]
        BY <1>1, NewRowFits
    <3> HIDE DEF row
    <3>2. Told(Append(events, row)) = Append(Told(events), request[p])
        BY <1>1, <3>1, ToldAppend
    <3>3. events' = Append(events, row)
        BY <1>3 DEF row
    <3>4. Told(events)' = Told(Append(events, row))
        BY <3>3 DEF Told
    <3> QED
        BY <3>2, <3>4
  <2>2. ~Log!Used(request[p].key)
      BY <1>3 DEF Log!Used, Unused, RowsWithKey, Entry
  <2>3. request[p] \in Log!Entries
      BY <1>1 DEF Requests, AllKeys, Log!Entries
  <2>4. Log!Record(request[p])
      BY <1>1, <2>1, <2>2 DEF Log!Record, Told
  <2> QED
      BY <2>3, <2>4 DEF Log!Next
<1> QED
    BY CommitWrites, <1>2, <1>3

\* A return acknowledges with the entry of the call.
LEMMA ReturnRefines ==
    ASSUME LInv, NEW p \in Procs, Return(p)
    PROVE  Log!Next
<1> DEFINE n == result[p]
<1>1. /\ pc[p] = "return"
      /\ events' = events
      /\ request[p] \in Requests
      /\ call[p] \in 1..MaxCalls
    BY LedgerAssumption DEF Return, LInv, TypeOK, CallsApart
<1>2. /\ n \in DOMAIN events
      /\ events[n].key = request[p].key
      /\ request[p].key = NoKey =>
            /\ Entry(events[n]) = request[p]
            /\ \A ack \in acks : ack.position # n
    BY <1>1 DEF LInv, ResultStands
<1>3. \A ack \in acks : ack.call # call[p]
    BY <1>1 DEF LInv, CallsApart
<1>4. acks' = acks \cup {[call |-> call[p], entry |-> request[p],
                          position |-> n]}
    BY DEF Return
<1>5. /\ n \in DOMAIN Told(events)
      /\ Told(events)[n] = Entry(events[n])
      /\ Told(events)[n].key = request[p].key
    BY <1>2 DEF Told, Entry
<1>6. Told(events)' = Told(events)
    BY <1>1 DEF Told
<1>7. request[p] \in Log!Entries
    BY <1>1 DEF Requests, AllKeys, Log!Entries
<1> HIDE DEF n
<1>8. Log!Acknowledge(call[p], request[p], n)
    BY <1>2, <1>3, <1>4, <1>5, <1>6 DEF Log!Acknowledge, Told
<1> QED
    BY <1>1, <1>5, <1>7, <1>8 DEF Log!Next, Told

\* Statement by statement, crashes and timeouts included, append_event
\* implements the abstract log.
THEOREM LedgerRefinement == Spec => ImplementsLog
<1>1. Init => Log!Init
    BY DEF Init, Log!Init
<1>2. LInv /\ [Next]_vars => [Log!Next]_<<Told(events), acks>>
  <2> SUFFICES ASSUME LInv, [Next]_vars
               PROVE  [Log!Next]_<<Told(events), acks>>
      OBVIOUS
  <2>1. ASSUME NEW p \in Procs,
               \/ \E r \in Requests : Call(p, r)
               \/ Begin(p) \/ BusyTimeout(p) \/ Lookup(p) \/ Insert(p)
               \/ InsertRefused(p) \/ Seal(p) \/ Crash(p)
        PROVE  UNCHANGED <<events, acks>>
      BY <2>1 DEF Call, Begin, BusyTimeout, Lookup, Insert, InsertRefused,
                  Seal, Crash
  <2>2. UNCHANGED <<events, acks>> => UNCHANGED <<Told(events), acks>>
      BY DEF Told
  <2>3. CASE UNCHANGED vars
      BY <2>2, <2>3 DEF vars
  <2>4. CASE Next
      BY <2>1, <2>2, <2>4, CommitRefines, ReturnRefines
      DEF Next, InTransaction
  <2> QED
      BY <2>3, <2>4
<1>3. LInv /\ [Next]_vars
        => [Log!Next]_<<[i \in DOMAIN events |-> Entry(events[i])], acks>>
    BY <1>2 DEF Told
<1> QED
    BY <1>1, <1>3, LedgerInvariant, PTL DEF Spec, ImplementsLog, Log!Spec

-----------------------------------------------------------------------------
(***************************************************************************)
(* Tampering.                                                              *)
(***************************************************************************)

\* A digest tells apart the contents that were committed last.
LEMMA DigestsDiffer ==
    ASSUME NEW s \in Digests, NEW c \in Contents, NEW d \in Contents, c # d
    PROVE  Append(s, c) # Append(s, d)
<1>1. Append(s, c)[Len(s) + 1] = c /\ Append(s, d)[Len(s) + 1] = d
  BY DEF Digests
<1> QED
  BY <1>1

\* A row of the table, with what the chain says of it.
LEMMA RowInChain ==
    ASSUME TypeOK, ChainVerifies, NEW i \in DOMAIN events
    PROVE  /\ i \in 1..Len(events) /\ DOMAIN events = 1..Len(events)
           /\ events[i] \in Rows
           /\ events[i].sequence = i
           /\ events[i].event_hash = ComputeHash(events[i])
           /\ events[i].prev_hash \in Digests
           /\ i + 1 \in DOMAIN events =>
                 events[i + 1].prev_hash = events[i].event_hash
<1>1. events \in Seq(Rows)
  BY DEF TypeOK
<1>2. events[i] \in Rows /\ i \in 1..Len(events) /\ DOMAIN events = 1..Len(events)
  BY <1>1
<1>3. /\ events[i].sequence = i
      /\ events[i].event_hash = ComputeHash(events[i])
  BY DEF ChainVerifies, VerifyChain
<1>4. i + 1 \in DOMAIN events => events[i + 1].prev_hash = events[i].event_hash
  <2> SUFFICES ASSUME i + 1 \in DOMAIN events
               PROVE  events[i + 1].prev_hash = events[i].event_hash
    OBVIOUS
  <2>1. events[i + 1].prev_hash =
            IF i + 1 = 1 THEN GenesisHash ELSE events[(i + 1) - 1].event_hash
    BY DEF ChainVerifies, VerifyChain
  <2>2. i + 1 # 1 /\ (i + 1) - 1 = i
    BY <1>2
  <2> QED
    BY <2>1, <2>2
<1>5. events[i].prev_hash \in Digests
  BY <1>2 DEF Rows
<1> QED
  BY <1>2, <1>3, <1>4, <1>5

\* Another payload has another digest: the row or the next one gives it away.
LEMMA EditShows ==
    ASSUME TypeOK, ChainVerifies, NEW i \in DOMAIN events,
           NEW x \in Payloads, x # events[i].payload
    PROVE  /\ ~VerifyChain(Edited(i, x))
           /\ i < Len(events) => ~VerifyChain(Rehashed(Edited(i, x), i))
<1> DEFINE row == events[i]
           content == [sequence |-> row.sequence, key |-> row.key,
                       payload |-> row.payload]
           edited == [row EXCEPT !.payload = x]
           other == [sequence |-> row.sequence, key |-> row.key, payload |-> x]
           table == Edited(i, x)
           anew == [edited EXCEPT !.event_hash = ComputeHash(edited)]
           rehashed == Rehashed(table, i)
<1>1. /\ row \in Rows /\ row.event_hash = ComputeHash(row)
      /\ row.prev_hash \in Digests
  BY RowInChain
<1>2. content \in Contents /\ other \in Contents /\ content # other
  BY <1>1 DEF Rows, Contents
<1>3. /\ edited.prev_hash = row.prev_hash /\ edited.event_hash = row.event_hash
      /\ edited.sequence = row.sequence /\ edited.key = row.key
      /\ edited.payload = x
  BY <1>1 DEF Rows
<1>4. ComputeHash(row) = Append(row.prev_hash, content)
      /\ ComputeHash(edited) = Append(row.prev_hash, other)
  BY <1>3 DEF ComputeHash
<1>5. ComputeHash(edited) # row.event_hash
  BY <1>1, <1>2, <1>4, DigestsDiffer
<1>6. table[i] = edited /\ DOMAIN table = DOMAIN events
      /\ \A k \in DOMAIN events : k # i => table[k] = events[k]
  BY DEF Edited
<1>7. ~VerifyChain(table)
  <2> HIDE DEF table, edited
  <2>1. VerifyChain(table) => table[i].event_hash = ComputeHash(table[i])
    BY <1>6 DEF VerifyChain
  <2> QED
    BY <1>3, <1>5, <1>6, <2>1
<1>8. ASSUME i < Len(events) PROVE ~VerifyChain(rehashed)
  <2>1. /\ i \in 1..Len(events) /\ i + 1 \in DOMAIN events /\ i + 1 # i
        /\ i + 1 # 1 /\ (i + 1) - 1 = i
    <3>1. i \in 1..Len(events) /\ DOMAIN events = 1..Len(events)
      BY RowInChain
    <3>2. events \in Seq(Rows)
      BY DEF TypeOK
    <3> QED
      BY <1>8, <3>1, <3>2
  <2>2. events[i + 1].prev_hash = row.event_hash
    BY <2>1, RowInChain
  <2>3. rehashed = [table EXCEPT ![i] = anew]
    BY <1>6 DEF Rehashed
  <2>4. /\ DOMAIN rehashed = DOMAIN events /\ rehashed[i] = anew
        /\ rehashed[i + 1] = events[i + 1]
    BY <1>6, <2>1, <2>3
  <2>5. anew.event_hash = ComputeHash(edited)
    BY <1>1 DEF Rows
  <2>6. VerifyChain(rehashed) => rehashed[i + 1].prev_hash = rehashed[i].event_hash
    <3> HIDE DEF rehashed
    <3> SUFFICES ASSUME VerifyChain(rehashed)
                 PROVE  rehashed[i + 1].prev_hash = rehashed[i].event_hash
      OBVIOUS
    <3>1. rehashed[i + 1].prev_hash =
            IF i + 1 = 1 THEN GenesisHash ELSE rehashed[(i + 1) - 1].event_hash
      BY <2>1, <2>4 DEF VerifyChain
    <3> QED
      BY <2>1, <3>1
  <2> HIDE DEF rehashed, anew
  <2> QED
    BY <1>5, <2>2, <2>4, <2>5, <2>6
<1> QED
  BY <1>7, <1>8

\* A row that is gone leaves a gap in the numbers.
LEMMA RemovalShows ==
    ASSUME TypeOK, ChainVerifies, NEW i \in DOMAIN events, i < Len(events)
    PROVE  ~VerifyChain(Without(i))
<1>1. /\ events \in Seq(Rows) /\ i \in 1..Len(events) /\ Len(events) \in Nat
      /\ DOMAIN events = 1..Len(events)
  BY RowInChain DEF TypeOK
<1>2. i + 1 \in DOMAIN events
  BY <1>1
<1>3. events[i + 1].sequence = i + 1
  BY <1>2, RowInChain
<1> DEFINE before == SubSeq(events, 1, i - 1)
           after == SubSeq(events, i + 1, Len(events))
<1>4. /\ before \in Seq(Rows) /\ Len(before) = i - 1
      /\ after \in Seq(Rows) /\ Len(after) = Len(events) - i
      /\ after[1] = events[i + 1]
  BY <1>1
<1> HIDE DEF before, after
<1>5. /\ (before \o after)[i] = after[1] /\ i \in DOMAIN (before \o after)
  BY <1>1, <1>4
<1>6. Without(i) = before \o after
  BY DEF Without, before, after
<1>7. Without(i)[i].sequence = i + 1 /\ i \in DOMAIN Without(i)
  BY <1>3, <1>4, <1>5, <1>6
<1> QED
  BY <1>1, <1>7 DEF VerifyChain

\* A row that is put elsewhere has a digest of its old number.
LEMMA ExchangeShows ==
    ASSUME TypeOK, ChainVerifies, NEW i \in DOMAIN events,
           NEW j \in DOMAIN events, i < j
    PROVE  ~VerifyChain(Exchanged(i, j))
<1> DEFINE row == events[j]
           moved == [row EXCEPT !.sequence = i]
           content == [sequence |-> row.sequence, key |-> row.key,
                       payload |-> row.payload]
           other == [sequence |-> i, key |-> row.key, payload |-> row.payload]
           table == Exchanged(i, j)
<1>1. /\ row \in Rows /\ row.event_hash = ComputeHash(row) /\ row.sequence = j
      /\ row.prev_hash \in Digests /\ i \in Nat /\ j \in Nat /\ i # j
  BY RowInChain
<1>2. content \in Contents /\ other \in Contents /\ content # other
  BY <1>1 DEF Rows, Contents
<1>3. /\ moved.prev_hash = row.prev_hash /\ moved.event_hash = row.event_hash
      /\ moved.sequence = i /\ moved.key = row.key /\ moved.payload = row.payload
  BY <1>1 DEF Rows
<1>4. /\ ComputeHash(row) = Append(row.prev_hash, content)
      /\ ComputeHash(moved) = Append(row.prev_hash, other)
  BY <1>3 DEF ComputeHash
<1>5. moved.event_hash # ComputeHash(moved)
  BY <1>1, <1>2, <1>3, <1>4, DigestsDiffer
<1>6. table[i] = moved /\ i \in DOMAIN table
  BY <1>1 DEF Exchanged
<1> HIDE DEF table, moved
<1>7. ~VerifyChain(table)
  BY <1>5, <1>6 DEF VerifyChain
<1> QED
  BY <1>7 DEF table

\* verify_chain: whatever was appended by whomever, none of the changes of
\* TamperingShows to the table passes.
THEOREM TamperingAlwaysShows == Spec => []TamperingShows
<1>1. TypeOK /\ ChainVerifies => TamperingShows
  BY EditShows, RemovalShows, ExchangeShows DEF TamperingShows
<1> QED
  BY <1>1, LedgerTypeCorrect, ChainAlwaysVerifies, PTL

=============================================================================
