--------------------------- MODULE RecoveryProofs ---------------------------
(***************************************************************************)
(* Proofs of the safety of recovery, for any number of processes,          *)
(* attempts, units and stops.                                              *)
(***************************************************************************)
EXTENDS Recovery, NaturalsInduction, WellFoundedInduction, TLAPS

(***************************************************************************)
(* The ledger.                                                             *)
(***************************************************************************)

\* What one more event does to a ledger: it stays one and keeps its prefixes
\* and its events.
LEMMA Appending ==
    ASSUME NEW s \in Seq(Events), NEW e \in Events, NEW t,
           t = s \/ t = Append(s, e)
    PROVE  /\ t \in Seq(Events)
           /\ Len(s) <= Len(t)
           /\ \A n \in 0..Len(s) : SubSeq(t, 1, n) = SubSeq(s, 1, n)
           /\ \A i \in DOMAIN s : i \in DOMAIN t /\ t[i] = s[i]
           /\ \A i \in DOMAIN t : i \in DOMAIN s \/ t[i] = e
           /\ t # s => \E i \in DOMAIN t : t[i] = e
<1>1. CASE t = s
  BY <1>1
<1>2. CASE t = Append(s, e)
  <2>1. /\ t \in Seq(Events)
        /\ Len(t) = Len(s) + 1
        /\ DOMAIN t = 1..Len(s) + 1
        /\ DOMAIN s = 1..Len(s)
        /\ t[Len(s) + 1] = e
        /\ \A i \in DOMAIN s : t[i] = s[i]
    BY <1>2
  <2>2. ASSUME NEW n \in 0..Len(s) PROVE SubSeq(t, 1, n) = SubSeq(s, 1, n)
    BY <2>1
  <2>3. \A i \in DOMAIN t : i \in DOMAIN s \/ t[i] = e
    BY <2>1
  <2>4. Len(s) + 1 \in DOMAIN t
    BY <2>1
  <2> QED
    BY <2>1, <2>2, <2>3, <2>4
<1> QED
  BY <1>1, <1>2

\* The events of different kinds, and of different subjects, differ.
LEMMA EventsDiffer ==
    /\ \A a \in Attempts : Started(a) \in Events /\ Interrupted(a) \in Events
    /\ \A u \in Units : Reopened(u) \in Events
    /\ \A a, b \in Attempts : /\ Interrupted(a) # Started(b)
                              /\ Interrupted(a) = Interrupted(b) => a = b
    /\ \A a \in Attempts, u \in Units : Interrupted(a) # Reopened(u)
  BY DEF Events, Started, Interrupted, Reopened

\* The last word of any events gives each attempt one of the states.
LEMMA LastWordType == \A s : LastWord(s) \in [Attempts -> ReplayedStates]
  BY DEF LastWord, ReplayedStates

\* A step of the ledger: nothing, or one event more.
Adds(e) == log' = log \/ log' = Append(log, e)

\* The ledger keeps what was read from it while it grows.
LEMMA Grown ==
    ASSUME NEW e \in Events, Adds(e), TypeOK
    PROVE  /\ log' \in Seq(Events)
           /\ Len(log) <= Len(log')
           /\ \A n \in 0..Len(log) : Prefix(n)' = Prefix(n)
           /\ \A i \in DOMAIN log : i \in DOMAIN log' /\ log'[i] = log[i]
           /\ \A i \in DOMAIN log' : i \in DOMAIN log \/ log'[i] = e
           /\ log' # log => Recorded(e)'
           /\ \A f : Recorded(f) => Recorded(f)'
           /\ \A f : Recorded(f)' => Recorded(f) \/ f = e
<1>1. log \in Seq(Events)
  BY DEF TypeOK
<1>2. /\ log' \in Seq(Events)
      /\ Len(log) <= Len(log')
      /\ \A n \in 0..Len(log) : SubSeq(log', 1, n) = SubSeq(log, 1, n)
      /\ \A i \in DOMAIN log : i \in DOMAIN log' /\ log'[i] = log[i]
      /\ \A i \in DOMAIN log' : i \in DOMAIN log \/ log'[i] = e
      /\ log' # log => \E i \in DOMAIN log' : log'[i] = e
  BY <1>1, Appending DEF Adds
<1> QED
  BY <1>2 DEF Prefix, Recorded

\* The ledger has an event at most once.
Once(f) == \A i, j \in DOMAIN log : log[i] = f /\ log[j] = f => i = j

\* What append_event with a key, and any other event, does to events recorded
\* once.
LEMMA StaysOnce ==
    ASSUME TypeOK, NEW e \in Events, NEW f, Once(f),
           AppendEvent(e) \/ (log' = Append(log, e) /\ f # e)
    PROVE  Once(f)'
<1>1. CASE log' = log
  BY <1>1 DEF Once
<1>2. CASE log' = Append(log, e) /\ (f # e \/ ~Recorded(e))
  <2>1. /\ DOMAIN log' = DOMAIN log \cup {Len(log) + 1}
        /\ log'[Len(log) + 1] = e
        /\ \A i \in DOMAIN log : log'[i] = log[i]
    BY <1>2 DEF TypeOK
  <2>2. CASE f # e
    <3>1. \A i \in DOMAIN log' : log'[i] = f => i \in DOMAIN log /\ log[i] = f
      BY <2>1, <2>2
    <3> QED
      BY <3>1 DEF Once
  <2>3. CASE f = e /\ ~Recorded(e)
    <3>1. \A i \in DOMAIN log' : log'[i] = f => i = Len(log) + 1
      BY <2>1, <2>3 DEF Recorded
    <3> QED
      BY <3>1 DEF Once
  <2> QED
    BY <1>2, <2>2, <2>3
<1> QED
  BY <1>1, <1>2 DEF AppendEvent

\* An event with a key enters the ledger, or is in it.
LEMMA KeyedAdds ==
    ASSUME TypeOK, NEW e \in Events, AppendEvent(e)
    PROVE  Adds(e) /\ Recorded(e)'
<1>1. Adds(e)
  BY DEF AppendEvent, Adds
<1>2. CASE Recorded(e)
  BY <1>1, <1>2, Grown
<1>3. CASE ~Recorded(e)
  <2>1. log' = Append(log, e)
    BY <1>3 DEF AppendEvent
  <2>2. Len(log) + 1 \in DOMAIN log' /\ log'[Len(log) + 1] = e
    BY <2>1 DEF TypeOK
  <2> QED
    BY <1>1, <2>2 DEF Recorded
<1> QED
  BY <1>1, <1>2, <1>3

-----------------------------------------------------------------------------
(***************************************************************************)
(* One event after the other, the rebuild arrives at the last word.        *)
(***************************************************************************)

\* One event more turns the last word of the events before it into that of all
\* of them.
LEMMA NextWord ==
    ASSUME NEW s \in Seq(Events), NEW n \in 1..Len(s)
    PROVE  LastWord(SubSeq(s, 1, n)) = Applied(LastWord(SubSeq(s, 1, n - 1)), s[n])
<1> DEFINE t == SubSeq(s, 1, n)
           r == SubSeq(s, 1, n - 1)
           starts(q, a) == {i \in DOMAIN q : q[i] = Started(a)}
           over(q, a) == \E j \in DOMAIN q : /\ q[j] = Interrupted(a)
                                             /\ \A i \in starts(q, a) : i < j
           word(q, a) == IF starts(q, a) = {} THEN "absent"
                         ELSE IF over(q, a) THEN "interrupted" ELSE "in_flight"
<1>1. /\ DOMAIN t = 1..n /\ DOMAIN r = 1..(n - 1)
      /\ t[n] = s[n] /\ s[n] \in Events
      /\ \A i \in 1..(n - 1) : t[i] = r[i]
  OBVIOUS
<1>2. \A q : LastWord(q) = [a \in Attempts |-> word(q, a)]
  BY DEF LastWord
<1>3. ASSUME NEW a \in Attempts, s[n] # Started(a), s[n] # Interrupted(a)
      PROVE  word(t, a) = word(r, a)
  <2>1. starts(t, a) = starts(r, a)
    BY <1>1, <1>3
  <2>2. \A j : j \in DOMAIN t /\ t[j] = Interrupted(a)
                 <=> j \in DOMAIN r /\ r[j] = Interrupted(a)
    BY <1>1, <1>3
  <2>3. over(t, a) <=> over(r, a)
    <3> HIDE DEF starts
    <3> QED
      BY <2>1, <2>2
  <2> HIDE DEF starts, over
  <2> QED
    BY <2>1, <2>3
<1>4. ASSUME NEW a \in Attempts, s[n] = Started(a)
      PROVE  word(t, a) = "in_flight"
  <2>1. n \in starts(t, a)
    BY <1>1, <1>4
  <2>2. ~over(t, a)
    <3> SUFFICES ASSUME NEW j \in DOMAIN t, n < j PROVE FALSE
      BY <2>1
    <3> QED
      BY <1>1
  <2> HIDE DEF starts, over
  <2> QED
    BY <2>1, <2>2
<1>5. ASSUME NEW a \in Attempts, s[n] = Interrupted(a)
      PROVE  word(t, a) = IF word(r, a) = "absent" THEN "absent" ELSE "interrupted"
  <2>1. starts(t, a) = starts(r, a)
    BY <1>1, <1>5, EventsDiffer
  <2>2. over(t, a)
    <3>1. \A i \in starts(t, a) : i < n
      BY <1>1, <2>1
    <3> QED
      BY <1>1, <1>5, <3>1
  <2> HIDE DEF starts, over
  <2>3. CASE starts(r, a) = {}
    <3>1. word(t, a) = "absent" /\ word(r, a) = "absent"
      BY <2>1, <2>3
    <3> HIDE DEF word
    <3> QED
      BY <3>1
  <2>4. CASE starts(r, a) # {}
    <3>1. word(t, a) = "interrupted"
      <4>1. starts(t, a) # {}
        BY <2>1, <2>4
      <4> QED
        BY <2>2, <4>1
    <3>2. word(r, a) # "absent"
      <4>1. CASE over(r, a)
        BY <2>4, <4>1
      <4>2. CASE ~over(r, a)
        BY <2>4, <4>2
      <4> QED
        BY <4>1, <4>2
    <3> HIDE DEF word
    <3> QED
      BY <3>1, <3>2
  <2> QED
    BY <2>3, <2>4
<1>6. LastWord(r) = [a \in Attempts |-> word(r, a)]
      /\ LastWord(t) = [a \in Attempts |-> word(t, a)]
  BY <1>2
<1> HIDE DEF word
<1>7. CASE \E b \in Attempts : s[n] = Started(b)
  <2>1. PICK b \in Attempts : s[n] = Started(b)
    BY <1>7
  <2>2. Applied(LastWord(r), s[n]) = [LastWord(r) EXCEPT ![b] = "in_flight"]
    BY <2>1 DEF Applied, Started
  <2>3. \A a \in Attempts : a # b => s[n] # Started(a) /\ s[n] # Interrupted(a)
    BY <2>1 DEF Started, Interrupted
  <2>4. \A a \in Attempts : word(t, a) = IF a = b THEN "in_flight" ELSE word(r, a)
    BY <1>3, <1>4, <2>1, <2>3
  <2> QED
    BY <1>6, <2>2, <2>4
<1>8. CASE \E b \in Attempts : s[n] = Interrupted(b)
  <2>1. PICK b \in Attempts : s[n] = Interrupted(b)
    BY <1>8
  <2>2. Applied(LastWord(r), s[n]) =
          IF word(r, b) = "absent" THEN LastWord(r)
          ELSE [LastWord(r) EXCEPT ![b] = "interrupted"]
    <3>1. LastWord(r)[b] = word(r, b)
      BY <1>6
    <3> QED
      BY <2>1, <3>1 DEF Applied, Interrupted
  <2>3. \A a \in Attempts : a # b => s[n] # Started(a) /\ s[n] # Interrupted(a)
    BY <2>1 DEF Started, Interrupted
  <2>4. \A a \in Attempts : a # b => word(t, a) = word(r, a)
    BY <1>3, <2>3
  <2>5. word(t, b) = IF word(r, b) = "absent" THEN "absent" ELSE "interrupted"
    BY <1>5, <2>1
  <2>6. CASE word(r, b) = "absent"
    BY <1>6, <2>2, <2>4, <2>5, <2>6
  <2>7. CASE word(r, b) # "absent"
    BY <1>6, <2>2, <2>4, <2>5, <2>7
  <2> QED
    BY <2>6, <2>7
<1>9. CASE \E u \in Units : s[n] = Reopened(u)
  <2>1. PICK u \in Units : s[n] = Reopened(u)
    BY <1>9
  <2>2. Applied(LastWord(r), s[n]) = LastWord(r)
    BY <2>1 DEF Applied, Reopened
  <2>3. \A a \in Attempts : s[n] # Started(a) /\ s[n] # Interrupted(a)
    BY <2>1 DEF Started, Interrupted, Reopened
  <2>4. \A a \in Attempts : word(t, a) = word(r, a)
    BY <1>3, <2>3
  <2> QED
    BY <1>6, <2>2, <2>4
<1> QED
  BY <1>1, <1>7, <1>8, <1>9 DEF Events

\* A set of numbers that is not empty has a least.
LEMMA LeastNumber ==
    ASSUME NEW S \in SUBSET Nat, S # {}
    PROVE  \E n \in S : \A m \in S : n <= m
<1> DEFINE R == OpToRel(<, Nat)
<1>1. PICK n \in S : \A m \in S : <<m, n>> \notin R
  <2>1. IsWellFoundedOn(R, Nat)
    BY NatLessThanWellFounded
  <2> HIDE DEF R
  <2> QED
    BY <2>1, WFMin
<1>2. \A m \in S : ~(m < n)
  BY <1>1 DEF OpToRel
<1> QED
  BY <1>2

\* Of no events, nothing is known.
LEMMA NoWord == ASSUME NEW s, DOMAIN s = {} PROVE LastWord(s) = NoAttempts
  BY DEF LastWord, NoAttempts

\* rebuild_projections, which applies the events one by one, arrives at the
\* last word: the recursion is satisfied by the last words of the prefixes, and
\* by nothing else.
LEMMA RebuildIsLastWord == \A s \in Seq(Events) : Rebuild(s) = LastWord(s)
<1> SUFFICES ASSUME NEW s \in Seq(Events) PROVE Rebuild(s) = LastWord(s)
  OBVIOUS
<1> DEFINE Steps(f) == [n \in 0..Len(s) |-> IF n = 0 THEN NoAttempts
                                            ELSE Applied(f[n - 1], s[n])]
           after == CHOOSE f : f = Steps(f)
           words == [n \in 0..Len(s) |-> LastWord(SubSeq(s, 1, n))]
<1>1. Rebuild(s) = after[Len(s)]
  BY DEF Rebuild
<1>2. Len(s) \in Nat
  OBVIOUS
<1>3. words[0] = NoAttempts
  <2>1. DOMAIN SubSeq(s, 1, 0) = {}
    OBVIOUS
  <2>2. LastWord(SubSeq(s, 1, 0)) = NoAttempts
    BY <2>1, NoWord
  <2>3. 0 \in 0..Len(s)
    BY <1>2
  <2> QED
    BY <2>2, <2>3
<1>4. ASSUME NEW n \in 0..Len(s), n # 0
      PROVE  n - 1 \in 0..Len(s) /\ words[n] = Applied(words[n - 1], s[n])
  <2>1. n \in 1..Len(s) /\ n - 1 \in 0..Len(s)
    BY <1>4
  <2> QED
    BY <2>1, NextWord
<1>5. words = Steps(words)
  <2>1. \A n \in 0..Len(s) : words[n] = Steps(words)[n]
    BY <1>3, <1>4
  <2> QED
    BY <2>1
<1>6. after = Steps(after)
  <2> HIDE DEF Steps, words
  <2> QED
    BY <1>5
<1>7. \A n \in 0..Len(s) : after[n] = words[n]
  <2> HIDE DEF after, words
  <2>1. after[0] = NoAttempts
    BY <1>2, <1>6
  <2>2. ASSUME NEW n \in 0..Len(s), n # 0
        PROVE  after[n] = Applied(after[n - 1], s[n])
    BY <1>6, <2>2
  <2> HIDE DEF Steps
  <2> DEFINE Wrong == {n \in 0..Len(s) : after[n] # words[n]}
  <2> SUFFICES ASSUME Wrong # {} PROVE FALSE
    OBVIOUS
  <2>3. PICK n \in Wrong : \A m \in Wrong : n <= m
    <3>1. Wrong \in SUBSET Nat
      OBVIOUS
    <3> HIDE DEF Wrong
    <3> QED
      BY <3>1, LeastNumber
  <2>4. n # 0
    BY <1>3, <2>1
  <2>5. after[n - 1] = words[n - 1]
    <3>1. n - 1 \in 0..Len(s) /\ n - 1 < n
      BY <1>4, <2>4
    <3> QED
      BY <2>3, <3>1
  <2>6. after[n] = words[n]
    BY <1>4, <2>2, <2>4, <2>5
  <2> QED
    BY <2>6
<1> QED
  <2>1. SubSeq(s, 1, Len(s)) = s
    OBVIOUS
  <2>2. Len(s) \in 0..Len(s)
    BY <1>2
  <2> HIDE DEF after
  <2>3. words[Len(s)] = LastWord(s)
    BY <2>1, <2>2
  <2> HIDE DEF words
  <2> QED
    BY <1>1, <1>7, <2>2, <2>3

\* What is read of a ledger is one.
LEMMA PrefixType ==
    ASSUME TypeOK PROVE \A n \in 0..Len(log) : Prefix(n) \in Seq(Events)
  BY DEF TypeOK, Prefix

-----------------------------------------------------------------------------
(***************************************************************************)
(* The invariant.                                                          *)
(***************************************************************************)

LEMMA InitRInv == Init => RInv
<1> SUFFICES ASSUME Init PROVE RInv
  OBVIOUS
<1>1. TypeOK
  <2>1. Len(log) = 0 /\ log \in Seq(Events)
    BY DEF Init
  <2>2. projection \in [attempts : [Attempts -> ReplayedStates],
                        sequence : 0..Len(log)]
    BY <2>1 DEF Init, NoAttempts, ReplayedStates
  <2> QED
    BY <2>1, <2>2, RecoveryAssumption
    DEF Init, NoAttempts, TypeOK, UnitStatuses, AttemptStates, Labels
<1>2. MarkedExactlyOnce
  BY DEF Init, MarkedExactlyOnce, Recorded
<1>3. OwedMarked
  BY DEF Init, OwedMarked
<1>4. SilentOnlyAfterStop
  BY DEF Init, NoAttempts, SilentOnlyAfterStop
<1> QED
  BY <1>1, <1>2, <1>3, <1>4 DEF RInv

\* A step that leaves the ledger and the stored projection alone.
LEMMA SameLedger ==
    ASSUME TypeOK, UNCHANGED <<log, projection>>
    PROVE  /\ log' \in Seq(Events)
           /\ projection' \in [attempts : [Attempts -> ReplayedStates],
                              sequence : 0..Len(log')]
           /\ \A f : Recorded(f)' <=> Recorded(f)
  BY DEF TypeOK, Recorded

\* A step that appends and leaves the stored projection alone.
LEMMA SameProjection ==
    ASSUME TypeOK, NEW e \in Events, Adds(e), UNCHANGED projection
    PROVE  /\ log' \in Seq(Events)
           /\ projection' \in [attempts : [Attempts -> ReplayedStates],
                              sequence : 0..Len(log')]
           /\ seen \in [Procs -> 0..Len(log')]
<1>1. log' \in Seq(Events) /\ Len(log) <= Len(log')
  BY Grown
<1>2. 0..Len(log) \subseteq 0..Len(log')
  <2>1. Len(log) \in Nat /\ Len(log') \in Nat
    BY <1>1 DEF TypeOK
  <2> QED
    BY <1>1, <2>1
<1>3. seen \in [Procs -> 0..Len(log')]
  BY <1>2 DEF TypeOK
<1> QED
  BY <1>1, <1>2, <1>3 DEF TypeOK

\* The others who write to the database preserve the invariant.
LEMMA WriterStep ==
    ASSUME RInv,
           \/ \E a \in Attempts :
                StartAttempt(a) \/ RecordStart(a) \/ FinishAttempt(a)
           \/ \E u \in Units :
                \/ \E status \in UnitStatuses, changed \in BOOLEAN :
                     WriteUnit(u, status, changed)
                \/ FileEvidence(u)
    PROVE  RInv'
<1> USE DEF RInv, UnchangedRecovery
<1>1. CASE \E a \in Attempts : StartAttempt(a) \/ FinishAttempt(a)
  <2>1. PICK a \in Attempts :
           /\ attempts[a] \in {"absent", "in_flight"}
           /\ \/ attempts' = [attempts EXCEPT ![a] = "in_flight"]
              \/ attempts' = [attempts EXCEPT ![a] = "finished"]
           /\ UNCHANGED <<units, log, writes, projection, pc, owed, reported,
                          seen, stops, lost>>
    BY <1>1 DEF StartAttempt, FinishAttempt
  <2>2. /\ attempts' \in [Attempts -> AttemptStates]
        /\ \A b \in Attempts :
              attempts'[b] = "interrupted" <=> attempts[b] = "interrupted"
    BY <2>1 DEF TypeOK, AttemptStates
  <2>3. TypeOK'
    BY <2>1, <2>2, SameLedger DEF TypeOK
  <2>4. MarkedExactlyOnce'
    BY <2>1, <2>2, SameLedger DEF MarkedExactlyOnce
  <2>5. OwedMarked'
    BY <2>1, <2>2 DEF OwedMarked
  <2>6. SilentOnlyAfterStop'
    BY <2>1, <2>2, SameLedger DEF SilentOnlyAfterStop, Owed
  <2> QED
    BY <2>3, <2>4, <2>5, <2>6
<1>2. CASE \E a \in Attempts : RecordStart(a)
  <2>1. PICK a \in Attempts :
           /\ log' = Append(log, Started(a))
           /\ UNCHANGED <<attempts, units, writes, projection, pc, owed,
                          reported, seen, stops, lost>>
    BY <1>2 DEF RecordStart
  <2>2. Started(a) \in Events /\ Adds(Started(a))
    BY <2>1, EventsDiffer DEF Adds
  <2>3. TypeOK'
    BY <2>1, <2>2, SameProjection DEF TypeOK
  <2>4. \A b \in Attempts : Recorded(Interrupted(b))' <=> Recorded(Interrupted(b))
    BY <2>2, Grown, EventsDiffer
  <2>5. \A b \in Attempts : Once(Interrupted(b))'
    <3> SUFFICES ASSUME NEW b \in Attempts PROVE Once(Interrupted(b))'
      OBVIOUS
    <3>1. Once(Interrupted(b)) /\ Interrupted(b) # Started(a)
      BY EventsDiffer DEF MarkedExactlyOnce, Once
    <3> QED
      BY <2>1, <2>2, <3>1, StaysOnce DEF Once, Interrupted
  <2>6. MarkedExactlyOnce'
    BY <2>1, <2>4, <2>5 DEF MarkedExactlyOnce, Once, Recorded, Interrupted
  <2>7. OwedMarked'
    BY <2>1 DEF OwedMarked
  <2>8. SilentOnlyAfterStop'
    BY <2>1, <2>4 DEF SilentOnlyAfterStop, Owed, Recorded, Interrupted
  <2> QED
    BY <2>3, <2>6, <2>7, <2>8
<1>3. CASE \E u \in Units :
             \/ \E status \in UnitStatuses, changed \in BOOLEAN :
                  WriteUnit(u, status, changed)
             \/ FileEvidence(u)
  <2> DEFINE Row == [status : UnitStatuses \cup {"reopened"},
                     evidence : BOOLEAN]
             Written == \E u \in Units, new \in Row :
                          units' = [units EXCEPT ![u] = new]
             Rest == /\ writes' \in 0..MaxWrites
                     /\ UNCHANGED <<attempts, log, projection, pc, owed,
                                    reported, seen, stops, lost>>
  <2>1. Written /\ Rest
    <3>1. ASSUME NEW u \in Units, NEW status \in UnitStatuses,
                 NEW changed \in BOOLEAN, WriteUnit(u, status, changed)
          PROVE  Written /\ Rest
      <4> DEFINE row == units[u]
                 kept == ~changed /\ row.evidence
                 new == [status |-> IF kept /\ row.status = "completed"
                                      THEN row.status ELSE status,
                         evidence |-> kept]
      <4>1. /\ units' = [units EXCEPT ![u] = new]
            /\ writes' = writes + 1
            /\ writes < MaxWrites
            /\ UNCHANGED <<attempts, log, projection, pc, owed, reported,
                           seen, stops, lost>>
        BY <3>1 DEF WriteUnit
      <4>2. writes' \in 0..MaxWrites
        BY <4>1, RecoveryAssumption DEF TypeOK
      <4>3. row \in Row /\ kept \in BOOLEAN
        BY DEF TypeOK
      <4>4. new \in Row
        BY <4>3
      <4> HIDE DEF new
      <4> QED
        BY <4>1, <4>2, <4>4
    <3>2. ASSUME NEW u \in Units, FileEvidence(u)
          PROVE  Written /\ Rest
      <4> DEFINE new == [units[u] EXCEPT !.evidence = TRUE]
      <4>1. /\ units' = [units EXCEPT ![u] = new]
            /\ writes' \in 0..MaxWrites
            /\ UNCHANGED <<attempts, log, projection, pc, owed, reported,
                           seen, stops, lost>>
        BY <3>2 DEF FileEvidence, TypeOK
      <4>2. new \in Row
        BY DEF TypeOK
      <4> HIDE DEF new
      <4> QED
        BY <4>1, <4>2
    <3> HIDE DEF Written, Rest
    <3> QED
      BY <1>3, <3>1, <3>2
  <2>2. units' \in [Units -> Row]
    BY <2>1 DEF TypeOK
  <2>3. TypeOK'
    BY <2>1, <2>2, SameLedger DEF TypeOK
  <2>4. MarkedExactlyOnce'
    BY <2>1, SameLedger DEF MarkedExactlyOnce
  <2>5. OwedMarked'
    BY <2>1 DEF OwedMarked
  <2>6. SilentOnlyAfterStop'
    BY <2>1, SameLedger DEF SilentOnlyAfterStop, Owed
  <2> QED
    BY <2>3, <2>4, <2>5, <2>6
<1> QED
  BY <1>1, <1>2, <1>3

-----------------------------------------------------------------------------
(***************************************************************************)
(* recover(), step by step.                                                *)
(***************************************************************************)

\* A process goes on, and nothing that is still to be recorded is dropped:
\* what remains of the invariant is the types.
LEMMA GoesOn ==
    ASSUME RInv, TypeOK', NEW p \in Procs, NEW label, NEW rows,
           UNCHANGED <<attempts, log>>,
           pc' = [pc EXCEPT ![p] = label],
           owed' = [owed EXCEPT ![p] = rows],
           label # "record_marks",
           label = "mark" => rows \subseteq Attempts,
           \/ lost' = lost /\ (pc[p] # "record_marks" \/ owed[p] = {})
           \/ lost' = lost \cup owed[p]
    PROVE  RInv'
<1> USE DEF RInv
<1>1. /\ \A f : Recorded(f)' <=> Recorded(f)
      /\ pc'[p] = label /\ owed'[p] = rows
      /\ \A q \in Procs : q # p => pc'[q] = pc[q] /\ owed'[q] = owed[q]
  BY DEF TypeOK, Recorded
<1>2. MarkedExactlyOnce'
  BY <1>1 DEF MarkedExactlyOnce
<1>3. OwedMarked'
  BY <1>1 DEF OwedMarked
<1>4. SilentOnlyAfterStop'
  <2>1. ASSUME NEW a \in Attempts, Owed(a) PROVE Owed(a)' \/ a \in lost'
    BY <1>1, <2>1 DEF Owed
  <2>2. lost \subseteq lost'
    OBVIOUS
  <2> QED
    BY <1>1, <2>1, <2>2 DEF SilentOnlyAfterStop
<1> QED
  BY <1>2, <1>3, <1>4

\* The update of the selected rows: each attempt it marks is one the process
\* owes an event for.
LEMMA MarkStep ==
    ASSUME RInv, NEW p \in Procs, MarkInterrupted(p)
    PROVE  RInv'
<1> USE DEF RInv
<1>1. /\ pc[p] = "mark"
      /\ pc' = [pc EXCEPT ![p] = "record_marks"]
      /\ UNCHANGED <<units, log, projection, owed, reported, seen,
                     writes, stops, lost>>
  BY DEF MarkInterrupted, Goto
<1>2. /\ attempts' \in [Attempts -> AttemptStates]
      /\ \A a \in Attempts :
            attempts'[a] = IF a \in owed[p] THEN "interrupted" ELSE attempts[a]
  BY DEF MarkInterrupted, TypeOK, AttemptStates
<1>3. /\ pc' \in [Procs -> Labels] /\ pc'[p] = "record_marks"
      /\ \A q \in Procs : q # p => pc'[q] = pc[q]
  BY <1>1 DEF TypeOK, Labels
<1>4. TypeOK'
  BY <1>1, <1>2, <1>3, SameLedger DEF TypeOK
<1>5. MarkedExactlyOnce'
  BY <1>1, <1>2, SameLedger DEF MarkedExactlyOnce
<1>6. OwedMarked'
  BY <1>1, <1>2, <1>3 DEF OwedMarked
<1>7. SilentOnlyAfterStop'
  <2>1. ASSUME NEW a \in Attempts, Owed(a) \/ a \in owed[p] PROVE Owed(a)'
    BY <1>1, <1>3, <2>1 DEF Owed
  <2> QED
    BY <1>1, <1>2, <2>1, SameLedger DEF SilentOnlyAfterStop
<1> QED
  BY <1>4, <1>5, <1>6, <1>7

\* The event of one marked attempt: what leaves the list enters the ledger.
LEMMA RecordMarkStep ==
    ASSUME RInv, NEW p \in Procs, NEW a \in Attempts, RecordInterrupted(p, a)
    PROVE  RInv'
<1> USE DEF RInv
<1>1. /\ pc[p] = "record_marks"
      /\ a \in owed[p]
      /\ AppendEvent(Interrupted(a))
      /\ owed' = [owed EXCEPT ![p] = owed[p] \ {a}]
      /\ UNCHANGED <<attempts, units, projection, pc, reported, seen,
                     writes, stops, lost>>
  BY DEF RecordInterrupted
<1>2. Interrupted(a) \in Events /\ Adds(Interrupted(a))
  BY <1>1, EventsDiffer, KeyedAdds
<1>3. /\ owed' \in [Procs -> SUBSET (Attempts \cup Units)]
      /\ owed'[p] = owed[p] \ {a}
      /\ \A q \in Procs : q # p => owed'[q] = owed[q]
  BY <1>1 DEF TypeOK
<1>4. TypeOK'
  BY <1>1, <1>2, <1>3, SameProjection DEF TypeOK
<1>5. /\ \A f : Recorded(f) => Recorded(f)'
      /\ Recorded(Interrupted(a))'
      /\ \A f : Recorded(f)' => Recorded(f) \/ f = Interrupted(a)
  BY <1>1, <1>2, Grown, KeyedAdds
<1>6. MarkedExactlyOnce'
  <2>1. ASSUME NEW b \in Attempts, Recorded(Interrupted(b))'
        PROVE  attempts'[b] = "interrupted"
    <3>1. CASE Recorded(Interrupted(b))
      BY <1>1, <3>1 DEF MarkedExactlyOnce
    <3>2. CASE Interrupted(b) = Interrupted(a)
      <4>1. b = a
        BY <3>2, EventsDiffer
      <4> QED
        BY <1>1, <4>1 DEF OwedMarked
    <3> QED
      BY <1>5, <2>1, <3>1, <3>2
  <2>2. \A b \in Attempts : Recorded(Interrupted(b))' => attempts'[b] = "interrupted"
    BY <2>1
  <2>3. \A b \in Attempts : Once(Interrupted(b))'
    <3> SUFFICES ASSUME NEW b \in Attempts PROVE Once(Interrupted(b))'
      OBVIOUS
    <3>1. Once(Interrupted(b))
      BY DEF MarkedExactlyOnce, Once
    <3> QED
      BY <1>1, <1>2, <3>1, StaysOnce DEF Once, Interrupted
  <2> QED
    BY <2>2, <2>3 DEF MarkedExactlyOnce, Once, Recorded, Interrupted
<1>7. OwedMarked'
  BY <1>1, <1>3 DEF OwedMarked
<1>8. SilentOnlyAfterStop'
  <2>1. ASSUME NEW b \in Attempts, Owed(b)
        PROVE  Recorded(Interrupted(b))' \/ Owed(b)'
    <3>1. CASE b = a
      BY <1>5, <3>1
    <3>2. CASE b # a
      BY <1>1, <1>3, <2>1, <3>2 DEF Owed
    <3> QED
      BY <3>1, <3>2
  <2>2. \A b \in Attempts :
            attempts'[b] = "interrupted" =>
              Recorded(Interrupted(b))' \/ Owed(b)' \/ b \in lost'
    BY <1>1, <1>5, <2>1 DEF SilentOnlyAfterStop
  <2> QED
    BY <2>2 DEF SilentOnlyAfterStop, Recorded, Interrupted, Owed
<1> QED
  BY <1>4, <1>6, <1>7, <1>8

\* The event of one reopened unit says nothing of any attempt.
LEMMA RecordReopenedStep ==
    ASSUME RInv, NEW p \in Procs, NEW u \in Units, RecordReopened(p, u)
    PROVE  RInv'
<1> USE DEF RInv
<1>1. /\ pc[p] = "record_reopenings"
      /\ AppendEvent(Reopened(u))
      /\ owed' = [owed EXCEPT ![p] = owed[p] \ {u}]
      /\ UNCHANGED <<attempts, units, projection, pc, reported, seen,
                     writes, stops, lost>>
  BY DEF RecordReopened
<1>2. Reopened(u) \in Events /\ Adds(Reopened(u))
  BY <1>1, EventsDiffer, KeyedAdds
<1>3. /\ owed' \in [Procs -> SUBSET (Attempts \cup Units)]
      /\ \A q \in Procs : q # p => owed'[q] = owed[q]
  BY <1>1 DEF TypeOK
<1>4. TypeOK'
  BY <1>1, <1>2, <1>3, SameProjection DEF TypeOK
<1>5. /\ \A f : Recorded(f) => Recorded(f)'
      /\ \A b \in Attempts : Recorded(Interrupted(b))' => Recorded(Interrupted(b))
  BY <1>1, <1>2, Grown, EventsDiffer
<1>6. MarkedExactlyOnce'
  <2>1. \A b \in Attempts : Once(Interrupted(b))'
    <3> SUFFICES ASSUME NEW b \in Attempts PROVE Once(Interrupted(b))'
      OBVIOUS
    <3>1. Once(Interrupted(b))
      BY DEF MarkedExactlyOnce, Once
    <3> QED
      BY <1>1, <1>2, <3>1, StaysOnce DEF Once, Interrupted
  <2> QED
    BY <1>1, <1>5, <2>1 DEF MarkedExactlyOnce, Once, Recorded, Interrupted
<1>7. OwedMarked'
  BY <1>1, <1>3 DEF OwedMarked
<1>8. SilentOnlyAfterStop'
  <2>1. ASSUME NEW b \in Attempts, Owed(b) PROVE Owed(b)'
    BY <1>1, <1>3, <2>1 DEF Owed
  <2>2. \A b \in Attempts :
            attempts'[b] = "interrupted" =>
              Recorded(Interrupted(b))' \/ Owed(b)' \/ b \in lost'
    BY <1>1, <1>5, <2>1 DEF SilentOnlyAfterStop
  <2> QED
    BY <2>2 DEF SilentOnlyAfterStop, Recorded, Interrupted, Owed
<1> QED
  BY <1>4, <1>6, <1>7, <1>8

\* Every step of a recovery, and a stop in the middle of one.
LEMMA RecoverStep ==
    ASSUME RInv, NEW p \in Procs, Recover(p) \/ Stop(p)
    PROVE  RInv'
<1> USE DEF RInv
<1>1. CASE SelectInFlight(p)
  <2>1. TypeOK'
    BY <1>1, SameLedger DEF SelectInFlight, Goto, TypeOK, Labels, InFlight
  <2> QED
    BY <1>1, <2>1, GoesOn DEF SelectInFlight, Goto, InFlight
<1>2. CASE SelectUnverified(p)
  <2>1. TypeOK'
    BY <1>2, SameLedger DEF SelectUnverified, Goto, TypeOK, Labels, Unverified
  <2> QED
    BY <1>2, <2>1, GoesOn DEF SelectUnverified, Goto
<1>3. CASE ReopenUnits(p)
  <2>1. \A u \in Units : units'[u] \in [status : UnitStatuses \cup {"reopened"},
                                        evidence : BOOLEAN]
    BY <1>3 DEF ReopenUnits, TypeOK
  <2>2. units' = [u \in Units |-> units'[u]]
    BY <1>3 DEF ReopenUnits
  <2>3. TypeOK'
    BY <1>3, <2>1, <2>2, SameLedger DEF ReopenUnits, Goto, TypeOK, Labels
  <2>4. owed' = [owed EXCEPT ![p] = owed[p]]
    BY <1>3 DEF ReopenUnits, TypeOK
  <2> QED
    BY <1>3, <2>3, <2>4, GoesOn DEF ReopenUnits, Goto
<1>4. CASE ReadEvents(p)
  <2>1. seen' \in [Procs -> 0..Len(log')]
    BY <1>4 DEF ReadEvents, TypeOK
  <2>2. TypeOK'
    BY <1>4, <2>1, SameLedger DEF ReadEvents, Goto, TypeOK, Labels
  <2>3. owed' = [owed EXCEPT ![p] = owed[p]]
    BY <1>4 DEF ReadEvents, TypeOK
  <2> QED
    BY <1>4, <2>2, <2>3, GoesOn DEF ReadEvents, Goto
<1>5. CASE StoreProjection(p)
  <2>1. projection' \in [attempts : [Attempts -> ReplayedStates],
                        sequence : 0..Len(log')]
    BY <1>5, RebuildIsLastWord, LastWordType, PrefixType
    DEF StoreProjection, TypeOK
  <2>2. TypeOK'
    BY <1>5, <2>1 DEF StoreProjection, Goto, TypeOK, Labels
  <2>3. owed' = [owed EXCEPT ![p] = owed[p]]
    BY <1>5 DEF StoreProjection, TypeOK
  <2> QED
    BY <1>5, <2>2, <2>3, GoesOn DEF StoreProjection, Goto
<1>6. CASE Return(p)
  <2>1. TypeOK'
    BY <1>6, SameLedger DEF Return, Forget, Goto, TypeOK, Labels
  <2> QED
    BY <1>6, <2>1, GoesOn DEF Return, Forget, Goto
<1>7. CASE Stop(p)
  <2>1. stops' \in 0..MaxStops
    BY <1>7, RecoveryAssumption DEF Stop, TypeOK
  <2>2. lost' \subseteq Attempts
    BY <1>7 DEF Stop, TypeOK, OwedMarked
  <2>3. TypeOK'
    BY <1>7, <2>1, <2>2, SameLedger DEF Stop, Forget, Goto, TypeOK, Labels
  <2>4. \/ lost' = lost /\ pc[p] # "record_marks"
        \/ lost' = lost \cup owed[p]
    BY <1>7 DEF Stop
  <2> QED
    BY <1>7, <2>3, <2>4, GoesOn DEF Stop, Forget, Goto
<1> QED
  BY <1>1, <1>2, <1>3, <1>4, <1>5, <1>6, <1>7, MarkStep, RecordMarkStep,
     RecordReopenedStep DEF Recover

\* Every step preserves the invariant.
LEMMA StepRInv == RInv /\ [Next]_vars => RInv'
<1> SUFFICES ASSUME RInv, [Next]_vars PROVE RInv'
  OBVIOUS
<1>1. CASE \E p \in Procs : Recover(p) \/ Stop(p)
  BY <1>1, RecoverStep
<1>2. CASE \/ \E a \in Attempts :
                StartAttempt(a) \/ RecordStart(a) \/ FinishAttempt(a)
           \/ \E u \in Units :
                \/ \E status \in UnitStatuses, changed \in BOOLEAN :
                     WriteUnit(u, status, changed)
                \/ FileEvidence(u)
  BY <1>2, WriterStep
<1>3. CASE UNCHANGED vars
  BY <1>3 DEF vars, RInv, TypeOK, MarkedExactlyOnce, OwedMarked,
              SilentOnlyAfterStop, Owed, Recorded
<1> QED
  BY <1>1, <1>2, <1>3 DEF Next

-----------------------------------------------------------------------------
(***************************************************************************)
(* The theorems.                                                           *)
(***************************************************************************)

\* The strengthened invariant holds of recover() run by any number of
\* processes, among any number of writers and stops.
THEOREM RecoveryInvariant == Spec => []RInv
  BY InitRInv, StepRInv, PTL DEF Spec

\* Rows, events and the state of every process stay well formed.
THEOREM RecoveryTypeCorrect == Spec => []TypeOK
<1>1. RInv => TypeOK
  BY DEF RInv
<1> QED
  BY <1>1, RecoveryInvariant, PTL

\* mark_interrupted_on_startup: whatever the interleaving of the recoveries
\* and of events that say an attempt has started, its interruption is recorded
\* once at most, and only if its row says so.
THEOREM InterruptedExactlyOnce == Spec => []MarkedExactlyOnce
<1>1. RInv => MarkedExactlyOnce
  BY DEF RInv
<1> QED
  BY <1>1, RecoveryInvariant, PTL

\* mark_interrupted_on_startup: every attempt that is interrupted is so in the
\* ledger, or some recovery is about to record it, or the one that had marked
\* it was stopped in between.
THEOREM SilentOnlyAfterStops == Spec => []SilentOnlyAfterStop
<1>1. RInv => SilentOnlyAfterStop
  BY DEF RInv
<1> QED
  BY <1>1, RecoveryInvariant, PTL

\* A finished attempt that no recovery holds, and one step.
LEMMA StepFinished ==
    ASSUME RInv, [Next]_vars, NEW a \in Attempts,
           attempts[a] = "finished", ~Held(a)
    PROVE  attempts'[a] = "finished" /\ ~Held(a)'
<1> USE DEF RInv, TypeOK
<1>1. ASSUME NEW p \in Procs, Recover(p) \/ Stop(p)
      PROVE  attempts'[a] = "finished" /\ ~Held(a)'
  <2>1. CASE SelectInFlight(p)
    BY <2>1 DEF SelectInFlight, InFlight, Goto, Held
  <2>2. CASE MarkInterrupted(p)
    <3>1. a \notin owed[p]
      BY <2>2 DEF MarkInterrupted, Held
    <3> QED
      BY <2>2, <3>1 DEF MarkInterrupted, Goto, Held
  <2>3. ASSUME NEW b \in Attempts, RecordInterrupted(p, b)
        PROVE  attempts'[a] = "finished" /\ ~Held(a)'
    BY <2>3 DEF RecordInterrupted, Held
  <2>4. CASE SelectUnverified(p) \/ ReopenUnits(p) \/ ReadEvents(p)
               \/ StoreProjection(p)
    BY <2>4 DEF SelectUnverified, ReopenUnits, ReadEvents, StoreProjection,
                Goto, Held
  <2>5. ASSUME NEW u \in Units, RecordReopened(p, u)
        PROVE  attempts'[a] = "finished" /\ ~Held(a)'
    BY <2>5 DEF RecordReopened, Held
  <2>6. CASE Return(p) \/ Stop(p)
    BY <2>6 DEF Return, Stop, Forget, Goto, Held
  <2> QED
    BY <1>1, <2>1, <2>2, <2>3, <2>4, <2>5, <2>6 DEF Recover
<1>2. CASE \E b \in Attempts :
             StartAttempt(b) \/ RecordStart(b) \/ FinishAttempt(b)
  BY <1>2 DEF StartAttempt, RecordStart, FinishAttempt, UnchangedRecovery, Held
<1>3. CASE \E u \in Units :
             \/ \E status \in UnitStatuses, changed \in BOOLEAN :
                  WriteUnit(u, status, changed)
             \/ FileEvidence(u)
  BY <1>3 DEF WriteUnit, FileEvidence, UnchangedRecovery, Held
<1>4. CASE UNCHANGED vars
  BY <1>4 DEF vars, Held
<1> QED
  BY <1>1, <1>2, <1>3, <1>4 DEF Next

\* recover() beside live workers: a finished attempt that no recovery holds
\* stays finished, and stays out of every later recovery.
THEOREM FinishedAlwaysStands == Spec => FinishedStands
<1> DEFINE Stands(a) == attempts[a] = "finished" /\ ~Held(a) =>
                          attempts'[a] = "finished" /\ ~Held(a)'
<1>1. RInv /\ [Next]_vars => [\A a \in Attempts : Stands(a)]_vars
  BY StepFinished
<1> QED
  BY <1>1, RecoveryInvariant, PTL DEF Spec, FinishedStands

-----------------------------------------------------------------------------
(***************************************************************************)
(* What is derived from the ledger.                                        *)
(***************************************************************************)

\* A step leaves the ledger as it is, or an event is added to it.
LEMMA AppendsOnly ==
    RInv /\ [Next]_vars => log' = log \/ \E e \in Events : Adds(e)
<1> SUFFICES ASSUME RInv, [Next]_vars
             PROVE  log' = log \/ \E e \in Events : Adds(e)
  OBVIOUS
<1>1. ASSUME NEW p \in Procs, Recover(p)
      PROVE  log' = log \/ \E e \in Events : Adds(e)
  <2>1. log' = log \/ \E e \in Events : AppendEvent(e)
    BY <1>1, EventsDiffer
    DEF Recover, SelectInFlight, MarkInterrupted, RecordInterrupted,
        SelectUnverified, ReopenUnits, RecordReopened, ReadEvents,
        StoreProjection, Return
  <2> QED
    BY <2>1 DEF AppendEvent, Adds
<1>2. ASSUME NEW p \in Procs, Stop(p) PROVE log' = log
  BY <1>2 DEF Stop
<1>3. ASSUME NEW a \in Attempts,
             StartAttempt(a) \/ RecordStart(a) \/ FinishAttempt(a)
      PROVE  log' = log \/ \E e \in Events : Adds(e)
  BY <1>3, EventsDiffer DEF StartAttempt, RecordStart, FinishAttempt, Adds
<1>4. ASSUME NEW u \in Units,
             \/ \E status \in UnitStatuses, changed \in BOOLEAN :
                  WriteUnit(u, status, changed)
             \/ FileEvidence(u)
      PROVE  log' = log
  BY <1>4 DEF WriteUnit, FileEvidence
<1>5. CASE UNCHANGED vars
  BY <1>5 DEF vars
<1> QED
  BY <1>1, <1>2, <1>3, <1>4, <1>5 DEF Next

\* What was read from the ledger stays in it, where it was.
LEMMA LedgerGrows ==
    ASSUME RInv, [Next]_vars
    PROVE  /\ \A n \in 0..Len(log) : Prefix(n)' = Prefix(n)
           /\ \A i \in DOMAIN log : i \in DOMAIN log' /\ log'[i] = log[i]
           /\ \A f : Recorded(f) => Recorded(f)'
<1>1. CASE log' = log
  BY <1>1 DEF Prefix, Recorded
<1>2. ASSUME NEW e \in Events, Adds(e)
      PROVE  /\ \A n \in 0..Len(log) : Prefix(n)' = Prefix(n)
             /\ \A i \in DOMAIN log : i \in DOMAIN log' /\ log'[i] = log[i]
             /\ \A f : Recorded(f) => Recorded(f)'
  BY <1>2, Grown DEF RInv
<1> QED
  BY <1>1, <1>2, AppendsOnly

\* The stored projection stays the last word of what it claims.
LEMMA StepProjection ==
    RInv /\ ProjectionIsLastWord /\ [Next]_vars => ProjectionIsLastWord'
<1> SUFFICES ASSUME RInv, ProjectionIsLastWord, [Next]_vars
             PROVE  ProjectionIsLastWord'
  OBVIOUS
<1>1. CASE projection' = projection
  <2>1. PICK n \in 0..Len(log) : n = projection.sequence
    BY DEF RInv, TypeOK
  <2>2. SubSeq(log', 1, n) = SubSeq(log, 1, n)
    BY LedgerGrows DEF Prefix
  <2>3. projection.attempts = LastWord(SubSeq(log, 1, n))
    BY <2>1 DEF ProjectionIsLastWord, Prefix
  <2>4. projection'.attempts = LastWord(SubSeq(log', 1, n))
    BY <1>1, <2>2, <2>3
  <2> QED
    BY <1>1, <2>1, <2>4 DEF ProjectionIsLastWord, Prefix
<1>2. ASSUME NEW p \in Procs, StoreProjection(p) PROVE ProjectionIsLastWord'
  <2>1. /\ projection' = [attempts |-> Rebuild(Prefix(seen[p])),
                          sequence |-> seen[p]]
        /\ log' = log
    BY <1>2 DEF StoreProjection
  <2>2. Prefix(seen[p]) \in Seq(Events)
    BY PrefixType DEF RInv, TypeOK
  <2>3. projection'.attempts = LastWord(SubSeq(log, 1, seen[p]))
    BY <2>1, <2>2, RebuildIsLastWord DEF Prefix
  <2> QED
    BY <2>1, <2>3 DEF ProjectionIsLastWord, Prefix
<1>3. projection' = projection \/ \E p \in Procs : StoreProjection(p)
  BY DEF Next, vars, Recover, SelectInFlight, MarkInterrupted,
     RecordInterrupted, SelectUnverified, ReopenUnits, RecordReopened,
     ReadEvents, Return, Stop, StartAttempt, RecordStart, FinishAttempt,
     WriteUnit, FileEvidence, UnchangedRecovery
<1> QED
  BY <1>1, <1>2, <1>3

\* rebuild_projections: whichever recovery stored it, and whatever was appended
\* meanwhile, the projection shows the last word of the events up to its
\* sequence, an attempt.started after the interruption included.
THEOREM ProjectionAlwaysLastWord == Spec => []ProjectionIsLastWord
<1>1. Init => ProjectionIsLastWord
  <2> SUFFICES ASSUME Init PROVE ProjectionIsLastWord
    OBVIOUS
  <2>1. DOMAIN SubSeq(log, 1, 0) = {}
    BY DEF Init
  <2>2. LastWord(SubSeq(log, 1, 0)) = NoAttempts
    BY <2>1, NoWord
  <2> QED
    BY <2>2 DEF Init, ProjectionIsLastWord, Prefix
<1> QED
  BY <1>1, RecoveryInvariant, StepProjection, PTL DEF Spec

\* What a process knows of what it reports: that it owes the event, that the
\* event is in the ledger, and that it is in the part it read.
Knows(p) ==
    \A s \in reported[p] :
        /\ pc[p] = "mark" => s \in owed[p]
        /\ pc[p] \in {"record_marks", "reopen", "record_reopenings"} =>
              s \in owed[p] \/ Recorded(Reports(s))
        /\ pc[p] \in {"store", "done"} =>
              \E j \in 1..seen[p] : log[j] = Reports(s)

\* What it knows is not disturbed by others.
LEMMA StillKnows ==
    ASSUME RInv, [Next]_vars, NEW q \in Procs, Knows(q),
           pc'[q] = pc[q], reported'[q] = reported[q],
           owed'[q] = owed[q], seen'[q] = seen[q]
    PROVE  Knows(q)'
<1>1. 1..seen[q] \subseteq DOMAIN log
  BY DEF RInv, TypeOK
<1>2. \A f : Recorded(f) => Recorded(f)'
  BY LedgerGrows
<1>3. \A j \in 1..seen[q] : log'[j] = log[j]
  BY <1>1, LedgerGrows
<1>4. \A s : Recorded(Reports(s)) => Recorded(Reports(s))'
  BY <1>2
<1> QED
  BY <1>3, <1>4 DEF Knows, Reports, Interrupted, Reopened

\* The event of something the process owes.
LEMMA TellsOne ==
    ASSUME RInv, [Next]_vars, NEW q \in Procs, Knows(q), NEW s,
           Reports(s) \in Events, AppendEvent(Reports(s)),
           pc[q] \in {"record_marks", "record_reopenings"}, pc' = pc,
           reported' = reported, owed' = [owed EXCEPT ![q] = owed[q] \ {s}]
    PROVE  Knows(q)'
<1>1. owed'[q] = owed[q] \ {s}
  BY DEF RInv, TypeOK
<1>2. Recorded(Reports(s))' /\ \A f : Recorded(f) => Recorded(f)'
  BY KeyedAdds, LedgerGrows DEF RInv
<1>3. ASSUME NEW b \in reported[q]
      PROVE  b \in owed'[q] \/ Recorded(Reports(b))'
  <2>1. b \in owed[q] \/ Recorded(Reports(b))
    BY DEF Knows
  <2> QED
    BY <1>1, <1>2, <2>1
<1> QED
  BY <1>3 DEF Knows, Reports, Interrupted, Reopened

\* Each step of a recovery brings what it has to know.
LEMMA StepKnows ==
    ASSUME RInv, \A q \in Procs : Knows(q), [Next]_vars
    PROVE  \A q \in Procs : Knows(q)'
<1> SUFFICES ASSUME NEW q \in Procs PROVE Knows(q)'
  OBVIOUS
<1>1. CASE UNCHANGED <<pc, owed, reported, seen>>
  BY <1>1, StillKnows
<1>2. ASSUME NEW p \in Procs, Recover(p) \/ Stop(p), p # q
      PROVE  Knows(q)'
  <2>1. /\ pc'[q] = pc[q] /\ owed'[q] = owed[q]
        /\ reported'[q] = reported[q] /\ seen'[q] = seen[q]
    BY <1>2 DEF RInv, TypeOK, Recover, SelectInFlight, MarkInterrupted,
       RecordInterrupted, SelectUnverified, ReopenUnits, RecordReopened,
       ReadEvents, StoreProjection, Return, Stop, Forget, Goto
  <2> QED
    BY <2>1, StillKnows
<1>3. CASE SelectInFlight(q) \/ Return(q) \/ Stop(q)
  BY <1>3 DEF SelectInFlight, Return, Stop, Forget, Goto, Knows, RInv, TypeOK
<1>4. CASE MarkInterrupted(q)
  BY <1>4 DEF MarkInterrupted, Goto, Knows, RInv, TypeOK
<1>5. ASSUME NEW a \in Attempts, RecordInterrupted(q, a) PROVE Knows(q)'
  <2>1. Reports(a) = Interrupted(a) /\ Reports(a) \in Events
    BY EventsDiffer DEF Reports
  <2> QED
    BY <1>5, <2>1, TellsOne DEF RecordInterrupted
<1>6. CASE SelectUnverified(q)
  <2>1. /\ pc[q] = "record_marks" /\ pc'[q] = "reopen" /\ owed[q] = {}
        /\ owed'[q] = Unverified /\ log' = log
        /\ reported'[q] = reported[q] \cup Unverified
    BY <1>6 DEF SelectUnverified, Goto, RInv, TypeOK
  <2> QED
    BY <2>1 DEF Knows, Recorded, Reports, Interrupted, Reopened
<1>7. CASE ReopenUnits(q)
  <2>1. /\ pc[q] = "reopen" /\ pc'[q] = "record_reopenings"
        /\ UNCHANGED <<owed, reported, log>>
    BY <1>7 DEF ReopenUnits, Goto, RInv, TypeOK
  <2> QED
    BY <2>1 DEF Knows, Recorded, Reports, Interrupted, Reopened
<1>8. ASSUME NEW u \in Units, RecordReopened(q, u) PROVE Knows(q)'
  <2>1. Reports(u) = Reopened(u) /\ Reports(u) \in Events
    BY EventsDiffer, RecoveryAssumption DEF Reports
  <2> QED
    BY <1>8, <2>1, TellsOne DEF RecordReopened
<1>9. CASE ReadEvents(q)
  <2>1. /\ pc[q] = "record_reopenings" /\ pc'[q] = "store" /\ owed[q] = {}
        /\ seen'[q] = Len(log) /\ reported' = reported /\ log' = log
    BY <1>9 DEF ReadEvents, Goto, RInv, TypeOK
  <2>2. log \in Seq(Events)
    BY DEF RInv, TypeOK
  <2>3. \A s \in reported[q] : \E j \in 1..Len(log) : log[j] = Reports(s)
    BY <2>1, <2>2 DEF Knows, Recorded
  <2> QED
    BY <2>1, <2>3 DEF Knows, Reports, Interrupted, Reopened
<1>10. CASE StoreProjection(q)
  <2>1. /\ pc[q] = "store" /\ pc'[q] = "done"
        /\ UNCHANGED <<seen, reported, log>>
    BY <1>10 DEF StoreProjection, Goto, RInv, TypeOK
  <2> QED
    BY <2>1 DEF Knows, Reports, Interrupted, Reopened
<1>11. \/ UNCHANGED <<pc, owed, reported, seen>>
       \/ \E p \in Procs : Recover(p) \/ Stop(p)
  BY DEF Next, vars, StartAttempt, RecordStart, FinishAttempt, WriteUnit,
     FileEvidence, UnchangedRecovery
<1> QED
  BY <1>1, <1>2, <1>3, <1>4, <1>5, <1>6, <1>7, <1>8, <1>9, <1>10, <1>11
  DEF Recover

\* What a process that is done knows is what its packet has to answer for.
LEMMA KnownIsInLedger ==
    RInv /\ (\A p \in Procs : Knows(p)) => ReportedIsInLedger
<1> SUFFICES ASSUME RInv, NEW p \in Procs, Knows(p), pc[p] = "done",
                    NEW s \in reported[p]
             PROVE  \E i \in 1..seen[p] :
                      /\ log[i] = Reports(s)
                      /\ s \in Attempts /\ Rebuild(Prefix(seen[p]))[s] = "in_flight"
                           => \E j \in (i + 1)..seen[p] : log[j] = Started(s)
  BY DEF ReportedIsInLedger
<1>1. log \in Seq(Events) /\ seen[p] \in 0..Len(log)
  BY DEF RInv, TypeOK
<1>2. PICK i \in 1..seen[p] : log[i] = Reports(s)
  BY DEF Knows
<1> DEFINE read == SubSeq(log, 1, seen[p])
<1>3. DOMAIN read = 1..seen[p] /\ \A j \in 1..seen[p] : read[j] = log[j]
  BY <1>1
<1>4. ASSUME s \in Attempts, Rebuild(read)[s] = "in_flight"
      PROVE  \E j \in (i + 1)..seen[p] : log[j] = Started(s)
  <2>1. LastWord(read)[s] = "in_flight"
    <3>1. read \in Seq(Events)
      BY <1>1, PrefixType DEF RInv, Prefix
    <3> QED
      BY <1>4, <3>1, RebuildIsLastWord
  <2> DEFINE starts == {k \in DOMAIN read : read[k] = Started(s)}
             over == \E l \in DOMAIN read : /\ read[l] = Interrupted(s)
                                             /\ \A k \in starts : k < l
  <2>2. LastWord(read)[s] = IF starts = {} THEN "absent"
                            ELSE IF over THEN "interrupted" ELSE "in_flight"
    BY <1>4 DEF LastWord
  <2>3. ~over
    <3> HIDE DEF starts
    <3> QED
      BY <2>1, <2>2
  <2>4. read[i] = Interrupted(s) /\ i \in DOMAIN read
    BY <1>2, <1>3, <1>4 DEF Reports
  <2>5. PICK k \in starts : ~(k < i)
    BY <2>3, <2>4
  <2>6. k # i
    BY <1>4, <2>4, <2>5, EventsDiffer
  <2>7. k \in (i + 1)..seen[p] /\ log[k] = Started(s)
    BY <1>1, <1>3, <2>5, <2>6
  <2> QED
    BY <2>7
<1> QED
  BY <1>2, <1>4 DEF Prefix

\* recover(): what the packet counts and names is in the ledger up to the
\* last_sequence it gives, and of an attempt it counts as interrupted and its
\* projection shows in flight, the ledger says that it started afterwards.
THEOREM ReportedAlwaysInLedger == Spec => []ReportedIsInLedger
<1>1. Init => \A p \in Procs : Knows(p)
  BY DEF Init, Knows
<1>2. RInv /\ (\A p \in Procs : Knows(p)) /\ [Next]_vars
        => (\A p \in Procs : Knows(p))'
  BY StepKnows
<1> QED
  BY <1>1, <1>2, RecoveryInvariant, KnownIsInLedger, PTL DEF Spec

=============================================================================
