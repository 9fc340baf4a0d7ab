------------------------------- MODULE Routes -------------------------------
(***************************************************************************)
(* Model evidence and the routes chosen on it: `route refresh` (the cache  *)
(* of src/graph_coder/llm_stats.py) and `route assign --from-cache` of     *)
(* src/graph_coder/cli.py, run by several processes over one cache file,   *)
(* the routes table and the ledger, while time passes.                     *)
(*                                                                         *)
(* What the LLM Stats API serves changes with time: records are named by   *)
(* the time the first page of them was served, and the choice of the       *)
(* router, a function of request and records, by the two.  Later pages and *)
(* retries are the time between FetchRecords and WriteCache or FetchFails. *)
(***************************************************************************)
EXTENDS Integers, Sequences

CONSTANTS
    Procs,          \* processes of the command line tool
    Units,          \* units of the plan
    Requests,       \* contents of request files
    UnitOf,         \* the unit a request is for
    Limits,         \* values of --max-age-hours
    Nothing,        \* no cache file, no row, no request
    MaxTime         \* bound: the clock

ASSUME RoutesAssumption ==
    /\ MaxTime \in Nat
    /\ Limits \subseteq Nat
    /\ UnitOf \in [Requests -> Units]
    /\ Nothing \notin Requests

VARIABLES
    now,        \* the clock, in hours
    cache,      \* models.json: servedAt names the records
    routes,     \* the rows of routes; at and limit are history
    log,        \* the route.changed events, by request
    pc,         \* where in a command a process is
    limit,      \* its --max-age-hours
    started,    \* the time a refresh took before it asked
    fetched,    \* the records it got
    chosen,     \* the decision an assignment made
    overtaken,  \* history: refreshes under way since before the cache was
                \* last written
    lost,       \* history: requests without an event whose assignment was
                \* stopped before it
    repeated,   \* history: units whose row came after the event of its request
    crossed     \* history: units whose row came while the event of another
                \* was still to come

history == <<overtaken, lost, repeated, crossed>>

vars == <<now, cache, routes, log, pc, limit, started, fetched,
          chosen, overtaken, lost, repeated, crossed>>

NoDecision == [request |-> Nothing, servedAt |-> 0, at |-> 0, limit |-> 0]

-----------------------------------------------------------------------------

Init ==
    /\ now = 0
    /\ cache = Nothing
    /\ routes = [u \in Units |-> Nothing]
    /\ log = <<>>
    /\ pc = [p \in Procs |-> "idle"]
    /\ limit = [p \in Procs |-> 0]
    /\ started = [p \in Procs |-> 0]
    /\ fetched = [p \in Procs |-> 0]
    /\ chosen = [p \in Procs |-> NoDecision]
    /\ overtaken = {}
    /\ lost = {}
    /\ repeated = {}
    /\ crossed = {}

Tick ==
    /\ now < MaxTime
    /\ now' = now + 1
    /\ UNCHANGED <<cache, routes, log, pc, limit, started, fetched,
                   chosen, history>>

-----------------------------------------------------------------------------
(***************************************************************************)
(* route refresh: fetch_models_with_cache.                                 *)
(***************************************************************************)

Refreshing(p) == pc[p] \in {"fetch", "write"}

Unexpired == cache # Nothing /\ cache.expiresAt > now

\* A cache that has not expired is the answer, whatever age is asked for.
AnswerFromCache(p, max) ==
    /\ pc[p] = "idle"
    /\ Unexpired
    /\ pc' = [pc EXCEPT ![p] = "answered"]
    /\ limit' = [limit EXCEPT ![p] = max]
    /\ UNCHANGED <<now, cache, routes, log, started, fetched, chosen,
                   history>>

\* Otherwise the API is asked; the time is taken before.
StartFetch(p, max) ==
    /\ pc[p] = "idle"
    /\ ~Unexpired
    /\ pc' = [pc EXCEPT ![p] = "fetch"]
    /\ limit' = [limit EXCEPT ![p] = max]
    /\ started' = [started EXCEPT ![p] = now]
    /\ UNCHANGED <<now, cache, routes, log, fetched, chosen, history>>

FetchRecords(p) ==
    /\ pc[p] = "fetch"
    /\ pc' = [pc EXCEPT ![p] = "write"]
    /\ fetched' = [fetched EXCEPT ![p] = now]
    /\ UNCHANGED <<now, cache, routes, log, limit, started, chosen,
                   history>>

\* What a process that runs no command holds.
Forget(p) ==
    /\ pc' = [pc EXCEPT ![p] = "idle"]
    /\ limit' = [limit EXCEPT ![p] = 0]
    /\ started' = [started EXCEPT ![p] = 0]
    /\ fetched' = [fetched EXCEPT ![p] = 0]
    /\ chosen' = [chosen EXCEPT ![p] = NoDecision]

\* The other refreshes now under way will write after p.
Overtake(p) == overtaken' = {q \in Procs \ {p} : Refreshing(q)}

\* Mutant: the records are dated when they are written.
WriteDatedNow(p) ==
    /\ pc[p] = "write"
    /\ cache' = [fetchedAt |-> now,
                 expiresAt |-> now + limit[p],
                 servedAt |-> fetched[p]]
    /\ Forget(p)
    /\ Overtake(p)
    /\ UNCHANGED <<now, routes, log, lost, repeated, crossed>>

\* Mutant: the two times are swapped.
WriteSwapped(p) ==
    /\ pc[p] = "write"
    /\ cache' = [fetchedAt |-> started[p] + limit[p],
                 expiresAt |-> started[p],
                 servedAt |-> fetched[p]]
    /\ Forget(p)
    /\ Overtake(p)
    /\ UNCHANGED <<now, routes, log, lost, repeated, crossed>>

\* _write_cache: one rename.  The command ends with it.
WriteCache(p) ==
    /\ pc[p] = "write"
    /\ cache' = [fetchedAt |-> started[p],
                 expiresAt |-> started[p] + limit[p],
                 servedAt |-> fetched[p]]
    /\ Forget(p)
    /\ Overtake(p)
    /\ UNCHANGED <<now, routes, log, lost, repeated, crossed>>

\* No answer, or no write: the command ends with the records it read before
\* (stale_cache) or an error, and leaves the file as it is.
FetchFails(p) ==
    /\ Refreshing(p)
    /\ Forget(p)
    /\ overtaken' = overtaken \ {p}
    /\ UNCHANGED <<now, cache, routes, log, lost, repeated, crossed>>

\* The answer is returned.
Return(p) ==
    /\ pc[p] = "answered"
    /\ Forget(p)
    /\ UNCHANGED <<now, cache, routes, log, history>>

-----------------------------------------------------------------------------
(***************************************************************************)
(* route assign --from-cache.                                              *)
(***************************************************************************)

\* assert_fresh; the flags it looks at are never set in the file, because only
\* records from the network are written.
Fresh(max) == cache # Nothing /\ now - cache.fetchedAt <= max

\* The registry is read and the route chosen.  Evidence that is not fresh, or
\* has no model that fits, is refused, and nothing happens.
Decide(p, r, max) ==
    /\ pc[p] = "idle"
    /\ Fresh(max)
    /\ pc' = [pc EXCEPT ![p] = "save"]
    /\ chosen' = [chosen EXCEPT ![p] =
                    [request |-> r, servedAt |-> cache.servedAt,
                     at |-> now, limit |-> max]]
    /\ UNCHANGED <<now, cache, routes, log, limit, started, fetched,
                   history>>

Recorded(r) == \E i \in DOMAIN log : log[i] = r

\* Somebody is about to append the event of a route of u.
Owed(u) == \E p \in Procs : pc[p] = "append" /\ UnitOf[chosen[p].request] = u

\* The row is inserted, or takes the place of the unit's earlier one.
SaveRoute(p) ==
    LET r == chosen[p].request
        u == UnitOf[r]
    IN /\ pc[p] = "save"
       /\ routes' = [routes EXCEPT ![u] = chosen[p]]
       /\ repeated' = IF Recorded(r) THEN repeated \cup {u} ELSE repeated \ {u}
       /\ crossed' = IF Owed(u) THEN crossed \cup {u} ELSE crossed \ {u}
       /\ pc' = [pc EXCEPT ![p] = "append"]
       /\ UNCHANGED <<now, cache, log, limit, started, fetched, chosen,
                      overtaken, lost>>

\* Mutant: one event for each unit.
AppendOncePerUnit(p) ==
    /\ pc[p] = "append"
    /\ log' = IF \E i \in DOMAIN log :
                    UnitOf[log[i]] = UnitOf[chosen[p].request]
                THEN log ELSE Append(log, chosen[p].request)
    /\ lost' = lost \ {chosen[p].request}
    /\ Forget(p)
    /\ UNCHANGED <<now, cache, routes, overtaken, repeated, crossed>>

\* append_event; the hash of the request is in the key
\* route:{plan_id}:{unit_id}:{source_hash}, the hash of the evidence is not.
\* A key the caller gives instead (--idempotency-key) is left out.
AppendChanged(p) ==
    /\ pc[p] = "append"
    /\ log' = IF Recorded(chosen[p].request) THEN log
                                             ELSE Append(log, chosen[p].request)
    /\ lost' = lost \ {chosen[p].request}
    /\ Forget(p)
    /\ UNCHANGED <<now, cache, routes, overtaken, repeated, crossed>>

\* The process is killed, or an exception ends the command.
Stop(p) ==
    /\ pc[p] \in {"save", "append"}
    /\ Forget(p)
    /\ lost' = IF pc[p] = "append" /\ ~Recorded(chosen[p].request)
                 THEN lost \cup {chosen[p].request} ELSE lost
    /\ UNCHANGED <<now, cache, routes, log, overtaken, repeated, crossed>>

Next ==
    \/ Tick
    \/ \E p \in Procs :
         \/ \E max \in Limits : AnswerFromCache(p, max) \/ StartFetch(p, max)
         \/ FetchRecords(p)
         \/ WriteCache(p)
         \/ FetchFails(p)
         \/ \E r \in Requests, max \in Limits : Decide(p, r, max)
         \/ SaveRoute(p)
         \/ AppendChanged(p)
         \/ Return(p)
         \/ Stop(p)

Spec == Init /\ [][Next]_vars

-----------------------------------------------------------------------------
(***************************************************************************)
(* Properties.                                                             *)
(***************************************************************************)

Times == 0..MaxTime

Caches == [fetchedAt : Times, expiresAt : Nat, servedAt : Times]

Decisions == [request : Requests, servedAt : Times, at : Times, limit : Limits]

Labels == {"idle", "fetch", "write", "answered", "save", "append"}

\* The cache is never dated in the future, and whoever saves a route has
\* chosen one.
TypeOK ==
    /\ now \in Times
    /\ cache # Nothing => cache \in Caches /\ cache.fetchedAt <= now
    /\ routes \in [Units -> Decisions \cup {Nothing}]
    /\ \A u \in Units :
          routes[u] # Nothing => UnitOf[routes[u].request] = u
    /\ log \in Seq(Requests)
    /\ pc \in [Procs -> Labels]
    /\ limit \in [Procs -> Limits \cup {0}]
    /\ started \in [Procs -> Times]
    /\ fetched \in [Procs -> Times]
    /\ chosen \in [Procs -> Decisions \cup {NoDecision}]
    /\ \A p \in Procs :
          pc[p] \in {"save", "append"} => chosen[p] \in Decisions
    /\ overtaken \subseteq {p \in Procs : Refreshing(p)}
    /\ lost \subseteq Requests
    /\ repeated \subseteq Units
    /\ crossed \subseteq Units

\* A route rests on evidence that was, when the route was chosen, really no
\* older than the assignment allowed: however long the API took to answer,
\* whatever it changed meanwhile, and whoever wrote the cache.
RoutedOnFresh ==
    \A u \in Units : routes[u] # Nothing =>
        routes[u].at - routes[u].servedAt <= routes[u].limit

\* r is the request of the last route.changed event of u, which is the one the
\* projection shows.
LastRecorded(u, r) ==
    \E i \in DOMAIN log :
        /\ log[i] = r
        /\ \A j \in DOMAIN log : j > i => UnitOf[log[j]] # u

\* The request a unit's route answers is in the ledger, on its way there, or
\* was lost with its process.  It is the one of the unit's last event, unless
\* the ledger knew it from before, or assignments of the unit crossed.
RoutesKnown ==
    \A u \in Units : routes[u] # Nothing =>
        \/ routes[u].request \in lost
        \/ \E p \in Procs :
              pc[p] = "append" /\ chosen[p].request = routes[u].request
        \/ IF u \in repeated \cup crossed
             THEN Recorded(routes[u].request)
             ELSE LastRecorded(u, routes[u].request)

\* A refresh never puts older evidence, or an older date, in the place of newer,
\* unless the cache was written while it was under way.
EvidenceMovesOn ==
    [][\A p \in Procs :
         WriteCache(p) /\ p \notin overtaken /\ cache # Nothing
           => /\ cache'.servedAt >= cache.servedAt
              /\ cache'.fetchedAt >= cache.fetchedAt]_vars

(* The inductive invariant behind RoutedOnFresh.                           *)

\* Dates are those of the question, never later than the answer.
HonestDates ==
    /\ cache # Nothing => cache.fetchedAt <= cache.servedAt
    /\ \A p \in Procs :
          /\ Refreshing(p) => started[p] <= now
          /\ pc[p] = "write" => started[p] <= fetched[p]
          /\ pc[p] \in {"save", "append"} =>
                chosen[p].at - chosen[p].servedAt <= chosen[p].limit

=============================================================================
