---------------------------- MODULE RoutingProofs ----------------------------
(***************************************************************************)
(* Proofs about routing, for any registry, task, number of processes and   *)
(* limits: what the router chooses (module Router), and how fresh the      *)
(* evidence is that a route rests on (module Routes).                      *)
(***************************************************************************)
EXTENDS Router, Routes, FiniteSetTheorems, NaturalsInduction,
        WellFoundedInduction, TLAPS

-----------------------------------------------------------------------------
(***************************************************************************)
(* The choice of the router.                                               *)
(***************************************************************************)

\* A minimum over a set is in it, or there is none.
LEMMA OnlyIsMember == \A S : Only(S) \in S \cup {NoRoute}
BY DEF Only

\* A fallback is one of the candidates, and another one.
LEMMA FallbackIsCandidate ==
    ASSUME NEW r, NEW S
    PROVE  FallbackOf(r, S) \in (S \ {r}) \cup {NoRoute}
<1> DEFINE others == S \ {r}
           elsewhere == {s \in others :
                           models[s].provider_id # models[r].provider_id}
           choice == Least(IF elsewhere = {} THEN others ELSE elsewhere,
                           [s \in others |-> ExpectedCost(s)])
<1>1. choice \subseteq S \ {r}
  BY DEF Least
<1>2. FallbackOf(r, S) = Only(choice)
  BY DEF FallbackOf
<1> QED
  BY <1>1, <1>2, OnlyIsMember

\* The groups of precedence are four.
LEMMA TierRange ==
    ASSUME NEW r \in Routes, ~Fails(r)
    PROVE  Tier(r) \in 1..4
BY RouterAssumption
   DEF RouterAssumption, ProviderCapabilities, Providers, Provider, Fails, Tier

-----------------------------------------------------------------------------
(***************************************************************************)
(* The invariant.                                                          *)
(***************************************************************************)

Scored == phase \in {"scored", "override", "precedence", "eligible", "retained"}

\* The routes left are eligible, and of the first group if that is asked for.
Precedent ==
    \A r \in pool :
        /\ Eligible(r)
        /\ task.subscription_first =>
              \A s \in Routes : Eligible(s) => Tier(r) <= Tier(s)

RInv ==
    /\ fallback \in [Routes -> Routes \cup {NoRoute}]
    /\ selected \in Routes \cup {NoRoute}
    /\ phase \in {"called", "override", "scored", "precedence", "eligible",
                  "retained", "decided", "error"}
    /\ Scored => ~Director /\ scored = {r \in Routes : ~Fails(r)}
    /\ phase \in {"scored", "precedence", "eligible", "retained"} =>
          task.manual_override_model_id = NoRoute
    /\ phase # "decided" =>
          selected = NoRoute /\ (phase # "retained" =>
                                    fallback = [r \in Routes |-> NoRoute])
    /\ phase = "precedence" => pool = {r \in Routes : Eligible(r)}
    /\ phase \in {"eligible", "retained"} => pool \subseteq Routes /\ Precedent
    /\ phase = "retained" =>
          \A r \in pool : fallback[r] \in pool \cup {NoRoute}
    /\ OnlyFitRoutes
    /\ OwnedFirst

\* Nothing is assigned at first.
LEMMA InitRInv == RouterInit => RInv
BY DEF RouterInit, RInv, Scored, OnlyFitRoutes, OwnedFirst, ByScore

\* The routes and the task stay as they are, and with them what is fit.
LEMMA SameTask ==
    ASSUME UNCHANGED given
    PROVE  /\ \A r : Fails(r)' = Fails(r) /\ Eligible(r)' = Eligible(r)
                       /\ Tier(r)' = Tier(r)
           /\ Director' = Director /\ task' = task
BY DEF given, Fails, Eligible, Tier, Provider, Director, NoRoute

\* The pinned route, if it is fit.
LEMMA PinStep ==
    ASSUME RInv, PinDirector \/ PinMissing
    PROVE  RInv'
<1> USE DEF RInv
<1>1. UNCHANGED given /\ Director /\ fallback' = fallback
      /\ fallback = [r \in Routes |-> NoRoute] /\ selected = NoRoute
  BY DEF PinDirector, PinMissing
<1>2. CASE PinDirector
  <2> DEFINE fit == {r \in Routes : r = task.pinned_model_id /\ ~Fails(r)}
  <2>1. phase' = "decided" /\ selected' \in fit \cup {NoRoute}
    BY <1>2, OnlyIsMember DEF PinDirector
  <2>2. Assigned' \subseteq fit
    BY <1>1, <2>1 DEF Assigned
  <2>3. OnlyFitRoutes'
    BY <1>1, <2>2, SameTask DEF OnlyFitRoutes, ByScore
  <2>4. OwnedFirst'
    BY <1>1, SameTask DEF OwnedFirst, ByScore
  <2> QED
    BY <1>1, <2>1, <2>3, <2>4 DEF Scored
<1>3. CASE PinMissing
  BY <1>1, <1>3 DEF PinMissing, Scored, OnlyFitRoutes, OwnedFirst, ByScore
<1> QED
  BY <1>2, <1>3

\* What was asked for, and a fallback that was scored.
LEMMA OverrideStep ==
    ASSUME RInv, Override
    PROVE  RInv'
<1> USE DEF RInv
<1> DEFINE o == task.manual_override_model_id
<1>1. /\ phase = "override" /\ phase' = "decided" /\ UNCHANGED given
      /\ ~Director /\ scored = {r \in Routes : ~Fails(r)}
      /\ fallback = [r \in Routes |-> NoRoute] /\ selected = NoRoute
  BY DEF Override, Scored
<1>2. CASE UNCHANGED <<fallback, selected>>
  <2>1. Assigned' = {}
    BY <1>1, <1>2 DEF Assigned
  <2> QED
    BY <1>1, <1>2, <2>1, SameTask DEF OnlyFitRoutes, OwnedFirst, ByScore,
       Scored
<1>3. CASE ~UNCHANGED <<fallback, selected>>
  <2>1. /\ o \in scored \/ (task.force_override /\ o \in Routes)
        /\ selected' = o
        /\ fallback' = [fallback EXCEPT ![o] = FallbackOf(o, scored)]
    BY <1>3 DEF Override
  <2>2. o \in Routes /\ FallbackOf(o, scored) \in scored \cup {NoRoute}
    BY <1>1, <2>1, FallbackIsCandidate
  <2>3. fallback'[o] \in scored \cup {NoRoute}
        /\ fallback' \in [Routes -> Routes \cup {NoRoute}]
    BY <1>1, <2>1, <2>2
  <2>4. o # NoRoute
    BY <2>2, RouterAssumption DEF RouterAssumption
  <2>5. Assigned' \subseteq scored \cup {o}
    BY <2>1, <2>3 DEF Assigned
  <2>6. ~ByScore'
    BY <1>1, <2>4 DEF ByScore, given
  <2>7. OnlyFitRoutes'
    BY <1>1, <2>1, <2>5, <2>6, SameTask DEF OnlyFitRoutes
  <2> QED
    BY <1>1, <2>1, <2>2, <2>3, <2>6, <2>7 DEF OwnedFirst, Scored
<1> QED
  BY <1>2, <1>3

\* The filters of the routes.
LEMMA FilterStep ==
    ASSUME RInv, HardFilter \/ QualityFloor
    PROVE  RInv'
<1> USE DEF RInv
<1>1. /\ UNCHANGED <<given, fallback, selected>> /\ phase # "decided"
      /\ ~Director /\ phase' \notin {"decided", "retained"}
      /\ phase \in {"called", "scored"}
  BY DEF HardFilter, QualityFloor, Scored
<1>2. OnlyFitRoutes' /\ OwnedFirst'
  BY <1>1 DEF OnlyFitRoutes, OwnedFirst, ByScore
<1>3. CASE HardFilter
  BY <1>1, <1>2, <1>3, SameTask DEF HardFilter, Scored
<1>4. CASE QualityFloor
  <2>1. /\ phase = "scored" /\ scored' = scored
        /\ scored = {r \in Routes : ~Fails(r)}
        /\ task.manual_override_model_id = NoRoute
        /\ pool' = {r \in scored : models[r].quality >= task.quality_floor}
        /\ phase' = IF task.subscription_first THEN "precedence" ELSE "eligible"
    BY <1>4 DEF QualityFloor, Scored
  <2>2. pool' = {r \in Routes : Eligible(r)}
    BY <2>1 DEF Eligible
  <2>3. ~task.subscription_first => Precedent'
    BY <1>1, <2>2, SameTask DEF Precedent
  <2> QED
    BY <1>1, <1>2, <2>1, <2>2, <2>3, SameTask DEF Scored
<1> QED
  BY <1>3, <1>4

\* The first group is left, and duplicates are of the last.
LEMMA PrecedenceStep ==
    ASSUME RInv, SubscriptionFirst
    PROVE  RInv'
<1> USE DEF RInv
<1> DEFINE left == pool \ Duplicates(pool)
<1>1. /\ UNCHANGED <<given, scored, fallback, selected>>
      /\ phase = "precedence" /\ phase' = "eligible"
      /\ pool = {r \in Routes : Eligible(r)}
      /\ pool' = {r \in left : \A s \in left : Tier(r) <= Tier(s)}
  BY DEF SubscriptionFirst
<1>2. \A r \in pool : Tier(r) \in 1..4
  BY <1>1, TierRange DEF Eligible
<1>3. \A s \in Duplicates(pool) : Tier(s) = 4
  BY DEF Duplicates
<1>4. \A r \in pool' :
        Eligible(r) /\ \A s \in Routes : Eligible(s) => Tier(r) <= Tier(s)
  <2> SUFFICES ASSUME NEW r \in pool', NEW s \in pool
               PROVE  Tier(r) <= Tier(s)
    BY <1>1
  <2>1. r \in left /\ Tier(r) \in 1..4 /\ Tier(s) \in 1..4
    BY <1>1, <1>2
  <2>2. CASE s \in left
    BY <1>1, <2>2
  <2>3. CASE s \in Duplicates(pool)
    BY <1>3, <2>1, <2>3
  <2> QED
    BY <2>2, <2>3
<1>5. Precedent'
  BY <1>1, <1>4, SameTask DEF Precedent
<1>6. OnlyFitRoutes' /\ OwnedFirst'
  BY <1>1 DEF OnlyFitRoutes, OwnedFirst, ByScore
<1> QED
  BY <1>1, <1>5, <1>6, SameTask DEF Scored

\* What is retained was in the pool, and so are the fallbacks.
LEMMA RetainStep ==
    ASSUME RInv, Retain
    PROVE  RInv'
<1> USE DEF RInv
<1>1. /\ UNCHANGED <<given, scored, selected>>
      /\ phase = "eligible" /\ phase' = "retained"
      /\ pool \subseteq Routes /\ Precedent
      /\ fallback' = [r \in Routes |->
                        IF r \in pool' THEN FallbackOf(r, pool') ELSE NoRoute]
  BY DEF Retain
<1>2. pool' \subseteq pool
  BY DEF Retain, ParetoFrontier
<1>3. Precedent'
  BY <1>1, <1>2, SameTask DEF Precedent
<1>4. \A r \in pool' : fallback'[r] \in pool' \cup {NoRoute}
  BY <1>1, <1>2, FallbackIsCandidate
<1>5. fallback' \in [Routes -> Routes \cup {NoRoute}]
  BY <1>1, <1>2, FallbackIsCandidate
<1>6. OnlyFitRoutes' /\ OwnedFirst'
  BY <1>1 DEF OnlyFitRoutes, OwnedFirst, ByScore
<1> QED
  BY <1>1, <1>2, <1>3, <1>4, <1>5, <1>6, SameTask DEF Scored

\* One of the retained routes is selected, with its fallback.
LEMMA SelectStep ==
    ASSUME RInv, Select
    PROVE  RInv'
<1> USE DEF RInv
<1>1. /\ UNCHANGED <<given, scored, pool, eliminations, fallback>>
      /\ phase = "retained" /\ phase' = "decided" /\ ~Director
      /\ pool \subseteq Routes /\ Precedent
      /\ \A r \in pool : fallback[r] \in pool \cup {NoRoute}
  BY DEF Select, Scored
<1>2. selected' \in pool \cup {NoRoute}
  BY OnlyIsMember DEF Select, Least
<1>3. Assigned' \subseteq pool
  BY <1>1, <1>2 DEF Assigned
<1>4. OnlyFitRoutes' /\ OwnedFirst'
  BY <1>1, <1>3, SameTask DEF OnlyFitRoutes, OwnedFirst, Precedent, Eligible
<1> QED
  BY <1>1, <1>2, <1>4 DEF Scored

\* Every step preserves the invariant.
LEMMA StepRInv == RInv /\ [RouterNext]_routerVars => RInv'
<1> SUFFICES ASSUME RInv, [RouterNext]_routerVars PROVE RInv'
  OBVIOUS
<1>1. CASE UNCHANGED routerVars
  <2>1. UNCHANGED <<task, models, phase, scored, pool, fallback, selected>>
    BY <1>1 DEF routerVars
  <2> QED
    BY <2>1 DEF RInv, Scored, Director, Precedent, OnlyFitRoutes, OwnedFirst,
       ByScore, Assigned, Eligible, Fails, Tier, Provider
<1> QED
  BY <1>1, PinStep, OverrideStep, FilterStep, PrecedenceStep, RetainStep,
     SelectStep DEF RouterNext

\* RInv holds in every reachable state.
THEOREM RouterInvariant == RouterSpec => []RInv
BY InitRInv, StepRInv, PTL DEF RouterSpec

\* The values the stages keep beside the invariant.
Kept ==
    /\ task \in Tasks
    /\ models \in [Routes -> Given]
    /\ pool \subseteq scored /\ scored \subseteq Routes
    /\ phase = "called" => pool = {} /\ eliminations = {}
    /\ eliminations \subseteq
         Nat \X {"requirement", "floor", "duplicate", "group"}
    /\ \A r \in Routes : fallback[r] # r

\* A stage keeps its receipt in order, and gives no route itself to fall back
\* on.
LEMMA StepKept == Kept /\ RInv /\ RInv' /\ [RouterNext]_routerVars => Kept'
<1> SUFFICES ASSUME Kept, RInv, RInv', [RouterNext]_routerVars PROVE Kept'
  OBVIOUS
<1> USE DEF Kept
<1>1. NoRoute \notin Routes /\ Routes \subseteq Nat
      /\ task.pinned_model_id \in Nat
  BY RouterAssumption DEF RouterAssumption, TaskRequirements
<1> DEFINE Reasons == Nat \X {"requirement", "floor", "duplicate", "group"}
<1>2. CASE PinDirector \/ PinMissing
  <2>1. eliminations' \subseteq Reasons
    BY <1>1, <1>2 DEF PinDirector, PinMissing
  <2>2. pool' = {} /\ scored' \subseteq Routes /\ phase' # "called"
    BY <1>2 DEF PinDirector, PinMissing
  <2> QED
    BY <1>2, <2>1, <2>2 DEF PinDirector, PinMissing, given
<1>3. CASE HardFilter \/ QualityFloor
  <2>1. scored' \subseteq Routes /\ pool' \subseteq scored' /\ phase' # "called"
    BY <1>3 DEF HardFilter, QualityFloor
  <2>2. eliminations' \subseteq Reasons
    <3>1. CASE HardFilter
      BY <1>1, <3>1 DEF HardFilter
    <3>2. CASE QualityFloor
      BY <1>1, <3>2 DEF QualityFloor
    <3> QED
      BY <1>3, <3>1, <3>2
  <2> QED
    BY <1>3, <2>1, <2>2 DEF HardFilter, QualityFloor, given
<1>4. CASE Override
  BY <1>1, <1>4, FallbackIsCandidate DEF Override, given, RInv
<1>5. CASE SubscriptionFirst
  <2>1. /\ Duplicates(pool) \subseteq Nat /\ pool \subseteq Nat
        /\ pool' \subseteq pool
    BY <1>1, <1>5 DEF SubscriptionFirst, Duplicates
  <2>2. eliminations' = eliminations
           \cup {<<r, "duplicate">> : r \in Duplicates(pool)}
           \cup {<<r, "group">> : r \in (pool \ Duplicates(pool)) \ pool'}
    BY <1>5 DEF SubscriptionFirst
  <2>3. eliminations' \subseteq Reasons
    BY <2>1, <2>2
  <2> QED
    BY <1>5, <2>1, <2>3 DEF SubscriptionFirst, given
<1>6. CASE Retain
  <2>1. pool' \subseteq pool
    BY <1>6 DEF Retain, ParetoFrontier
  <2>2. \A r \in Routes : fallback'[r] # r
    BY <1>1, <1>6, FallbackIsCandidate DEF Retain
  <2> QED
    BY <1>6, <2>1, <2>2 DEF Retain, given
<1>7. CASE Select \/ UNCHANGED routerVars
  BY <1>7 DEF Select, routerVars, given
<1> QED
  BY <1>2, <1>3, <1>4, <1>5, <1>6, <1>7 DEF RouterNext

\* A decision is of the registry, its receipt names why a route fell out, and
\* no route falls back on itself.
THEOREM RouterTypeCorrect == RouterSpec => []RouterTypeOK
<1>1. RouterInit => Kept
  BY RouterAssumption DEF RouterInit, Kept, RouterAssumption
<1>2. Kept /\ RInv => RouterTypeOK
  BY DEF Kept, RInv, RouterTypeOK
<1> QED
  BY <1>1, <1>2, RouterInvariant, StepKept, PTL DEF RouterSpec

\* route_model assigns, as the route or as its fallback, nothing that fails a
\* requirement of the task, except what an override forces, for any registry.
THEOREM AssignedRoutesFit == RouterSpec => []OnlyFitRoutes
<1>1. RInv => OnlyFitRoutes
  BY DEF RInv
<1> QED
  BY <1>1, RouterInvariant, PTL

\* _apply_subscription_first: with subscription_first no decision assigns a
\* route while an eligible one of an earlier group would do, for any registry.
THEOREM OwnedRoutesFirst == RouterSpec => []OwnedFirst
<1>1. RInv => OwnedFirst
  BY DEF RInv
<1> QED
  BY <1>1, RouterInvariant, PTL

-----------------------------------------------------------------------------
(***************************************************************************)
(* Costs are integers, and any routes have a least.                        *)
(***************************************************************************)

\* A set of naturals that is not empty has a least member.
LEMMA LeastNat ==
    ASSUME NEW S \in SUBSET Nat, S # {}
    PROVE  \E n \in S : \A m \in S : n <= m
<1> DEFINE R == OpToRel(<, Nat)
<1>1. PICK n \in S : \A m \in S : <<m, n>> \notin R
  <2>1. IsWellFoundedOn(R, Nat)
    BY NatLessThanWellFounded
  <2> HIDE DEF R
  <2> QED
    BY <2>1, WFMin
<1>2. \A m \in S : ~(m < n)
  BY <1>1 DEF OpToRel
<1> QED
  BY <1>2

\* Accrued is defined by its equation, and a number for each number.
LEMMA AccruedType ==
    ASSUME NEW first \in Int, NEW factor \in Int, NEW added \in [Nat -> Int]
    PROVE  Accrued(first, factor, added) \in [Nat -> Int]
<1> DEFINE Parts(n) ==
             {h \in [0..n -> Int] :
                 /\ h[0] = first
                 /\ \A i \in 1..n : h[i] = added[i] + factor * h[i - 1]}
           part(n) == CHOOSE h \in Parts(n) : TRUE
           whole == [n \in Nat |-> part(n)[n]]
           sum == Accrued(first, factor, added)
<1>1. \A n \in Nat : Parts(n) # {}
  <2> SUFFICES ASSUME {n \in Nat : Parts(n) = {}} # {} PROVE FALSE
    OBVIOUS
  <2>1. PICK n \in Nat : /\ Parts(n) = {}
                         /\ \A m \in Nat : Parts(m) = {} => n <= m
    <3> HIDE DEF Parts
    <3> DEFINE S == {m \in Nat : Parts(m) = {}}
    <3>1. \E m \in S : \A k \in S : m <= k
      <4>1. S \in SUBSET Nat /\ S # {}
        OBVIOUS
      <4> HIDE DEF S
      <4> QED
        BY <4>1, LeastNat
    <3> QED
      BY <3>1
  <2>2. CASE n = 0
    <3>1. [i \in 0..0 |-> first] \in Parts(0)
      OBVIOUS
    <3> QED
      BY <2>1, <2>2, <3>1
  <2>3. CASE n # 0
    <3>1. n - 1 \in Nat /\ Parts(n - 1) # {}
      <4>1. n - 1 \in Nat /\ ~(n <= n - 1)
        BY <2>3
      <4> HIDE DEF Parts
      <4> QED
        BY <2>1, <4>1
    <3>2. PICK h \in Parts(n - 1) : TRUE
      BY <3>1
    <3> DEFINE next == added[n] + factor * h[n - 1]
               longer == [i \in 0..n |-> IF i = n THEN next ELSE h[i]]
    <3>3. next \in Int
      <4>1. h[n - 1] \in Int /\ added[n] \in Int
        BY <3>1, <3>2
      <4>2. factor * h[n - 1] \in Int
        BY <4>1
      <4> QED
        BY <4>1, <4>2
    <3>4. \A i \in 0..(n - 1) : longer[i] = h[i] /\ h[i] \in Int
      BY <3>1, <3>2
    <3>5. longer[n] = next
      OBVIOUS
    <3>6. longer \in [0..n -> Int]
      BY <3>1, <3>2, <3>3
    <3>7. longer[0] = first
      BY <2>3, <3>2, <3>4
    <3>8. ASSUME NEW i \in 1..n
          PROVE  longer[i] = added[i] + factor * longer[i - 1]
      <4>1. i - 1 \in 0..(n - 1) /\ longer[i - 1] = h[i - 1]
        BY <3>1, <3>4
      <4>2. CASE i = n
        BY <3>5, <4>1, <4>2
      <4>3. CASE i # n
        <5>1. i \in 1..(n - 1) /\ i \in 0..(n - 1)
          BY <4>3
        <5>2. h[i] = added[i] + factor * h[i - 1]
          BY <3>2, <5>1
        <5> QED
          BY <3>4, <4>1, <5>1, <5>2
      <4> QED
        BY <4>2, <4>3
    <3>9. longer \in Parts(n)
      <4> HIDE DEF longer
      <4> QED
        BY <3>6, <3>7, <3>8
    <3> QED
      BY <2>1, <3>9
  <2> QED
    BY <2>2, <2>3
<1>2. ASSUME NEW n \in Nat, NEW h \in Parts(n),
             NEW m \in Nat, NEW k \in Parts(m), n <= m
      PROVE  h[n] = k[n]
  <2> DEFINE S == {i \in 0..n : h[i] # k[i]}
  <2> SUFFICES ASSUME S # {} PROVE FALSE
    <3>1. n \in 0..n
      OBVIOUS
    <3> HIDE DEF Parts
    <3> QED
      BY <3>1
  <2>1. PICK i \in S : \A j \in S : i <= j
    <3>1. S \in SUBSET Nat
      OBVIOUS
    <3> HIDE DEF S
    <3> QED
      BY <3>1, LeastNat
  <2>2. i # 0
    BY <2>1
  <2>3. i - 1 \in 0..n /\ i - 1 \notin S /\ i \in 1..n /\ i \in 1..m
    BY <1>2, <2>1, <2>2
  <2>4. h[i - 1] = k[i - 1]
    BY <2>3
  <2>5. /\ h[i] = added[i] + factor * h[i - 1]
        /\ k[i] = added[i] + factor * k[i - 1]
    BY <2>3
  <2> QED
    BY <2>1, <2>4, <2>5
<1>3. \A n \in Nat : part(n) \in Parts(n)
  BY <1>1
<1> HIDE DEF part
<1>4. whole = [n \in Nat |-> IF n = 0 THEN first
                            ELSE added[n] + factor * whole[n - 1]]
  <2>1. ASSUME NEW n \in Nat, n # 0
        PROVE  whole[n] = added[n] + factor * whole[n - 1]
    <3>1. n - 1 \in Nat /\ n \in 1..n
      BY <2>1
    <3>2. part(n)[n] = added[n] + factor * part(n)[n - 1]
      BY <1>3, <3>1
    <3>3. part(n - 1)[n - 1] = part(n)[n - 1]
      <4>1. part(n - 1) \in Parts(n - 1) /\ part(n) \in Parts(n) /\ n - 1 <= n
        BY <1>3, <3>1
      <4> HIDE DEF Parts
      <4> QED
        BY <1>2, <3>1, <4>1
    <3> QED
      BY <3>1, <3>2, <3>3
  <2>2. whole[0] = first
    BY <1>3
  <2> HIDE DEF Parts
  <2>3. ASSUME NEW n \in Nat
        PROVE  whole[n] = IF n = 0 THEN first
                          ELSE added[n] + factor * whole[n - 1]
    BY <2>1, <2>2
  <2>4. whole = [n \in Nat |-> whole[n]]
    OBVIOUS
  <2> HIDE DEF whole
  <2> QED
    BY <2>3, <2>4
<1>5. sum = [n \in Nat |-> IF n = 0 THEN first
                          ELSE added[n] + factor * sum[n - 1]]
  <2> HIDE DEF whole
  <2>1. sum = CHOOSE g : g = [n \in Nat |-> IF n = 0 THEN first
                                     ELSE added[n] + factor * g[n - 1]]
    BY DEF Accrued
  <2> HIDE DEF sum
  <2> QED
    BY <1>4, <2>1
<1>6. \A n \in Nat : sum[n] \in Int
  <2> HIDE DEF sum
  <2> DEFINE S == {n \in Nat : sum[n] \notin Int}
  <2> SUFFICES ASSUME S # {} PROVE FALSE
    OBVIOUS
  <2>1. PICK n \in S : \A m \in S : n <= m
    <3>1. S \in SUBSET Nat
      OBVIOUS
    <3> HIDE DEF S
    <3> QED
      BY <3>1, LeastNat
  <2>2. sum[0] = first
    BY <1>5
  <2>3. n # 0
    BY <2>1, <2>2
  <2>4. n - 1 \in Nat /\ sum[n - 1] \in Int
    BY <2>1, <2>3
  <2>5. sum[n] = added[n] + factor * sum[n - 1]
    BY <1>5, <2>3
  <2>6. factor * sum[n - 1] \in Int /\ added[n] \in Int
    BY <2>4
  <2> QED
    BY <2>1, <2>5, <2>6
<1> QED
  <2> SUFFICES sum \in [Nat -> Int]
    OBVIOUS
  <2> HIDE DEF sum
  <2>1. sum = [n \in Nat |-> sum[n]]
    BY <1>5
  <2>2. [n \in Nat |-> sum[n]] \in [Nat -> Int]
    BY <1>6
  <2> QED
    BY <2>1, <2>2

\* Powers are integers.
LEMMA PowersType == ASSUME NEW x \in Int PROVE Powers(x) \in [Nat -> Int]
<1>1. [n \in Nat |-> 0] \in [Nat -> Int]
  OBVIOUS
<1> QED
  BY <1>1, AccruedType DEF Powers

\* What the task and the registry are typed as.
Sound == task \in Tasks /\ models \in [Routes -> Given]

\* What a route is compared by is a number.
LEMMA MeritTypes ==
    ASSUME Sound, NEW r \in Routes, ~Fails(r)
    PROVE  /\ models[r].quality \in Nat
           /\ Provider(r).reliability \in Nat
           /\ models[r].latency_ms \in Int
           /\ models[r].confidence \in Int
           /\ models[r].per_attempt_cost \in Int
           /\ Failing(r) \in Int /\ Unit \in Int
<1>1. models[r] \in Given
  BY DEF Sound
<1>2. /\ models[r].quality \in Nat
      /\ models[r].latency_ms \in Int
      /\ models[r].confidence \in Int
      /\ models[r].per_attempt_cost \in Int
      /\ QualityUnit \in Nat /\ ReliabilityUnit \in Nat
  BY <1>1, RouterAssumption DEF RouterAssumption
<1>3. Provider(r).reliability \in Nat
  BY RouterAssumption
  DEF RouterAssumption, Fails, Provider, Providers, ProviderCapabilities
<1>4. Unit \in Int
  BY <1>2 DEF Unit
<1>5. models[r].quality * Provider(r).reliability \in Int
  BY <1>2, <1>3
<1>6. Failing(r) \in Int
  BY <1>4, <1>5 DEF Failing
<1> QED
  BY <1>2, <1>3, <1>4, <1>6

\* The expected cost of a route that fits the task is an integer.
LEMMA ExpectedCostType ==
    ASSUME Sound, NEW r \in Routes, ~Fails(r)
    PROVE  ExpectedCost(r) \in Int
<1> DEFINE cost == models[r].per_attempt_cost
           rest == Powers(Unit)[Attempts - 1]
           escalated == Powers(Failing(r))[Attempts]
<1>1. cost \in Int /\ Failing(r) \in Int /\ Unit \in Int
  BY MeritTypes
<1>2. Attempts \in Nat /\ Attempts - 1 \in Nat
      /\ task.repair_cost_factor \in Int /\ task.escalation_cost \in Int
  BY RouterAssumption DEF Sound, RouterAssumption, TaskRequirements, Attempts
<1>3. AttemptsPaid(r) \in Int
  <2>1. Powers(Unit) \in [Nat -> Int]
    BY <1>1, PowersType
  <2>2. 0 \in Int /\ Failing(r) \in Int
    BY <1>1
  <2>3. Accrued(0, Failing(r), Powers(Unit)) \in [Nat -> Int]
    BY <2>1, <2>2, AccruedType
  <2> QED
    BY <1>2, <2>3 DEF AttemptsPaid
<1>4. rest \in Int /\ escalated \in Int
  BY <1>1, <1>2, PowersType
<1> HIDE DEF cost, rest, escalated
<1>5. cost * AttemptsPaid(r) \in Int /\ escalated * task.escalation_cost \in Int
  BY <1>1, <1>2, <1>3, <1>4
<1>6. Failing(r) * rest \in Int
  BY <1>1, <1>4
<1>7. Failing(r) * rest * cost \in Int
  BY <1>1, <1>6
<1>8. Failing(r) * rest * cost * task.repair_cost_factor \in Int
  BY <1>2, <1>7
<1>9. ExpectedCost(r) = cost * AttemptsPaid(r)
          + Failing(r) * rest * cost * task.repair_cost_factor
          + escalated * task.escalation_cost
  BY DEF ExpectedCost, cost, rest, escalated
<1> QED
  BY <1>5, <1>8, <1>9

\* The cost with a fallback that fits, or with none, is an integer.
LEMMA CostWithType ==
    ASSUME Sound, NEW r \in Routes, ~Fails(r),
           NEW s \in Routes \cup {NoRoute}, s \in Routes => ~Fails(s)
    PROVE  CostWith(r, s) \in Int
<1> DEFINE unit == Powers(Unit)[Attempts]
           escalated == Powers(Failing(r))[Attempts]
<1>1. unit \in Int /\ escalated \in Int
  <2>1. Attempts \in Nat
    BY RouterAssumption DEF Sound, RouterAssumption, TaskRequirements, Attempts
  <2> QED
    BY <2>1, MeritTypes, PowersType
<1>2. ExpectedCost(r) \in Int /\ (s \in Routes => ExpectedCost(s) \in Int)
  BY ExpectedCostType
<1>3. ExpectedCost(r) * unit \in Int
  BY <1>1, <1>2
<1>4. s # NoRoute => escalated * ExpectedCost(s) \in Int
  BY <1>1, <1>2
<1>5. CostWith(r, s) = ExpectedCost(r) * unit
         + IF s = NoRoute THEN 0 ELSE escalated * ExpectedCost(s)
  BY DEF CostWith
<1> QED
  BY <1>3, <1>4, <1>5

-----------------------------------------------------------------------------
(***************************************************************************)
(* Orders.                                                                 *)
(***************************************************************************)

\* R is a strict order on S.
Orders(R, S) ==
    /\ \A x \in S : <<x, x>> \notin R
    /\ \A x, y, z \in S :
          <<x, y>> \in R /\ <<y, z>> \in R => <<x, z>> \in R

\* Nothing in S is below y, which is x or below x.
EndsAt(R, S, x, y) ==
    /\ y = x \/ <<y, x>> \in R
    /\ \A z \in S : <<z, y>> \notin R

\* Below each member of a finite set, or at it, there is one that nothing is
\* below.
LEMMA MinimalBelow ==
    ASSUME NEW S, IsFiniteSet(S), NEW R, Orders(R, S), NEW x \in S
    PROVE  \E y \in S : EndsAt(R, S, x, y)
<1> USE DEF Orders, EndsAt
<1> DEFINE Below(y) == {z \in S : <<z, y>> \in R}
           C == {y \in S : y = x \/ <<y, x>> \in R}
           T == {Below(y) : y \in C}
           Q == StrictSubsetOrdering(S)
<1>1. T \subseteq FiniteSubsetsOf(S) /\ T # {}
  <2>1. \A y \in S : Below(y) \in SUBSET S /\ IsFiniteSet(Below(y))
    BY FS_Subset
  <2>2. x \in C /\ \A y \in C : y \in S
    OBVIOUS
  <2> HIDE DEF Below, C
  <2>3. \A y \in S : Below(y) \in FiniteSubsetsOf(S)
    BY <2>1 DEF FiniteSubsetsOf
  <2> QED
    BY <2>2, <2>3
<1>2. PICK A \in T : \A B \in T : <<B, A>> \notin Q
  <2>1. IsWellFoundedOn(Q, FiniteSubsetsOf(S))
    BY FS_StrictSubsetOrderingWellFounded
  <2> HIDE DEF Q, T
  <2> QED
    BY <1>1, <2>1, WFMin
<1>3. PICK y \in C : A = Below(y)
  OBVIOUS
<1>4. ASSUME NEW z \in S, <<z, y>> \in R
      PROVE  FALSE
  <2>1. z \in C
    BY <1>3, <1>4
  <2>2. Below(z) \subseteq Below(y) /\ z \in Below(y) /\ z \notin Below(z)
    BY <1>3, <1>4
  <2>3. <<Below(z), A>> \in Q
    BY <1>3, <2>2 DEF StrictSubsetOrdering
  <2>4. Below(z) \in T
    BY <2>1
  <2> QED
    BY <1>2, <2>3, <2>4
<1> QED
  BY <1>3, <1>4

\* The keys by which routes are ordered: the last is the place of the route.
Keys == Int \X Int \X Int \X Int \X Nat

\* Before is the lexicographic order.
LEMMA BeforeIs ==
    ASSUME NEW k \in Keys, NEW l \in Keys
    PROVE  Before(k, l) <=>
             \/ k[1] < l[1]
             \/ k[1] = l[1] /\ k[2] < l[2]
             \/ k[1] = l[1] /\ k[2] = l[2] /\ k[3] < l[3]
             \/ k[1] = l[1] /\ k[2] = l[2] /\ k[3] = l[3] /\ k[4] < l[4]
             \/ /\ k[1] = l[1] /\ k[2] = l[2] /\ k[3] = l[3] /\ k[4] = l[4]
                /\ k[5] < l[5]
<1> DEFINE At(i) == k[i] < l[i] /\ \A j \in 1..(i - 1) : k[j] = l[j]
<1>1. 1..5 = {1, 2, 3, 4, 5}
  OBVIOUS
<1>2. /\ 1..0 = {} /\ 1..1 = {1} /\ 1..2 = {1, 2} /\ 1..3 = {1, 2, 3}
      /\ 1..4 = {1, 2, 3, 4}
  OBVIOUS
<1>3. Before(k, l) <=> At(1) \/ At(2) \/ At(3) \/ At(4) \/ At(5)
  BY <1>1 DEF Before
<1>4. At(1) <=> k[1] < l[1]
  BY <1>2
<1>5. At(2) <=> k[1] = l[1] /\ k[2] < l[2]
  BY <1>2
<1>6. At(3) <=> k[1] = l[1] /\ k[2] = l[2] /\ k[3] < l[3]
  BY <1>2
<1>7. At(4) <=> k[1] = l[1] /\ k[2] = l[2] /\ k[3] = l[3] /\ k[4] < l[4]
  BY <1>2
<1>8. At(5) <=> /\ k[1] = l[1] /\ k[2] = l[2] /\ k[3] = l[3] /\ k[4] = l[4]
                /\ k[5] < l[5]
  BY <1>2
<1> HIDE DEF At
<1> QED
  BY <1>3, <1>4, <1>5, <1>6, <1>7, <1>8

\* It is strict and transitive, and total where the last parts differ.
LEMMA BeforeOrders ==
    ASSUME NEW k \in Keys, NEW l \in Keys, NEW m \in Keys
    PROVE  /\ ~Before(k, k)
           /\ Before(k, l) /\ Before(l, m) => Before(k, m)
           /\ k[5] # l[5] => Before(k, l) \/ Before(l, k)
<1>1. /\ \A i \in 1..5 : k[i] \in Int /\ l[i] \in Int /\ m[i] \in Int
  BY DEF Keys
<1>2. /\ k[1] \in Int /\ k[2] \in Int /\ k[3] \in Int
      /\ k[4] \in Int /\ k[5] \in Int
      /\ l[1] \in Int /\ l[2] \in Int /\ l[3] \in Int
      /\ l[4] \in Int /\ l[5] \in Int
      /\ m[1] \in Int /\ m[2] \in Int /\ m[3] \in Int
      /\ m[4] \in Int /\ m[5] \in Int
  BY <1>1
<1>3. ~Before(k, k)
  BY <1>2, BeforeIs
<1>4. Before(k, l) /\ Before(l, m) => Before(k, m)
  BY <1>2, BeforeIs
<1>5. k[5] # l[5] => Before(k, l) \/ Before(l, k)
  BY <1>2, BeforeIs
<1> QED
  BY <1>3, <1>4, <1>5

\* One of any routes that fit is the least.
LEMMA LeastExists ==
    ASSUME Sound, NEW S \in SUBSET Routes, S # {}, \A r \in S : ~Fails(r),
           NEW cost, \A r \in S : cost[r] \in Int
    PROVE  Least(S, cost) # {}
<1> DEFINE key(r) == SelectionKey(r, cost[r])
           R == {p \in S \X S : Before(key(p[1]), key(p[2]))}
<1>1. \A r \in S : key(r) \in Keys /\ key(r)[5] = r
  BY MeritTypes, RouterAssumption DEF SelectionKey, Keys, RouterAssumption
<1>2. \A r \in S : ~Before(key(r), key(r))
  BY <1>1, BeforeOrders
<1>3. \A r, s, t \in S : Before(key(r), key(s)) /\ Before(key(s), key(t))
                            => Before(key(r), key(t))
  BY <1>1, BeforeOrders
<1>4. \A r, s \in S : r # s => Before(key(r), key(s)) \/ Before(key(s), key(r))
  BY <1>1, BeforeOrders
<1>5. IsFiniteSet(S)
  BY RouterAssumption, FS_Subset DEF RouterAssumption
<1> HIDE DEF key
<1>6. \A r, s \in S : <<r, s>> \in R <=> Before(key(r), key(s))
  OBVIOUS
<1> HIDE DEF R
<1>7. PICK r \in S : \A s \in S : <<s, r>> \notin R
  <2>1. PICK x \in S : TRUE
    OBVIOUS
  <2>2. Orders(R, S)
    BY <1>2, <1>3, <1>6 DEF Orders
  <2>3. \E y \in S : EndsAt(R, S, x, y)
    BY <1>5, <2>1, <2>2, MinimalBelow
  <2> QED
    BY <2>3 DEF EndsAt
<1>8. \A s \in S \ {r} : Before(key(r), key(s))
  BY <1>4, <1>6, <1>7
<1> QED
  BY <1>8 DEF Least, key

-----------------------------------------------------------------------------
(***************************************************************************)
(* The best route.                                                         *)
(***************************************************************************)

\* The eligible routes of the first group, or all if precedence is not asked
\* for.
Foremost ==
    {r \in Routes :
        /\ Eligible(r)
        /\ task.subscription_first =>
              \A s \in Routes : Eligible(s) => Tier(r) <= Tier(s)}

\* If a route is eligible then one is foremost.
LEMMA ForemostExists ==
    ASSUME NEW r \in Routes, Eligible(r)
    PROVE  Foremost # {}
<1> DEFINE E == {s \in Routes : Eligible(s)}
           tiers == {Tier(s) : s \in E}
<1>1. \A s \in E : Tier(s) \in Nat
  BY TierRange DEF Eligible
<1>2. tiers \in SUBSET Nat /\ tiers # {}
  BY <1>1
<1>3. PICK n \in tiers : \A m \in tiers : n <= m
  <2> HIDE DEF tiers
  <2> QED
    BY <1>2, LeastNat
<1>4. PICK s \in E : n = Tier(s)
  OBVIOUS
<1>5. \A t \in Routes : Eligible(t) => Tier(s) <= Tier(t)
  BY <1>3, <1>4
<1> QED
  BY <1>4, <1>5 DEF Foremost

\* A route is dominated by one of the frontier, if it is not in it.
LEMMA FrontierBeats ==
    ASSUME Sound, NEW S \in SUBSET Routes, \A r \in S : ~Fails(r), NEW x \in S
    PROVE  \E y \in ParetoFrontier(S) : y = x \/ Dominates(y, x)
<1> DEFINE R == {p \in S \X S : Dominates(p[1], p[2])}
<1>1. \A r \in S : /\ models[r].quality \in Int /\ ExpectedCost(r) \in Int
                   /\ Provider(r).reliability \in Int
                   /\ models[r].latency_ms \in Int
  BY MeritTypes, ExpectedCostType
<1>2. \A r \in S : ~Dominates(r, r)
  BY <1>1 DEF Dominates
<1>3. \A r, s, t \in S :
         Dominates(r, s) /\ Dominates(s, t) => Dominates(r, t)
  <2> SUFFICES ASSUME NEW r \in S, NEW s \in S, NEW t \in S,
                      Dominates(r, s), Dominates(s, t)
               PROVE  Dominates(r, t)
    OBVIOUS
  <2>1. /\ models[r].quality >= models[t].quality
        /\ ExpectedCost(r) <= ExpectedCost(t)
        /\ Provider(r).reliability >= Provider(t).reliability
        /\ models[r].latency_ms <= models[t].latency_ms
    BY <1>1 DEF Dominates
  <2>2. \/ models[r].quality > models[t].quality
        \/ ExpectedCost(r) < ExpectedCost(t)
        \/ Provider(r).reliability > Provider(t).reliability
        \/ models[r].latency_ms < models[t].latency_ms
    BY <1>1 DEF Dominates
  <2> QED
    BY <2>1, <2>2 DEF Dominates
<1>4. IsFiniteSet(S)
  BY RouterAssumption, FS_Subset DEF RouterAssumption
<1>5. \A r, s \in S : <<r, s>> \in R <=> Dominates(r, s)
  OBVIOUS
<1> HIDE DEF R
<1>6. PICK y \in S : EndsAt(R, S, x, y)
  <2>1. Orders(R, S)
    BY <1>2, <1>3, <1>5 DEF Orders
  <2> QED
    BY <1>4, <2>1, MinimalBelow
<1> QED
  BY <1>5, <1>6 DEF EndsAt, ParetoFrontier

\* The maximum of a finite set of naturals.
LEMMA FiniteMax ==
    ASSUME NEW S \in SUBSET Nat, IsFiniteSet(S), S # {}
    PROVE  Max(S) \in S /\ \A y \in S : Max(S) >= y
<1> DEFINE R == {p \in S \X S : p[1] > p[2]}
<1>1. \A x, y \in S : <<x, y>> \in R <=> x > y
  OBVIOUS
<1>2. \A x, y, z \in S : x \in Nat /\ y \in Nat /\ z \in Nat
  OBVIOUS
<1> HIDE DEF R
<1>3. PICK x \in S : \A z \in S : <<z, x>> \notin R
  <2>1. PICK w \in S : TRUE
    OBVIOUS
  <2>2. Orders(R, S)
    BY <1>1, <1>2 DEF Orders
  <2>3. \E y \in S : EndsAt(R, S, w, y)
    BY <2>1, <2>2, MinimalBelow
  <2> QED
    BY <2>3 DEF EndsAt
<1>4. \A y \in S : x >= y
  <2> SUFFICES ASSUME NEW y \in S PROVE x >= y
    OBVIOUS
  <2>1. ~(y > x) /\ x \in Nat /\ y \in Nat
    BY <1>1, <1>2, <1>3
  <2> QED
    BY <2>1
<1> QED
  BY <1>4, Zenon DEF Max

\* What is retained of the foremost: some, none dominated, and each near the
\* best in quality.
BestOf(kept) ==
    /\ kept \subseteq Foremost
    /\ Foremost # {} => kept # {}
    /\ \A r \in kept, s \in Foremost :
          /\ ~Dominates(s, r)
          /\ models[s].quality <= models[r].quality + RetainWithinBest

\* Retain keeps the best.
LEMMA RetainBest ==
    ASSUME Sound, pool = Foremost, Retain
    PROVE  BestOf(pool')
<1> DEFINE frontier == ParetoFrontier(pool)
           qualities == {0} \cup {models[r].quality : r \in frontier}
           best == Max(qualities)
<1>1. pool' = {r \in frontier : models[r].quality >= best - RetainWithinBest}
  BY DEF Retain
<1>2. /\ pool \subseteq Routes /\ \A r \in pool : ~Fails(r)
      /\ frontier \subseteq pool
  BY DEF Foremost, Eligible, ParetoFrontier
<1>3. \A r \in pool : models[r].quality \in Nat
  BY <1>2, MeritTypes
<1>4. RetainWithinBest \in Nat
  BY RouterAssumption DEF RouterAssumption
<1>5. best \in qualities /\ \A q \in qualities : best >= q
  <2>1. IsFiniteSet(frontier)
    BY <1>2, RouterAssumption, FS_Subset DEF RouterAssumption
  <2>2. qualities \in SUBSET Nat /\ qualities # {}
    BY <1>2, <1>3
  <2>3. IsFiniteSet({models[r].quality : r \in frontier})
    <3> DEFINE image == {models[r].quality : r \in frontier}
               f == [r \in frontier |-> models[r].quality]
    <3>1. f \in Surjection(frontier, image)
      BY DEF Surjection
    <3> HIDE DEF f, frontier, image
    <3>2. IsFiniteSet(image)
      BY <2>1, <3>1, FS_Surjection
    <3> QED
      BY <3>2 DEF image
  <2>4. IsFiniteSet(qualities)
    BY <2>3, FS_Singleton, FS_Union
  <2> HIDE DEF qualities
  <2> QED
    BY <2>2, <2>4, FiniteMax
<1>6. best \in Nat
  BY <1>2, <1>3, <1>5
<1>7. \A s \in pool : \E y \in frontier :
          /\ models[s].quality <= models[y].quality
          /\ models[y].quality <= best
  <2> SUFFICES ASSUME NEW s \in pool
               PROVE  \E y \in frontier :
                         /\ models[s].quality <= models[y].quality
                         /\ models[y].quality <= best
    OBVIOUS
  <2>1. PICK y \in frontier : y = s \/ Dominates(y, s)
    BY <1>2, FrontierBeats
  <2>2. models[s].quality <= models[y].quality
    BY <1>2, <1>3, <2>1 DEF Dominates
  <2>3. best >= models[y].quality
    BY <1>5
  <2>4. models[y].quality <= best
    BY <1>2, <1>3, <1>6, <2>3
  <2> QED
    BY <2>2, <2>4
<1> HIDE DEF best, frontier
<1>8. pool # {} => pool' # {}
  <2> SUFFICES ASSUME NEW s \in pool PROVE pool' # {}
    OBVIOUS
  <2>1. PICK y \in frontier : models[y].quality <= best
    BY <1>7
  <2>2. PICK r \in frontier : models[r].quality = best
    <3>1. CASE best = 0
      BY <1>2, <1>3, <1>6, <2>1, <3>1
    <3>2. CASE best # 0
      BY <1>5, <3>2
    <3> QED
      BY <3>1, <3>2
  <2> QED
    BY <1>1, <1>4, <1>6, <2>2
<1>9. ASSUME NEW r \in pool', NEW s \in pool
      PROVE  /\ ~Dominates(s, r)
             /\ models[s].quality <= models[r].quality + RetainWithinBest
  <2>1. /\ r \in pool /\ r \in frontier
        /\ models[r].quality >= best - RetainWithinBest
    BY <1>1, <1>2
  <2>2. ~Dominates(s, r)
    <3>1. s # r => ~Dominates(s, r)
      BY <2>1 DEF frontier, ParetoFrontier
    <3>2. ~Dominates(r, r)
      BY <1>2, <2>1, MeritTypes, ExpectedCostType DEF Dominates
    <3> QED
      BY <3>1, <3>2
  <2>3. PICK y \in frontier : /\ models[s].quality <= models[y].quality
                              /\ models[y].quality <= best
    BY <1>7
  <2> QED
    BY <1>2, <1>3, <1>4, <1>6, <2>1, <2>2, <2>3
<1> QED
  BY <1>1, <1>2, <1>8, <1>9 DEF BestOf

\* What is left at each stage, and what the choice owes the routes.
BestInv ==
    /\ Sound
    /\ phase = "override" => task.manual_override_model_id # NoRoute
    /\ phase = "precedence" => task.subscription_first
    /\ phase = "eligible" => pool = Foremost
    /\ phase = "retained" => BestOf(pool)
    /\ RefusedRightly
    /\ NoneBetter

\* A minimum over a set that has one is in it.
LEMMA OnlyOf == ASSUME NEW S, S # {} PROVE Only(S) \in S
BY DEF Only

\* The choice is of what was retained, and there is one.
LEMMA SelectBest ==
    ASSUME RInv, BestInv, Select
    PROVE  RefusedRightly' /\ NoneBetter'
<1> USE DEF BestInv
<1>1. /\ UNCHANGED given /\ phase = "retained" /\ ~Director
      /\ BestOf(pool) /\ pool \subseteq Routes
      /\ \A r \in pool : ~Fails(r)
      /\ \A r \in pool : fallback[r] \in pool \cup {NoRoute}
      /\ task.manual_override_model_id = NoRoute
  BY DEF Select, RInv, Scored, Precedent, Eligible
<1> DEFINE open == {r \in pool : models[r].open_weight}
           candidates ==
             IF task.prefer_open_weight /\ open # {} THEN open ELSE pool
           cost == [r \in pool |-> CostWith(r, fallback[r])]
           choice == Least(candidates, cost)
<1>2. selected' = Only(choice)
  BY DEF Select
<1>3. candidates \subseteq pool /\ (pool # {} => candidates # {})
  OBVIOUS
<1>4. \A r \in pool : cost[r] \in Int
  <2> SUFFICES ASSUME NEW r \in pool PROVE CostWith(r, fallback[r]) \in Int
    OBVIOUS
  <2>1. /\ r \in Routes /\ ~Fails(r)
        /\ fallback[r] \in Routes \cup {NoRoute}
        /\ fallback[r] \in Routes => ~Fails(fallback[r])
    BY <1>1, RouterAssumption DEF RouterAssumption
  <2> QED
    BY <2>1, CostWithType
<1>5. pool # {} => choice # {}
  <2> HIDE DEF candidates, cost
  <2> QED
    BY <1>1, <1>3, <1>4, LeastExists
<1>6. choice \subseteq pool
  BY <1>3 DEF Least
<1> HIDE DEF choice
<1>7. \/ selected' \in pool
      \/ (selected' = NoRoute /\ pool = {})
  <2>1. CASE pool = {}
    BY <1>2, <1>6, <2>1 DEF Only
  <2>2. CASE pool # {}
    <3>1. choice # {}
      BY <1>5, <2>2
    <3>2. Only(choice) \in choice
      BY <3>1, OnlyOf
    <3> QED
      BY <1>2, <1>6, <3>2
  <2> QED
    BY <2>1, <2>2
<1>8. NoRoute \notin pool
  BY <1>1, RouterAssumption DEF RouterAssumption
<1>9. /\ \A r : Eligible(r)' = Eligible(r) /\ Tier(r)' = Tier(r)
      /\ \A r : Merits(r)' = Merits(r)
      /\ task' = task
  BY <1>1, SameTask DEF given, Merits, ExpectedCost, AttemptsPaid, Failing,
     Attempts, Provider
<1>10. RefusedRightly'
  BY <1>1, <1>7, <1>8, <1>9, ForemostExists DEF RefusedRightly, BestOf
<1>11. ASSUME selected' # NoRoute, NEW r \in Routes, Eligible(r),
              task.subscription_first => Tier(r) = Tier(selected')
       PROVE  /\ Merits(r)[1] <= Merits(selected')[1] + RetainWithinBest
              /\ \/ Merits(r) = Merits(selected')
                 \/ \E i \in 1..4 : Merits(r)[i] < Merits(selected')[i]
  <2> DEFINE c == selected'
  <2>1. c \in pool /\ c \in Foremost /\ ~Fails(c) /\ c \in Routes
    BY <1>1, <1>7, <1>11 DEF BestOf
  <2>2. r \in Foremost /\ ~Fails(r)
    BY <1>11, <2>1 DEF Foremost, Eligible
  <2>3. /\ ~Dominates(r, c)
        /\ models[r].quality <= models[c].quality + RetainWithinBest
    BY <1>1, <2>1, <2>2 DEF BestOf
  <2> HIDE DEF c
  <2>4. \A x \in {r, c} :
           /\ models[x].quality \in Int /\ ExpectedCost(x) \in Int
           /\ Provider(x).reliability \in Int /\ models[x].latency_ms \in Int
    BY <2>1, <2>2, MeritTypes, ExpectedCostType
  <2>5. \A x : /\ Merits(x)[1] = models[x].quality
               /\ Merits(x)[2] = -ExpectedCost(x)
               /\ Merits(x)[3] = Provider(x).reliability
               /\ Merits(x)[4] = -models[x].latency_ms
    BY DEF Merits
  <2>6. \/ Merits(r) = Merits(c)
        \/ \E i \in 1..4 : Merits(r)[i] < Merits(c)[i]
    <3> SUFFICES ASSUME \A i \in 1..4 : ~(Merits(r)[i] < Merits(c)[i])
                 PROVE  Merits(r) = Merits(c)
      OBVIOUS
    <3>1. /\ ~(models[r].quality < models[c].quality)
          /\ ~(-ExpectedCost(r) < -ExpectedCost(c))
          /\ ~(Provider(r).reliability < Provider(c).reliability)
          /\ ~(-models[r].latency_ms < -models[c].latency_ms)
      BY <2>5
    <3>2. /\ models[r].quality = models[c].quality
          /\ ExpectedCost(r) = ExpectedCost(c)
          /\ Provider(r).reliability = Provider(c).reliability
          /\ models[r].latency_ms = models[c].latency_ms
      BY <2>3, <2>4, <3>1 DEF Dominates
    <3> QED
      BY <3>2 DEF Merits
  <2> QED
    BY <2>3, <2>5, <2>6 DEF c
<1>12. NoneBetter'
  BY <1>9, <1>11 DEF NoneBetter
<1> QED
  BY <1>10, <1>12

\* Precedence leaves the foremost.
LEMMA PrecedenceBest ==
    ASSUME RInv, BestInv, SubscriptionFirst
    PROVE  pool' = Foremost
<1> DEFINE left == pool \ Duplicates(pool)
<1>1. /\ phase = "precedence" /\ pool = {r \in Routes : Eligible(r)}
      /\ pool' = {r \in left : \A s \in left : Tier(r) <= Tier(s)}
  BY DEF SubscriptionFirst, RInv
<1>2. UNCHANGED given /\ task.subscription_first
  BY DEF SubscriptionFirst, BestInv
<1>3. \A r \in pool : Tier(r) \in 1..4
  BY <1>1, TierRange DEF Eligible
<1>4. ASSUME NEW r \in Duplicates(pool)
      PROVE  Tier(r) = 4 /\ r \notin Foremost
  <2>1. PICK owned \in pool : Tier(owned) \in {1, 2}
    BY <1>4 DEF Duplicates
  <2>2. Tier(r) = 4 /\ r \in pool
    BY <1>4 DEF Duplicates
  <2>3. ~(Tier(r) <= Tier(owned))
    BY <2>1, <2>2
  <2> QED
    BY <1>1, <1>2, <2>1, <2>2, <2>3 DEF Foremost
<1>5. ASSUME NEW r \in pool'
      PROVE  r \in Foremost
  <2>1. \A s \in pool : Tier(r) <= Tier(s)
    <3> SUFFICES ASSUME NEW s \in pool PROVE Tier(r) <= Tier(s)
      OBVIOUS
    <3>1. r \in pool /\ (s \in left => Tier(r) <= Tier(s))
      BY <1>1
    <3>2. s \notin left => Tier(s) = 4
      BY <1>4
    <3> QED
      BY <1>3, <3>1, <3>2
  <2> QED
    BY <1>1, <2>1 DEF Foremost
<1>6. ASSUME NEW r \in Foremost
      PROVE  r \in pool'
  <2>1. r \in left
    BY <1>1, <1>4 DEF Foremost
  <2>2. \A s \in left : Tier(r) <= Tier(s)
    BY <1>1, <1>2 DEF Foremost
  <2> QED
    BY <1>1, <2>1, <2>2
<1> QED
  BY <1>5, <1>6

\* What is foremost and best stays so, as the task and the routes do.
LEMMA SameBest ==
    ASSUME UNCHANGED given
    PROVE  /\ Foremost' = Foremost
           /\ \A kept : BestOf(kept)' <=> BestOf(kept)
<1>1. Foremost' = Foremost
  BY SameTask DEF Foremost
<1>2. \A r, s : Dominates(s, r)' <=> Dominates(s, r)
  BY DEF given, Dominates, ExpectedCost, AttemptsPaid, Failing, Attempts,
     Provider
<1> QED
  BY <1>1, <1>2 DEF BestOf, given

\* Every step preserves what is said of the best route.
LEMMA StepBest == RInv /\ RInv' /\ BestInv /\ [RouterNext]_routerVars => BestInv'
<1> SUFFICES ASSUME RInv, RInv', BestInv, [RouterNext]_routerVars PROVE BestInv'
  OBVIOUS
<1> USE DEF BestInv
<1>1. UNCHANGED given /\ Sound'
  BY DEF RouterNext, routerVars, given, Sound, PinDirector, PinMissing,
     HardFilter, Override, QualityFloor, SubscriptionFirst, Retain, Select
<1>2. ~ByScore' => RefusedRightly' /\ NoneBetter'
  BY DEF RefusedRightly, NoneBetter
<1>3. task' = task /\ Director' = Director
  BY <1>1, SameTask
<1>4. CASE PinDirector \/ PinMissing
  <2>1. Director /\ phase' \in {"decided", "error"}
    BY <1>4 DEF PinDirector, PinMissing
  <2> QED
    BY <1>1, <1>2, <1>3, <2>1 DEF ByScore
<1>5. CASE Override
  <2>1. /\ task.manual_override_model_id # NoRoute
        /\ phase' = "decided"
    BY <1>5 DEF Override
  <2> QED
    BY <1>1, <1>2, <1>3, <2>1 DEF ByScore, NoRoute
<1>6. CASE HardFilter
  <2>1. /\ phase' = IF task.manual_override_model_id = NoRoute THEN "scored"
                    ELSE "override"
    BY <1>6 DEF HardFilter
  <2> QED
    BY <1>1, <1>2, <1>3, <2>1 DEF ByScore, NoRoute
<1>7. CASE QualityFloor
  <2>1. /\ phase' = IF task.subscription_first THEN "precedence" ELSE "eligible"
        /\ pool' = {r \in scored : models[r].quality >= task.quality_floor}
        /\ scored = {r \in Routes : ~Fails(r)}
    BY <1>7 DEF QualityFloor, RInv, Scored
  <2>2. ~task.subscription_first => pool' = Foremost
    BY <2>1 DEF Foremost, Eligible
  <2> QED
    BY <1>1, <1>2, <1>3, <2>1, <2>2, SameBest DEF ByScore
<1>8. CASE SubscriptionFirst
  BY <1>1, <1>2, <1>8, PrecedenceBest, SameBest DEF SubscriptionFirst, ByScore
<1>9. CASE Retain
  BY <1>1, <1>2, <1>9, RetainBest, SameBest DEF Retain, ByScore
<1>10. CASE Select
  BY <1>1, <1>10, SelectBest DEF Select
<1>11. CASE UNCHANGED routerVars
  <2>1. UNCHANGED <<given, task, models, phase, pool, selected>>
    BY <1>11 DEF routerVars, given
  <2>2. /\ \A r : Eligible(r)' = Eligible(r) /\ Tier(r)' = Tier(r)
        /\ \A r : Merits(r)' = Merits(r)
    BY <2>1, SameTask DEF Merits, ExpectedCost, AttemptsPaid, Failing,
       Attempts, Provider
  <2>3. (RefusedRightly' <=> RefusedRightly) /\ (NoneBetter' <=> NoneBetter)
    BY <2>1, <2>2 DEF RefusedRightly, NoneBetter, ByScore, Director, NoRoute
  <2> QED
    BY <1>1, <2>1, <2>3, SameBest
<1> QED
  BY <1>4, <1>5, <1>6, <1>7, <1>8, <1>9, <1>10, <1>11 DEF RouterNext

\* BestInv holds in every reachable state.
THEOREM RouterBest == RouterSpec => []BestInv
<1>1. RouterInit => BestInv
  BY RouterAssumption DEF RouterInit, BestInv, Sound, RefusedRightly,
     NoneBetter, ByScore
<1> QED
  BY <1>1, RouterInvariant, StepBest, PTL DEF RouterSpec

\* route_model: a task is refused only when no route is eligible: no stage loses
\* the last candidate, for any registry.
THEOREM AlwaysRefusedRightly == RouterSpec => []RefusedRightly
<1>1. BestInv => RefusedRightly
  BY DEF BestInv
<1> QED
  BY <1>1, RouterBest, PTL

\* route_model: no eligible route of its group is better than the selected one
\* in one respect and as good in the others, or in quality by more than the
\* margin, for any registry.
THEOREM NoneEverBetter == RouterSpec => []NoneBetter
<1>1. BestInv => NoneBetter
  BY DEF BestInv
<1> QED
  BY <1>1, RouterBest, PTL

-----------------------------------------------------------------------------
(***************************************************************************)
(* Routes and their evidence.                                              *)
(***************************************************************************)

\* The invariant: the types, the dates, and the property they carry.
DInv ==
    /\ TypeOK
    /\ HonestDates
    /\ RoutedOnFresh

\* Nothing is cached, routed or under way at first.
LEMMA InitDInv == Init => DInv
<1> SUFFICES ASSUME Init PROVE DInv
  OBVIOUS
<1>1. TypeOK
  <2>1. 0 \in Times /\ "idle" \in Labels
    BY RoutesAssumption DEF RoutesAssumption, Times, Labels
  <2>2. /\ now \in Times /\ cache = Nothing
        /\ routes \in [Units -> Decisions \cup {Nothing}]
        /\ \A u \in Units : routes[u] = Nothing
        /\ overtaken = {}
        /\ lost \subseteq Requests /\ repeated \subseteq Units
        /\ crossed \subseteq Units
    BY <2>1 DEF Init
  <2>5. log \in Seq(Requests)
    BY DEF Init
  <2>3. /\ pc \in [Procs -> Labels]
        /\ limit \in [Procs -> Limits \cup {0}]
        /\ started \in [Procs -> Times]
        /\ fetched \in [Procs -> Times]
        /\ chosen \in [Procs -> Decisions \cup {NoDecision}]
    BY <2>1 DEF Init
  <2>4. \A p \in Procs : pc[p] \notin {"save", "append"}
    BY DEF Init
  <2> QED
    BY <2>2, <2>3, <2>4, <2>5 DEF TypeOK
<1>2. HonestDates
  BY DEF Init, HonestDates, Refreshing
<1>3. RoutedOnFresh
  BY DEF Init, RoutedOnFresh
<1> QED
  BY <1>1, <1>2, <1>3 DEF DInv

\* A process ends its command; the cache and the routes stay.
LEMMA Ends ==
    ASSUME DInv, NEW p \in Procs, Forget(p), UNCHANGED <<now, cache, routes>>,
           log' \in Seq(Requests), overtaken' \subseteq overtaken \ {p},
           lost' \subseteq Requests, UNCHANGED <<repeated, crossed>>
    PROVE  DInv'
<1> USE DEF DInv
<1>1. /\ pc' \in [Procs -> Labels] /\ pc'[p] = "idle"
      /\ limit' \in [Procs -> Limits \cup {0}]
      /\ started' \in [Procs -> Times]
      /\ fetched' \in [Procs -> Times]
      /\ chosen' \in [Procs -> Decisions \cup {NoDecision}]
      /\ \A q \in Procs : q # p =>
            /\ pc'[q] = pc[q]
            /\ started'[q] = started[q]
            /\ fetched'[q] = fetched[q]
            /\ chosen'[q] = chosen[q]
  BY RoutesAssumption DEF Forget, TypeOK, Times, Labels
<1>2. TypeOK'
  BY <1>1 DEF TypeOK, Refreshing
<1>3. HonestDates'
  BY <1>1 DEF HonestDates, Refreshing
<1>4. RoutedOnFresh'
  BY DEF RoutedOnFresh
<1> QED
  BY <1>2, <1>3, <1>4

\* Time passes: nothing that is dated gets a later date.
LEMMA TickStep == DInv /\ Tick => DInv'
<1> SUFFICES ASSUME DInv, Tick PROVE DInv'
  OBVIOUS
<1> USE DEF DInv
<1>1. /\ now' = now + 1 /\ now' \in Times /\ now \in Times
      /\ UNCHANGED <<cache, routes, log, pc, limit, started, fetched, chosen,
                     history>>
  BY RoutesAssumption DEF Tick, TypeOK, Times
<1>2. TypeOK'
  <2>1. cache # Nothing => cache.fetchedAt <= now'
    BY <1>1 DEF TypeOK, Caches, Times
  <2> QED
    BY <1>1, <2>1 DEF TypeOK, history, Refreshing
<1>3. HonestDates'
  BY <1>1 DEF HonestDates, Refreshing, TypeOK, Times
<1>4. RoutedOnFresh'
  BY <1>1 DEF RoutedOnFresh
<1> QED
  BY <1>2, <1>3, <1>4

\* The steps of a refresh before it writes.
LEMMA FetchStep ==
    ASSUME DInv, NEW p \in Procs,
           \/ \E max \in Limits : AnswerFromCache(p, max) \/ StartFetch(p, max)
           \/ FetchRecords(p)
    PROVE  DInv'
<1> USE DEF DInv
<1>1. CASE \E max \in Limits : AnswerFromCache(p, max)
  <2>1. PICK max \in Limits : AnswerFromCache(p, max)
    BY <1>1
  <2>2. /\ pc' \in [Procs -> Labels] /\ pc'[p] = "answered" /\ pc[p] = "idle"
        /\ limit' \in [Procs -> Limits \cup {0}]
        /\ \A q \in Procs : q # p => pc'[q] = pc[q]
        /\ UNCHANGED <<now, cache, routes, log, started, fetched, chosen,
                       history>>
    BY <2>1 DEF AnswerFromCache, TypeOK, Labels
  <2>3. TypeOK'
    BY <2>2 DEF TypeOK, history, Refreshing
  <2>4. HonestDates'
    BY <2>2 DEF HonestDates, Refreshing
  <2>5. RoutedOnFresh'
    BY <2>2 DEF RoutedOnFresh
  <2> QED
    BY <2>3, <2>4, <2>5
<1>2. CASE \E max \in Limits : StartFetch(p, max)
  <2>1. PICK max \in Limits : StartFetch(p, max)
    BY <1>2
  <2>2. /\ pc' \in [Procs -> Labels] /\ pc'[p] = "fetch"
        /\ limit' \in [Procs -> Limits \cup {0}]
        /\ started' \in [Procs -> Times] /\ started'[p] = now
        /\ \A q \in Procs : q # p => pc'[q] = pc[q] /\ started'[q] = started[q]
        /\ UNCHANGED <<now, cache, routes, log, fetched, chosen, history>>
    BY <2>1 DEF StartFetch, TypeOK, Labels
  <2>3. TypeOK'
    BY <2>2 DEF TypeOK, history, Refreshing
  <2>4. HonestDates'
    BY <2>2 DEF HonestDates, Refreshing, TypeOK, Times
  <2>5. RoutedOnFresh'
    BY <2>2 DEF RoutedOnFresh
  <2> QED
    BY <2>3, <2>4, <2>5
<1>3. CASE FetchRecords(p)
  <2>1. /\ pc[p] = "fetch"
        /\ pc' \in [Procs -> Labels] /\ pc'[p] = "write"
        /\ fetched' \in [Procs -> Times] /\ fetched'[p] = now
        /\ \A q \in Procs : q # p => pc'[q] = pc[q] /\ fetched'[q] = fetched[q]
        /\ UNCHANGED <<now, cache, routes, log, limit, started, chosen,
                       history>>
    BY <1>3 DEF FetchRecords, TypeOK, Labels
  <2>2. TypeOK'
    BY <2>1 DEF TypeOK, history, Refreshing
  <2>3. HonestDates'
    BY <2>1 DEF HonestDates, Refreshing
  <2>4. RoutedOnFresh'
    BY <2>1 DEF RoutedOnFresh
  <2> QED
    BY <2>2, <2>3, <2>4
<1> QED
  BY <1>1, <1>2, <1>3

\* The cache is written with the date of the question.
LEMMA WriteStep ==
    ASSUME DInv, NEW p \in Procs, WriteCache(p)
    PROVE  DInv'
<1> USE DEF DInv
<1>1. /\ pc[p] = "write"
      /\ cache' = [fetchedAt |-> started[p],
                   expiresAt |-> started[p] + limit[p],
                   servedAt |-> fetched[p]]
      /\ Forget(p)
      /\ overtaken' = {q \in Procs \ {p} : Refreshing(q)}
      /\ UNCHANGED <<now, routes, log, lost, repeated, crossed>>
  BY DEF WriteCache, Overtake
<1>2. /\ pc' \in [Procs -> Labels] /\ pc'[p] = "idle"
      /\ limit' \in [Procs -> Limits \cup {0}]
      /\ started' \in [Procs -> Times]
      /\ fetched' \in [Procs -> Times]
      /\ chosen' \in [Procs -> Decisions \cup {NoDecision}]
      /\ \A q \in Procs : q # p =>
            /\ pc'[q] = pc[q]
            /\ started'[q] = started[q]
            /\ fetched'[q] = fetched[q]
            /\ chosen'[q] = chosen[q]
  BY <1>1, RoutesAssumption DEF Forget, TypeOK, Times, Labels
<1>3. /\ started[p] \in Times /\ fetched[p] \in Times
      /\ limit[p] \in Nat
      /\ started[p] <= now /\ started[p] <= fetched[p]
  <2>1. started[p] \in Times /\ fetched[p] \in Times
    BY DEF TypeOK
  <2>2. limit[p] \in Limits \cup {0}
    BY DEF TypeOK
  <2>3. limit[p] \in Nat
    <3>1. CASE limit[p] \in Limits
      BY <3>1, RoutesAssumption DEF RoutesAssumption
    <3>2. CASE limit[p] = 0
      BY <3>2
    <3> QED
      BY <2>2, <3>1, <3>2
  <2>4. started[p] <= now /\ started[p] <= fetched[p]
    BY <1>1 DEF HonestDates, Refreshing
  <2> QED
    BY <2>1, <2>3, <2>4
<1>4. /\ cache' \in Caches
      /\ cache'.fetchedAt <= now' /\ cache'.fetchedAt <= cache'.servedAt
  BY <1>1, <1>3 DEF Caches, Times
<1>5. TypeOK'
  BY <1>1, <1>2, <1>4 DEF TypeOK, history, Refreshing
<1>6. HonestDates'
  BY <1>1, <1>2, <1>4 DEF HonestDates, Refreshing
<1>7. RoutedOnFresh'
  BY <1>1 DEF RoutedOnFresh
<1> QED
  BY <1>5, <1>6, <1>7

\* A route is chosen on evidence that is fresh by its date, and so by its age.
LEMMA DecideStep ==
    ASSUME DInv, NEW p \in Procs, NEW r \in Requests, NEW max \in Limits,
           Decide(p, r, max)
    PROVE  DInv'
<1> USE DEF DInv
<1> DEFINE decision == [request |-> r, servedAt |-> cache.servedAt,
                        at |-> now, limit |-> max]
<1>1. /\ pc' = [pc EXCEPT ![p] = "save"] /\ pc[p] = "idle"
      /\ chosen' = [chosen EXCEPT ![p] = decision]
      /\ cache # Nothing /\ now - cache.fetchedAt <= max
      /\ UNCHANGED <<now, cache, routes, log, limit, started, fetched,
                     history>>
  BY DEF Decide, Fresh
<1>2. /\ cache \in Caches /\ cache.fetchedAt <= cache.servedAt
      /\ now \in Times /\ max \in Nat
  BY <1>1, RoutesAssumption DEF TypeOK, HonestDates
<1>3. /\ decision \in Decisions
      /\ decision.at - decision.servedAt <= decision.limit
  BY <1>1, <1>2 DEF Decisions, Caches, Times
<1> HIDE DEF decision
<1>4. /\ pc' \in [Procs -> Labels] /\ pc'[p] = "save"
      /\ chosen' \in [Procs -> Decisions \cup {NoDecision}]
      /\ chosen'[p] = decision
      /\ \A q \in Procs : q # p => pc'[q] = pc[q] /\ chosen'[q] = chosen[q]
  BY <1>1, <1>3 DEF TypeOK, Labels
<1>5. TypeOK'
  BY <1>1, <1>3, <1>4 DEF TypeOK, history, Refreshing
<1>6. HonestDates'
  BY <1>1, <1>3, <1>4 DEF HonestDates, Refreshing
<1>7. RoutedOnFresh'
  BY <1>1 DEF RoutedOnFresh
<1> QED
  BY <1>5, <1>6, <1>7

\* The row is the decision.
LEMMA SaveStep ==
    ASSUME DInv, NEW p \in Procs, SaveRoute(p)
    PROVE  DInv'
<1> USE DEF DInv
<1>1. /\ pc[p] = "save"
      /\ routes' = [routes EXCEPT ![UnitOf[chosen[p].request]] = chosen[p]]
      /\ pc' = [pc EXCEPT ![p] = "append"]
      /\ UNCHANGED <<now, cache, log, limit, started, fetched, chosen,
                     overtaken, lost>>
  BY DEF SaveRoute
<1>2. /\ pc' \in [Procs -> Labels] /\ pc'[p] = "append"
      /\ \A q \in Procs : q # p => pc'[q] = pc[q]
  BY <1>1 DEF TypeOK, Labels
<1>3. /\ chosen[p] \in Decisions
      /\ chosen[p].at - chosen[p].servedAt <= chosen[p].limit
  BY <1>1 DEF TypeOK, HonestDates
<1>4. \A u \in Units :
        \/ routes'[u] = routes[u]
        \/ routes'[u] = chosen[p] /\ UnitOf[chosen[p].request] = u
  <2> DEFINE v == UnitOf[chosen[p].request]
  <2>1. /\ routes' = [routes EXCEPT ![v] = chosen[p]]
        /\ routes \in [Units -> Decisions \cup {Nothing}]
    BY <1>1 DEF TypeOK
  <2> SUFFICES ASSUME NEW u \in Units
               PROVE  routes'[u] = routes[u] \/ (routes'[u] = chosen[p] /\ v = u)
    OBVIOUS
  <2> HIDE DEF v
  <2>2. CASE v = u
    BY <2>1, <2>2
  <2>3. CASE v # u
    BY <2>1, <2>3
  <2> QED
    BY <2>2, <2>3
<1>5. TypeOK'
  <2>1. /\ UnitOf[chosen[p].request] \in Units
        /\ routes \in [Units -> Decisions \cup {Nothing}]
    BY <1>3, RoutesAssumption DEF RoutesAssumption, Decisions, TypeOK
  <2>2. routes' \in [Units -> Decisions \cup {Nothing}]
    BY <1>1, <1>3, <2>1
  <2>3. \A u \in Units : routes'[u] # Nothing => UnitOf[routes'[u].request] = u
    BY <1>4 DEF TypeOK
  <2>4. repeated' \subseteq Units /\ crossed' \subseteq Units
    BY <2>1 DEF SaveRoute, TypeOK
  <2> QED
    BY <1>1, <1>2, <1>3, <2>2, <2>3, <2>4 DEF TypeOK, Refreshing
<1>6. HonestDates'
  BY <1>1, <1>2, <1>3 DEF HonestDates, Refreshing
<1>7. RoutedOnFresh'
  BY <1>3, <1>4 DEF RoutedOnFresh
<1> QED
  BY <1>5, <1>6, <1>7

\* Every step preserves the invariant.
LEMMA StepDInv == DInv /\ [Next]_vars => DInv'
<1> SUFFICES ASSUME DInv, [Next]_vars PROVE DInv'
  OBVIOUS
<1>1. ASSUME NEW p \in Procs, FetchFails(p) \/ Return(p) \/ Stop(p)
      PROVE  DInv'
  <2>1. pc[p] = "append" => chosen[p].request \in Requests
    BY DEF DInv, TypeOK, Decisions
  <2> QED
    BY <1>1, <2>1, Ends DEF FetchFails, Return, Stop, DInv, TypeOK, history,
       Refreshing
<1>2. ASSUME NEW p \in Procs, AppendChanged(p)
      PROVE  DInv'
  <2>1. chosen[p].request \in Requests /\ log \in Seq(Requests)
    BY <1>2 DEF AppendChanged, DInv, TypeOK, Decisions
  <2>2. log' \in Seq(Requests)
    BY <1>2, <2>1 DEF AppendChanged
  <2> QED
    BY <1>2, <2>2, Ends DEF AppendChanged, DInv, TypeOK, Refreshing
<1>3. CASE UNCHANGED vars
  BY <1>3 DEF vars, DInv, TypeOK, HonestDates, RoutedOnFresh, Refreshing
<1> QED
  BY <1>1, <1>2, <1>3, TickStep, FetchStep, WriteStep, DecideStep, SaveStep
  DEF Next

\* route assign --from-cache: a route rests on evidence no older than the
\* assignment allowed, although its age is computed from a date another
\* process wrote.
THEOREM RoutesRestOnFreshEvidence == Spec => []RoutedOnFresh
<1>1. DInv => RoutedOnFresh
  BY DEF DInv
<1> QED
  BY <1>1, InitDInv, StepDInv, PTL DEF Spec

\* The files hold what their readers expect: a cache dated in the past, routes
\* of known decisions, and a log of requests.
THEOREM RoutesTypeCorrect == Spec => []TypeOK
<1>1. DInv => TypeOK
  BY DEF DInv
<1> QED
  BY <1>1, InitDInv, StepDInv, PTL DEF Spec

-----------------------------------------------------------------------------
(***************************************************************************)
(* The ledger is told of every route.                                      *)
(***************************************************************************)

\* Where assignments of a unit did not cross, a process that is to append an
\* event is the only one of the unit, its route is the row, and an event the
\* ledger had of it was there before the row.
TellingInv ==
    \A p \in Procs :
        LET u == UnitOf[chosen[p].request]
        IN pc[p] = "append" /\ u \notin crossed =>
              /\ \A q \in Procs :
                    pc[q] = "append" /\ UnitOf[chosen[q].request] = u => q = p
              /\ routes[u] = chosen[p]
              /\ Recorded(chosen[p].request) => u \in repeated

KnownInv == RoutesKnown /\ TellingInv

\* A step of a process that neither was to append an event nor is.
LEMMA StepElsewhere ==
    ASSUME TypeOK, KnownInv, NEW p \in Procs,
           pc[p] # "append", pc'[p] # "append",
           UNCHANGED <<routes, log, lost, repeated, crossed>>,
           \A q \in Procs \ {p} : pc'[q] = pc[q] /\ chosen'[q] = chosen[q]
    PROVE  KnownInv'
<1>1. \A q \in Procs : pc'[q] = "append" <=> pc[q] = "append"
  OBVIOUS
<1>2. \A q \in Procs : pc[q] = "append" => chosen'[q] = chosen[q]
  OBVIOUS
<1>3. RoutesKnown'
  BY <1>1, <1>2 DEF KnownInv, RoutesKnown, Recorded, LastRecorded
<1>4. TellingInv'
  BY <1>1, <1>2 DEF KnownInv, TellingInv, Recorded
<1> QED
  BY <1>3, <1>4 DEF KnownInv

\* A route is saved, and its process is to tell of it.
LEMMA SaveKnown ==
    ASSUME TypeOK, KnownInv, NEW p \in Procs, SaveRoute(p)
    PROVE  KnownInv'
<1>1. PICK r \in Requests : r = chosen[p].request
  BY DEF SaveRoute, TypeOK, Decisions
<1>2. PICK v \in Units : v = UnitOf[r]
  BY RoutesAssumption DEF RoutesAssumption
<1>3. /\ pc[p] = "save" /\ pc'[p] = "append"
      /\ \A q \in Procs : q # p => pc'[q] = pc[q]
      /\ UNCHANGED <<log, chosen, lost>>
      /\ routes'[v] = chosen[p]
      /\ \A u \in Units : u # v => routes'[u] = routes[u]
      /\ v \in repeated' <=> Recorded(r)
      /\ v \in crossed' <=> Owed(v)
      /\ \A u \in Units : u # v =>
            /\ u \in repeated' <=> u \in repeated
            /\ u \in crossed' <=> u \in crossed
  BY <1>1, <1>2 DEF SaveRoute, TypeOK
<1>4. RoutesKnown'
  <2>1. ASSUME NEW u \in Units, u # v, routes[u] # Nothing
        PROVE  \/ routes[u].request \in lost
               \/ \E q \in Procs : /\ pc'[q] = "append"
                                    /\ chosen[q].request = routes[u].request
               \/ IF u \in repeated' \cup crossed'
                    THEN Recorded(routes[u].request)
                    ELSE LastRecorded(u, routes[u].request)
    <3>1. \A q \in Procs : pc[q] = "append" => pc'[q] = "append"
      BY <1>3
    <3> QED
      BY <1>3, <2>1, <3>1 DEF KnownInv, RoutesKnown
  <2>2. \E q \in Procs : /\ pc'[q] = "append"
                         /\ chosen[q].request = routes'[v].request
    BY <1>3
  <2> QED
    BY <1>3, <2>1, <2>2 DEF RoutesKnown, Recorded, LastRecorded
<1>5. ASSUME NEW q \in Procs, NEW u \in Units, u = UnitOf[chosen[q].request],
             pc'[q] = "append", u \notin crossed'
      PROVE  /\ \A o \in Procs :
                   pc'[o] = "append" /\ UnitOf[chosen[o].request] = u => o = q
             /\ routes'[u] = chosen[q]
             /\ Recorded(chosen[q].request) => u \in repeated'
  <2>1. CASE u = v
    <3>1. \A o \in Procs : pc[o] = "append" => UnitOf[chosen[o].request] # v
      BY <1>3, <1>5, <2>1 DEF Owed
    <3>2. \A o \in Procs : pc'[o] = "append" /\ UnitOf[chosen[o].request] = u
             => o = p
      BY <1>3, <2>1, <3>1
    <3> QED
      BY <1>1, <1>3, <1>5, <2>1, <3>2
  <2>2. CASE u # v
    <3>1. q # p /\ pc[q] = "append" /\ u \notin crossed
      BY <1>1, <1>2, <1>3, <1>5, <2>2
    <3>2. /\ \A o \in Procs :
                pc[o] = "append" /\ UnitOf[chosen[o].request] = u => o = q
          /\ routes[u] = chosen[q]
          /\ Recorded(chosen[q].request) => u \in repeated
      BY <1>5, <3>1 DEF KnownInv, TellingInv
    <3>3. \A o \in Procs : pc'[o] = "append" /\ UnitOf[chosen[o].request] = u
             => pc[o] = "append"
      BY <1>1, <1>2, <1>3, <2>2
    <3> QED
      BY <1>3, <2>2, <3>2, <3>3
  <2> QED
    BY <2>1, <2>2
<1>6. \A q \in Procs : pc'[q] = "append" => UnitOf[chosen[q].request] \in Units
  <2>1. \A q \in Procs : pc'[q] = "append" => chosen[q] \in Decisions
    BY <1>3 DEF TypeOK
  <2> QED
    BY <2>1, RoutesAssumption DEF RoutesAssumption, Decisions
<1>7. TellingInv'
  BY <1>3, <1>5, <1>6 DEF TellingInv, Recorded
<1> QED
  BY <1>4, <1>7 DEF KnownInv

\* The event is appended, or the ledger had it.
LEMMA AppendKnown ==
    ASSUME TypeOK, KnownInv, NEW p \in Procs, AppendChanged(p)
    PROVE  KnownInv'
<1>1. PICK d \in Requests : d = chosen[p].request
  BY DEF AppendChanged, TypeOK, Decisions
<1>2. /\ pc[p] = "append" /\ pc'[p] = "idle"
      /\ UNCHANGED <<routes, repeated, crossed>>
      /\ lost' = lost \ {d}
      /\ \A q \in Procs : q # p => pc'[q] = pc[q] /\ chosen'[q] = chosen[q]
      /\ log' = IF Recorded(d) THEN log ELSE Append(log, d)
  BY <1>1 DEF AppendChanged, Forget, TypeOK
<1>3. /\ log \in Seq(Requests) /\ Len(log) \in Nat /\ DOMAIN log = 1..Len(log)
      /\ \A i \in DOMAIN log : i \in DOMAIN log' /\ log'[i] = log[i]
      /\ ~Recorded(d) => /\ DOMAIN log' = 1..(Len(log) + 1)
                         /\ log'[Len(log) + 1] = d
  BY <1>2 DEF TypeOK
<1>4. /\ Recorded(d)'
      /\ \A r : Recorded(r)' <=> Recorded(r) \/ r = d
  <2>1. CASE Recorded(d)
    BY <1>2, <2>1 DEF Recorded
  <2>2. CASE ~Recorded(d)
    BY <1>3, <2>2 DEF Recorded
  <2> QED
    BY <2>1, <2>2
<1>5. ~Recorded(d) => LastRecorded(UnitOf[d], d)'
  BY <1>3 DEF LastRecorded
<1>6. ASSUME NEW u \in Units, u # UnitOf[d], NEW r, LastRecorded(u, r)
      PROVE  LastRecorded(u, r)'
  <2>1. PICK i \in DOMAIN log :
           /\ log[i] = r
           /\ \A j \in DOMAIN log : j > i => UnitOf[log[j]] # u
    BY <1>6 DEF LastRecorded
  <2>2. ASSUME NEW j \in DOMAIN log', j > i
        PROVE  UnitOf[log'[j]] # u
    <3>1. CASE j \in DOMAIN log
      BY <1>3, <2>1, <2>2, <3>1
    <3>2. CASE j \notin DOMAIN log
      BY <1>2, <1>3, <1>6, <3>2
    <3> QED
      BY <3>1, <3>2
  <2> QED
    BY <1>3, <2>1, <2>2 DEF LastRecorded
<1>7. ASSUME NEW u \in Units, routes[u] # Nothing
      PROVE  \/ routes[u].request \in lost'
             \/ \E q \in Procs : /\ pc'[q] = "append"
                                  /\ chosen'[q].request = routes[u].request
             \/ IF u \in repeated \cup crossed
                  THEN Recorded(routes[u].request)'
                  ELSE LastRecorded(u, routes[u].request)'
  <2>1. PICK r : r = routes[u].request /\ UnitOf[r] = u
    BY <1>7 DEF TypeOK
  <2>2. CASE r = d
    <3>1. u \notin repeated \cup crossed => ~Recorded(d)
      BY <1>1, <1>2, <2>1, <2>2 DEF KnownInv, TellingInv
    <3>2. LastRecorded(u, d)' \/ u \in repeated \cup crossed
      BY <1>5, <2>1, <2>2, <3>1
    <3>3. CASE u \in repeated \cup crossed
      <4>1. Recorded(routes[u].request)'
        BY <1>2, <1>4, <2>1, <2>2 DEF Recorded
      <4> QED
        BY <3>3, <4>1
    <3>4. CASE u \notin repeated \cup crossed
      <4>1. LastRecorded(u, routes[u].request)'
        BY <1>2, <2>1, <2>2, <3>2, <3>4 DEF LastRecorded
      <4> QED
        BY <3>4, <4>1
    <3> QED
      BY <3>3, <3>4
  <2>3. CASE r # d
    <3>1. u = UnitOf[d] => u \in crossed
      BY <1>1, <1>2, <2>1, <2>3 DEF KnownInv, TellingInv
    <3>2. CASE r \in lost
      BY <1>2, <2>1, <2>3, <3>2
    <3>3. CASE \E q \in Procs : pc[q] = "append" /\ chosen[q].request = r
      <4>1. PICK q \in Procs : pc[q] = "append" /\ chosen[q].request = r
        BY <3>3
      <4>2. q # p
        BY <1>1, <2>3, <4>1
      <4> QED
        BY <1>2, <2>1, <4>1, <4>2
    <3>4. CASE u \in repeated \cup crossed /\ Recorded(r)
      <4>1. Recorded(r)'
        BY <1>4, <3>4
      <4> QED
        BY <1>2, <2>1, <3>4, <4>1 DEF Recorded
    <3>5. CASE u \notin repeated \cup crossed /\ LastRecorded(u, r)
      <4>1. LastRecorded(u, r)'
        BY <1>6, <3>1, <3>5
      <4> QED
        BY <1>2, <2>1, <3>5, <4>1 DEF LastRecorded
    <3> QED
      BY <1>7, <2>1, <3>2, <3>3, <3>4, <3>5 DEF KnownInv, RoutesKnown
  <2> QED
    BY <2>2, <2>3
<1>8. RoutesKnown'
  BY <1>2, <1>7 DEF RoutesKnown, Recorded, LastRecorded
<1>9. ASSUME NEW q \in Procs, pc'[q] = "append",
             UnitOf[chosen[q].request] \notin crossed
      PROVE  /\ q # p /\ pc[q] = "append"
             /\ \A o \in Procs : /\ pc'[o] = "append"
                                  /\ UnitOf[chosen'[o].request]
                                       = UnitOf[chosen[q].request]
                   => o = q
             /\ routes[UnitOf[chosen[q].request]] = chosen[q]
             /\ Recorded(chosen[q].request)' =>
                   UnitOf[chosen[q].request] \in repeated
  <2>1. q # p /\ pc[q] = "append"
    BY <1>2, <1>9
  <2>2. /\ \A o \in Procs : /\ pc[o] = "append"
                            /\ UnitOf[chosen[o].request]
                                 = UnitOf[chosen[q].request]
              => o = q
        /\ routes[UnitOf[chosen[q].request]] = chosen[q]
        /\ Recorded(chosen[q].request) => UnitOf[chosen[q].request] \in repeated
    BY <1>9, <2>1 DEF KnownInv, TellingInv
  <2>3. chosen[q].request # d
    BY <1>1, <1>2, <2>1, <2>2
  <2>4. PICK c : c = chosen[q].request /\ c = chosen'[q].request
    BY <1>2, <2>1
  <2>5. Recorded(c)' => Recorded(c)
    BY <1>4, <2>3, <2>4
  <2> QED
    BY <1>2, <2>1, <2>2, <2>4, <2>5 DEF Recorded
<1>10. TellingInv'
  BY <1>2, <1>9 DEF TellingInv, Recorded
<1> QED
  BY <1>8, <1>10 DEF KnownInv

\* A stopped process leaves its request in the ledger or among the lost ones.
LEMMA StopKnown ==
    ASSUME TypeOK, KnownInv, NEW p \in Procs, Stop(p)
    PROVE  KnownInv'
<1>1. /\ UNCHANGED <<routes, log, repeated, crossed>> /\ pc'[p] = "idle"
      /\ \A q \in Procs : q # p => pc'[q] = pc[q] /\ chosen'[q] = chosen[q]
      /\ lost \subseteq lost'
      /\ pc[p] = "append" =>
            Recorded(chosen[p].request) \/ chosen[p].request \in lost'
  BY DEF Stop, Forget, TypeOK
<1>2. ASSUME NEW u \in Units, routes[u] # Nothing
      PROVE  \/ routes[u].request \in lost'
             \/ \E q \in Procs : /\ pc'[q] = "append"
                                  /\ chosen'[q].request = routes[u].request
             \/ IF u \in repeated \cup crossed
                  THEN Recorded(routes[u].request)
                  ELSE LastRecorded(u, routes[u].request)
  <2>1. PICK r : r = routes[u].request /\ UnitOf[r] = u
    BY <1>2 DEF TypeOK
  <2>2. CASE pc[p] = "append" /\ chosen[p].request = r
    <3>1. Recorded(r) => u \in repeated \cup crossed
      BY <2>1, <2>2 DEF KnownInv, TellingInv
    <3> QED
      BY <1>1, <2>1, <2>2, <3>1
  <2>3. CASE ~(pc[p] = "append" /\ chosen[p].request = r)
    <3>1. \A q \in Procs : pc[q] = "append" /\ chosen[q].request = r
             => pc'[q] = "append" /\ chosen'[q].request = r
      BY <1>1, <2>3
    <3> QED
      BY <1>1, <1>2, <2>1, <3>1 DEF KnownInv, RoutesKnown
  <2> QED
    BY <2>2, <2>3
<1>3. RoutesKnown'
  BY <1>1, <1>2 DEF RoutesKnown, Recorded, LastRecorded
<1>4. TellingInv'
  BY <1>1 DEF KnownInv, TellingInv, Recorded
<1> QED
  BY <1>3, <1>4 DEF KnownInv

\* Every step preserves it.
LEMMA StepKnown == TypeOK /\ KnownInv /\ [Next]_vars => KnownInv'
<1> SUFFICES ASSUME TypeOK, KnownInv, [Next]_vars PROVE KnownInv'
  OBVIOUS
<1>1. CASE Tick \/ UNCHANGED vars
  BY <1>1 DEF Tick, vars, history, KnownInv, RoutesKnown, TellingInv, Recorded,
     LastRecorded
<1>2. ASSUME NEW p \in Procs,
             \/ \E max \in Limits : AnswerFromCache(p, max) \/ StartFetch(p, max)
             \/ FetchRecords(p) \/ WriteCache(p) \/ FetchFails(p) \/ Return(p)
             \/ \E r \in Requests, max \in Limits : Decide(p, r, max)
      PROVE  KnownInv'
  <2>1. /\ pc[p] # "append" /\ pc'[p] # "append"
        /\ UNCHANGED <<routes, log, lost, repeated, crossed>>
        /\ \A q \in Procs \ {p} : pc'[q] = pc[q] /\ chosen'[q] = chosen[q]
    BY <1>2 DEF AnswerFromCache, StartFetch, FetchRecords, WriteCache,
       FetchFails, Refreshing, Return, Decide, Forget, TypeOK, history
  <2> QED
    BY <2>1, StepElsewhere
<1> QED
  BY <1>1, <1>2, SaveKnown, AppendKnown, StopKnown DEF Next

\* route assign: however assignments race and stop, the request behind a route
\* is in the ledger, on its way there or lost with its process; and it is the
\* one of the unit's last event unless the ledger knew it from before or
\* assignments of the unit crossed.
THEOREM RoutesAlwaysKnown == Spec => []RoutesKnown
<1>1. Init => KnownInv
  BY DEF Init, KnownInv, RoutesKnown, TellingInv
<1>2. KnownInv => RoutesKnown
  BY DEF KnownInv
<1> QED
  BY <1>1, <1>2, RoutesTypeCorrect, StepKnown, PTL DEF Spec

-----------------------------------------------------------------------------
(***************************************************************************)
(* Refreshes that are not overtaken.                                       *)
(***************************************************************************)

\* A refresh that is not overtaken asked after what is cached was served.
AsksLater ==
    /\ cache # Nothing => cache.servedAt <= now
    /\ \A p \in Procs : pc[p] = "write" => fetched[p] <= now
    /\ \A p \in Procs : Refreshing(p) /\ p \notin overtaken /\ cache # Nothing
          => cache.servedAt <= started[p]

\* What AsksLater rests on stays as it is, or ends.
LEMMA SameRefreshes ==
    ASSUME AsksLater, UNCHANGED <<now, cache>>,
           \A q \in Procs : Refreshing(q)' =>
              /\ pc'[q] = pc[q]
              /\ started'[q] = started[q]
              /\ fetched'[q] = fetched[q]
              /\ q \in overtaken => q \in overtaken'
    PROVE  AsksLater'
BY DEF AsksLater, Refreshing

\* Every step keeps it.
LEMMA StepAsksLater == DInv /\ AsksLater /\ [Next]_vars => AsksLater'
<1> SUFFICES ASSUME DInv, AsksLater, [Next]_vars PROVE AsksLater'
  OBVIOUS
<1> USE DEF DInv
<1>1. CASE UNCHANGED vars
  BY <1>1, SameRefreshes DEF vars, Refreshing
<1>2. CASE Tick
  <2>1. /\ now \in Nat /\ now' = now + 1
        /\ UNCHANGED <<cache, pc, started, fetched, overtaken>>
    BY <1>2, RoutesAssumption
    DEF Tick, TypeOK, Times, RoutesAssumption, history
  <2>2. cache # Nothing => cache.servedAt \in Nat
    BY DEF TypeOK, Caches, Times
  <2>3. \A p \in Procs : fetched[p] \in Nat
    BY DEF TypeOK, Times
  <2>4. cache' # Nothing => cache'.servedAt <= now'
    BY <2>1, <2>2 DEF AsksLater
  <2>5. \A p \in Procs : pc'[p] = "write" => fetched'[p] <= now'
    BY <2>1, <2>3 DEF AsksLater
  <2> QED
    BY <2>1, <2>4, <2>5 DEF AsksLater, Refreshing
<1>3. ASSUME NEW p \in Procs, NEW max \in Limits, StartFetch(p, max)
      PROVE  AsksLater'
  <2>1. /\ pc'[p] = "fetch" /\ started'[p] = now
        /\ \A q \in Procs : q # p => pc'[q] = pc[q] /\ started'[q] = started[q]
        /\ UNCHANGED <<now, cache, fetched, overtaken>>
    BY <1>3 DEF StartFetch, TypeOK, history
  <2> QED
    BY <2>1 DEF AsksLater, Refreshing
<1>4. ASSUME NEW p \in Procs, FetchRecords(p)
      PROVE  AsksLater'
  <2>1. /\ Refreshing(p) /\ pc'[p] = "write" /\ fetched'[p] = now
        /\ \A q \in Procs : q # p => pc'[q] = pc[q] /\ fetched'[q] = fetched[q]
        /\ UNCHANGED <<now, cache, started, overtaken>>
    BY <1>4 DEF FetchRecords, TypeOK, Refreshing, history
  <2>2. now <= now
    BY DEF TypeOK, Times
  <2> QED
    BY <2>1, <2>2 DEF AsksLater, Refreshing
<1>5. ASSUME NEW p \in Procs, WriteCache(p)
      PROVE  AsksLater'
  <2>1. /\ pc[p] = "write" /\ pc'[p] = "idle"
        /\ \A q \in Procs : q # p => pc'[q] = pc[q] /\ fetched'[q] = fetched[q]
        /\ cache'.servedAt = fetched[p]
        /\ overtaken' = {q \in Procs \ {p} : Refreshing(q)}
        /\ UNCHANGED now
    BY <1>5 DEF WriteCache, Overtake, Forget, TypeOK
  <2>2. \A q \in Procs : Refreshing(q)' => q \in overtaken'
    BY <2>1 DEF Refreshing
  <2> QED
    BY <2>1, <2>2 DEF AsksLater
<1>6. ASSUME NEW p \in Procs,
             \/ \E max \in Limits : AnswerFromCache(p, max)
             \/ \E r \in Requests, max \in Limits : Decide(p, r, max)
             \/ SaveRoute(p)
      PROVE  AsksLater'
  <2>1. /\ pc'[p] \in {"answered", "save", "append"}
        /\ \A q \in Procs : q # p => pc'[q] = pc[q]
        /\ UNCHANGED <<now, cache, started, fetched, overtaken>>
    BY <1>6 DEF AnswerFromCache, Decide, SaveRoute, TypeOK, history
  <2> QED
    BY <2>1, SameRefreshes DEF Refreshing
<1>7. ASSUME NEW p \in Procs,
             FetchFails(p) \/ Return(p) \/ AppendChanged(p) \/ Stop(p)
      PROVE  AsksLater'
  <2>1. /\ pc'[p] = "idle"
        /\ \A q \in Procs : q # p => /\ pc'[q] = pc[q]
                                     /\ started'[q] = started[q]
                                     /\ fetched'[q] = fetched[q]
        /\ overtaken \ {p} \subseteq overtaken'
        /\ UNCHANGED <<now, cache>>
    BY <1>7
    DEF FetchFails, Return, AppendChanged, Stop, Forget, TypeOK, history
  <2> QED
    BY <2>1, SameRefreshes DEF Refreshing
<1> QED
  BY <1>1, <1>2, <1>3, <1>4, <1>5, <1>6, <1>7 DEF Next

\* A write by a refresh that was not overtaken is of a later question.
LEMMA WriteMovesOn ==
    ASSUME DInv, AsksLater, NEW p \in Procs, WriteCache(p), p \notin overtaken,
           cache # Nothing
    PROVE  /\ cache'.servedAt >= cache.servedAt
           /\ cache'.fetchedAt >= cache.fetchedAt
<1>1. /\ cache'.fetchedAt = started[p] /\ cache'.servedAt = fetched[p]
      /\ pc[p] = "write" /\ Refreshing(p)
  BY DEF WriteCache, Refreshing
<1>2. /\ started[p] <= fetched[p] /\ cache.fetchedAt <= cache.servedAt
      /\ cache.servedAt <= started[p]
  BY <1>1 DEF DInv, HonestDates, AsksLater
<1>3. /\ started[p] \in Int /\ fetched[p] \in Int
      /\ cache.fetchedAt \in Int /\ cache.servedAt \in Int
  BY DEF DInv, TypeOK, Caches, Times
<1> QED
  BY <1>1, <1>2, <1>3

\* route refresh: a refresh never puts older evidence, or an older date, in the
\* place of newer, unless the cache was written while it was under way.
THEOREM EvidenceAlwaysMovesOn == Spec => EvidenceMovesOn
<1>1. Init => AsksLater
  BY DEF Init, AsksLater, Refreshing
<1>2. DInv /\ AsksLater /\ [Next]_vars =>
        [\A p \in Procs :
           WriteCache(p) /\ p \notin overtaken /\ cache # Nothing
             => /\ cache'.servedAt >= cache.servedAt
                /\ cache'.fetchedAt >= cache.fetchedAt]_vars
  BY WriteMovesOn
<1> QED
  BY <1>1, <1>2, InitDInv, StepDInv, StepAsksLater, PTL DEF Spec,
     EvidenceMovesOn

=============================================================================
