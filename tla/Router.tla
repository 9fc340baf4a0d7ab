------------------------------- MODULE Router -------------------------------
(***************************************************************************)
(* route_model (src/graph_coder/routing.py): one call for one task, stage  *)
(* by stage.                                                               *)
(*                                                                         *)
(* Routes are numbered in the order of their model_ids, which differ:      *)
(* build_registry names a route by its provider and its model.  The        *)
(* eighteen hard filters are requirements a route meets or does not, and   *)
(* quality, the mean of benchmarks and history, is a number of units.      *)
(* Probabilities are fractions of such units, and costs whole numbers,     *)
(* scaled to be exact; the code rounds to twelve digits.                   *)
(***************************************************************************)
EXTENDS Integers, FiniteSetsExt

CONSTANTS
    Routes,             \* numbers of the routes
    Requirements,       \* what tasks may demand of a route
    NoClass,            \* equivalence_class is None
    Registry,           \* the providers known, with their capabilities
    Given,              \* capabilities routes may have
    Tasks,              \* tasks that may be routed
    QualityUnit,        \* quality 1
    ReliabilityUnit,    \* reliability 1
    RetainWithinBest    \* retain_within_best, in units of quality

NoRoute == 0

Providers == DOMAIN Registry

ProviderCapabilities ==
    [provider_class : {"direct_oauth", "direct_api", "reseller"},
     reliability : 0..ReliabilityUnit]

TaskRequirements ==
    [role : {"director", "worker"}, pinned_model_id : Nat,
     manual_override_model_id : Nat, force_override : BOOLEAN,
     required : SUBSET Requirements, quality_floor : Nat,
     subscription_first : BOOLEAN, prefer_open_weight : BOOLEAN,
     max_attempts : Nat, repair_cost_factor : Nat, escalation_cost : Nat]

ASSUME RouterAssumption ==
    /\ Routes \subseteq Nat \ {NoRoute}
    /\ {QualityUnit, ReliabilityUnit, RetainWithinBest} \subseteq Nat
    /\ Registry \in [Providers -> ProviderCapabilities]
    /\ Tasks \subseteq TaskRequirements
    /\ IsFiniteSet(Routes)
    /\ \A model \in Given :
          /\ model.meets \subseteq Requirements
          /\ model.quality \in 0..QualityUnit
          /\ {model.per_attempt_cost, model.latency_ms, model.confidence}
               \subseteq Int

VARIABLES
    task,           \* the task
    models,         \* capabilities of each route
    phase,          \* the next stage, or the outcome
    scored,         \* routes that passed the hard filters
    pool,           \* those of them that are left
    eliminations,   \* routes with the reasons recorded for them
    fallback,       \* fallback_model_id of each candidate
    selected        \* the route selected

routerVars ==
    <<task, models, phase, scored, pool, eliminations, fallback, selected>>

given == <<task, models>>

-----------------------------------------------------------------------------
(***************************************************************************)
(* Filters, costs, and orders of routes.                                   *)
(***************************************************************************)

\* _hard_filter_reasons gives a reason.
Fails(r) ==
    \/ models[r].provider_id \notin Providers
    \/ ~(task.required \subseteq models[r].meets)

Provider(r) == Registry[models[r].provider_id]

Unit == QualityUnit * ReliabilityUnit

Attempts == IF task.max_attempts > 1 THEN task.max_attempts ELSE 1

\* One minus the pass probability, times Unit.
Failing(r) == Unit - models[r].quality * Provider(r).reliability

\* What begins as first and is, from each number to the next, multiplied by
\* factor and added to.
Accrued(first, factor, added) ==
    LET sum[n \in Nat] ==
          IF n = 0 THEN first ELSE added[n] + factor * sum[n - 1]
    IN  sum

\* Powers of x; 0^0 is 1 in the code.
Powers(x) == Accrued(1, x, [n \in Nat |-> 0])

\* _expected_cost of a route that costs 1, times Unit^Attempts: an attempt is
\* paid for, and if it fails the others are.
AttemptsPaid(r) == Accrued(0, Failing(r), Powers(Unit))[Attempts]

\* expected_passing_cost times Unit^Attempts.
ExpectedCost(r) ==
    LET cost == models[r].per_attempt_cost
    IN  cost * AttemptsPaid(r)
          + Failing(r) * Powers(Unit)[Attempts - 1] * cost
              * task.repair_cost_factor
          + Powers(Failing(r))[Attempts] * task.escalation_cost

\* The same with the fallback's, times Unit^Attempts once more.
CostWith(r, alternative) ==
    ExpectedCost(r) * Powers(Unit)[Attempts]
      + IF alternative = NoRoute THEN 0
        ELSE Powers(Failing(r))[Attempts] * ExpectedCost(alternative)

SelectionKey(r, cost) ==
    <<cost, -models[r].confidence, -Provider(r).reliability,
      models[r].latency_ms, r>>

Before(k, l) ==
    \E i \in 1..5 : k[i] < l[i] /\ \A j \in 1..(i - 1) : k[j] = l[j]

\* min() over S, which is one route, or none if S is empty.
Least(S, cost) ==
    {r \in S : \A s \in S \ {r} :
        Before(SelectionKey(r, cost[r]), SelectionKey(s, cost[s]))}

Only(S) == IF S = {} THEN NoRoute ELSE CHOOSE r \in S : TRUE

\* The fallback of r among the candidates S: of another provider if it can be.
FallbackOf(r, S) ==
    LET others == S \ {r}
        elsewhere == {s \in others :
                        models[s].provider_id # models[r].provider_id}
    IN  Only(Least(IF elsewhere = {} THEN others ELSE elsewhere,
                   [s \in others |-> ExpectedCost(s)]))

\* Mutant: as good in all is dominated.
AsGood(s, r) ==
    /\ models[s].quality >= models[r].quality
    /\ ExpectedCost(s) <= ExpectedCost(r)
    /\ Provider(s).reliability >= Provider(r).reliability
    /\ models[s].latency_ms <= models[r].latency_ms

Dominates(s, r) ==
    /\ models[s].quality >= models[r].quality
    /\ ExpectedCost(s) <= ExpectedCost(r)
    /\ Provider(s).reliability >= Provider(r).reliability
    /\ models[s].latency_ms <= models[r].latency_ms
    /\ \/ models[s].quality > models[r].quality
       \/ ExpectedCost(s) < ExpectedCost(r)
       \/ Provider(s).reliability > Provider(r).reliability
       \/ models[s].latency_ms < models[r].latency_ms

ParetoFrontier(S) == {r \in S : \A s \in S \ {r} : ~Dominates(s, r)}

\* The order of the groups of _apply_subscription_first.
Tier(r) ==
    CASE Provider(r).provider_class = "direct_oauth" -> 1
      [] Provider(r).provider_class = "reseller" -> 4
      [] OTHER -> IF models[r].zero_marginal_cost THEN 2 ELSE 3

\* The resellers in S that offer what is owned already.  equivalence_class of
\* the task adds to the keys of a reseller only what is among them.
Duplicates(S) ==
    {r \in S : Tier(r) = 4 /\ \E owned \in S :
        /\ Tier(owned) \in {1, 2}
        /\ models[owned].equivalence_class = models[r].equivalence_class
        /\ models[r].equivalence_class # NoClass}

-----------------------------------------------------------------------------
(***************************************************************************)
(* The stages.                                                             *)
(***************************************************************************)

RouterInit ==
    /\ task \in Tasks
    /\ models \in [Routes -> Given]
    /\ phase = "called"
    /\ scored = {}
    /\ pool = {}
    /\ eliminations = {}
    /\ fallback = [r \in Routes |-> NoRoute]
    /\ selected = NoRoute

Director == task.role = "director"

\* _route_pinned_director: the pinned route or none.
PinDirector ==
    /\ phase = "called" /\ Director /\ task.pinned_model_id # NoRoute
    /\ phase' = "decided"
    /\ LET pinned == task.pinned_model_id
           fit == {r \in Routes : r = pinned /\ ~Fails(r)}
       IN  /\ scored' = fit
           /\ selected' = Only(fit)
           /\ eliminations' =
                IF fit = {} THEN {<<pinned, "requirement">>} ELSE {}
    /\ UNCHANGED <<given, pool, fallback>>

PinMissing ==
    /\ phase = "called" /\ Director /\ task.pinned_model_id = NoRoute
    /\ phase' = "error"
    /\ UNCHANGED <<given, scored, pool, eliminations, fallback, selected>>

HardFilter ==
    /\ phase = "called" /\ ~Director
    /\ scored' = {r \in Routes : ~Fails(r)}
    /\ eliminations' = {<<r, "requirement">> : r \in {s \in Routes : Fails(s)}}
    /\ phase' = IF task.manual_override_model_id = NoRoute THEN "scored"
                ELSE "override"
    /\ UNCHANGED <<given, pool, fallback, selected>>

\* Mutant: every route may stand in.
OverrideAny ==
    /\ phase = "override"
    /\ LET r == task.manual_override_model_id
       IN  IF r \in scored \/ (task.force_override /\ r \in Routes
                                 /\ models[r].provider_id \in Providers)
             THEN /\ selected' = r
                  /\ fallback' = [fallback EXCEPT ![r] =
                        FallbackOf(r, {s \in Routes :
                            models[s].provider_id \in Providers})]
             ELSE UNCHANGED <<fallback, selected>>
    /\ phase' = "decided"
    /\ UNCHANGED <<given, scored, pool, eliminations>>

\* The manual override: what was asked for, with any route that was scored to
\* fall back on, or nothing.
Override ==
    /\ phase = "override"
    /\ LET r == task.manual_override_model_id
       IN  IF r \in scored \/ (task.force_override /\ r \in Routes
                                 /\ models[r].provider_id \in Providers)
             THEN /\ selected' = r
                  /\ fallback' = [fallback EXCEPT ![r] = FallbackOf(r, scored)]
             ELSE UNCHANGED <<fallback, selected>>
    /\ phase' = "decided"
    /\ UNCHANGED <<given, scored, pool, eliminations>>

QualityFloor ==
    /\ phase = "scored"
    /\ pool' = {r \in scored : models[r].quality >= task.quality_floor}
    /\ eliminations' = eliminations \cup {<<r, "floor">> : r \in scored \ pool'}
    /\ phase' = IF task.subscription_first THEN "precedence" ELSE "eligible"
    /\ UNCHANGED <<given, scored, fallback, selected>>

\* Mutant: resellers that are no duplicates stay.
KeepResellers ==
    /\ phase = "precedence"
    /\ LET left == pool \ Duplicates(pool)
       IN  /\ pool' = {r \in left :
                          Tier(r) = 4 \/ \A s \in left : Tier(r) <= Tier(s)}
           /\ eliminations' = eliminations
                \cup {<<r, "duplicate">> : r \in Duplicates(pool)}
                \cup {<<r, "group">> : r \in left \ pool'}
    /\ phase' = "eligible"
    /\ UNCHANGED <<given, scored, fallback, selected>>

\* _apply_subscription_first: the first group that is not empty.
SubscriptionFirst ==
    /\ phase = "precedence"
    /\ LET left == pool \ Duplicates(pool)
       IN  /\ pool' = {r \in left : \A s \in left : Tier(r) <= Tier(s)}
           /\ eliminations' = eliminations
                \cup {<<r, "duplicate">> : r \in Duplicates(pool)}
                \cup {<<r, "group">> : r \in left \ pool'}
    /\ phase' = "eligible"
    /\ UNCHANGED <<given, scored, fallback, selected>>

\* Mutant: open weights are preferred before the frontier.
RetainOpen ==
    /\ phase = "eligible"
    /\ LET open == {r \in pool : models[r].open_weight}
           candidates ==
             IF task.prefer_open_weight /\ open # {} THEN open ELSE pool
           frontier == ParetoFrontier(candidates)
           best == Max({0} \cup {models[r].quality : r \in frontier})
       IN  pool' = {r \in frontier :
                      models[r].quality >= best - RetainWithinBest}
    /\ fallback' = [r \in Routes |->
                      IF r \in pool' THEN FallbackOf(r, pool') ELSE NoRoute]
    /\ phase' = "retained"
    /\ UNCHANGED <<given, scored, eliminations, selected>>

\* The frontier, what is retained of it, and the fallbacks of that.
Retain ==
    /\ phase = "eligible"
    /\ LET frontier == ParetoFrontier(pool)
           best == Max({0} \cup {models[r].quality : r \in frontier})
       IN  pool' = {r \in frontier :
                      models[r].quality >= best - RetainWithinBest}
    /\ fallback' = [r \in Routes |->
                      IF r \in pool' THEN FallbackOf(r, pool') ELSE NoRoute]
    /\ phase' = "retained"
    /\ UNCHANGED <<given, scored, eliminations, selected>>

Select ==
    /\ phase = "retained"
    /\ LET open == {r \in pool : models[r].open_weight}
           candidates ==
             IF task.prefer_open_weight /\ open # {} THEN open ELSE pool
           cost == [r \in pool |-> CostWith(r, fallback[r])]
       IN  selected' = Only(Least(candidates, cost))
    /\ phase' = "decided"
    /\ UNCHANGED <<given, scored, pool, eliminations, fallback>>

RouterNext ==
    \/ PinDirector
    \/ PinMissing
    \/ HardFilter
    \/ Override
    \/ QualityFloor
    \/ SubscriptionFirst
    \/ Retain
    \/ Select

RouterSpec == RouterInit /\ [][RouterNext]_routerVars

-----------------------------------------------------------------------------
(***************************************************************************)
(* Properties.                                                             *)
(***************************************************************************)

\* Decided by score, neither pinned nor overridden.
ByScore ==
    /\ phase = "decided"
    /\ ~Director
    /\ task.manual_override_model_id = NoRoute

Eligible(r) == ~Fails(r) /\ models[r].quality >= task.quality_floor

\* The routes a decision assigns.
Assigned ==
    {selected, IF selected = NoRoute THEN NoRoute ELSE fallback[selected]}
      \ {NoRoute}

\* A decision assigns routes of the registry and is in order with its receipt.
RouterTypeOK ==
    /\ task \in Tasks
    /\ models \in [Routes -> Given]
    /\ phase \in {"called", "override", "scored", "precedence", "eligible",
                  "retained", "decided", "error"}
    /\ pool \subseteq scored /\ scored \subseteq Routes
    /\ eliminations \subseteq
         Nat \X {"requirement", "floor", "duplicate", "group"}
    /\ fallback \in [Routes -> Routes \cup {NoRoute}]
    /\ \A r \in Routes : fallback[r] # r
    /\ selected \in Routes \cup {NoRoute}

\* docs/design-contract.md: "Fallbacks must pass the same hard requirements".
\* Nothing is assigned that fails a requirement, except what an override
\* forces, and nothing that is chosen by score is below the floor; the
\* Director's route is the pinned one.
OnlyFitRoutes ==
    phase = "decided" =>
        /\ \A r \in Assigned :
              Fails(r) => /\ r = selected
                          /\ r = task.manual_override_model_id
                          /\ task.force_override
        /\ ByScore => \A r \in Assigned : Eligible(r)
        /\ Director => Assigned \subseteq {task.pinned_model_id}

\* No stage loses the last candidate: precedence, frontier, margin and the
\* preference for open weights never make a refusal of a task that can be
\* routed, and ties never leave the choice open.
RefusedRightly ==
    ByScore /\ selected = NoRoute => \A r \in Routes : ~Eligible(r)

\* With subscription_first nothing is assigned, as a fallback neither, while
\* an eligible route of an earlier group would do.
OwnedFirst ==
    ByScore /\ task.subscription_first =>
        \A r \in Assigned, s \in Routes : Eligible(s) => Tier(r) <= Tier(s)

\* What a route is compared by, each the more the better.
Merits(r) == <<models[r].quality, -ExpectedCost(r), Provider(r).reliability,
               -models[r].latency_ms>>

\* The later stages, the choice of an open model included, do not give away
\* what the earlier ones stand for: among the eligible routes of its group,
\* none is as good as the selected one in every respect and better in one, and
\* none is better in quality by more than the margin.
NoneBetter ==
    ByScore /\ selected # NoRoute =>
        \A r \in Routes :
            /\ Eligible(r)
            /\ task.subscription_first => Tier(r) = Tier(selected)
            => /\ Merits(r)[1] <= Merits(selected)[1] + RetainWithinBest
               /\ \/ Merits(r) = Merits(selected)
                  \/ \E i \in 1..4 : Merits(r)[i] < Merits(selected)[i]

=============================================================================
