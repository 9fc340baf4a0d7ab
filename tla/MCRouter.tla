------------------------------ MODULE MCRouter ------------------------------
(***************************************************************************)
(* Three routes over four providers, one of them unknown to the registry.  *)
(***************************************************************************)
EXTENDS Router

MCRegistry ==
    [own |-> [provider_class |-> "direct_oauth", reliability |-> 1],
     api |-> [provider_class |-> "direct_api", reliability |-> 2],
     shop |-> [provider_class |-> "reseller", reliability |-> 2]]

Offer(provider, model, quality, cost, latency) ==
    [provider_id |-> provider, equivalence_class |-> model, quality |-> quality,
     per_attempt_cost |-> cost, latency_ms |-> latency, meets |-> {"tools"},
     open_weight |-> model = "open", zero_marginal_cost |-> cost = 0,
     confidence |-> 1]

MCGiven ==
    {Offer("own", "open", 2, 0, 1),  Offer("own", "closed", 3, 1, 2),
     Offer("own", NoClass, 4, 1, 1), Offer("api", "open", 3, 1, 1),
     Offer("api", "open", 3, 0, 1),  Offer("api", "closed", 4, 2, 2),
     Offer("api", "open", 4, 2, 1),  Offer("api", "closed", 1, 0, 1),
     Offer("shop", "open", 3, 2, 1), Offer("shop", "closed", 4, 1, 1),
     Offer("shop", NoClass, 4, 3, 2), Offer("gone", "open", 4, 0, 1),
     [Offer("shop", "open", 4, 0, 1) EXCEPT !.meets = {}]}

Task(role, pinned, override, force, floor, owned, open, attempts) ==
    [role |-> role, pinned_model_id |-> pinned,
     manual_override_model_id |-> override, force_override |-> force,
     required |-> {"tools"}, quality_floor |-> floor,
     subscription_first |-> owned, prefer_open_weight |-> open,
     max_attempts |-> attempts, repair_cost_factor |-> 1, escalation_cost |-> 1]

\* Route 9 is in no registry.
MCTasks ==
    {Task("worker", 0, 0, FALSE, floor, owned, open, attempts) :
        floor \in {0, 2}, owned \in BOOLEAN, open \in BOOLEAN, attempts \in {0, 2}}
    \cup {Task("worker", 0, r, force, 2, TRUE, FALSE, 1) :
              r \in {1, 9}, force \in BOOLEAN}
    \cup {Task("director", r, 0, FALSE, 2, TRUE, FALSE, 1) : r \in {0, 1, 9}}

=============================================================================
