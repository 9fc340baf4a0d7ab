---------------------------- MODULE MCReconcile ----------------------------
(***************************************************************************)
(* Plans of two units, the second of which may depend on the first, at     *)
(* every stage of being written and worked on.                             *)
(***************************************************************************)
EXTENDS Reconcile, TLC

CONSTANTS u1, u2, r1, e1, w1, w2

MCUnit(work, dependencies, detailed, evidence, status) ==
    [work |-> work, dependencies |-> dependencies, detailed |-> detailed,
     evidence |-> evidence, status |-> status,
     requirements |-> {r1}, examples |-> {e1}]

FirstUnits ==
    {MCUnit(w, {}, d, e, s) :
        w \in {w1, w2}, d \in BOOLEAN, e \in BOOLEAN,
        s \in {"pending", "completed", "done"}}

SecondUnits ==
    {MCUnit(w1, ds, TRUE, e, s) :
        ds \in {{}, {u1}}, e \in BOOLEAN, s \in {"pending", "completed"}}

MCDocument(ready, released, units) ==
    [ready |-> ready, released |-> released, invariants |-> TRUE,
     units |-> units,
     requirements |-> r1 :> DOMAIN units, examples |-> e1 :> DOMAIN units]

MCDocuments ==
    {MCDocument(rd, rl, u1 :> f) :
        rd \in BOOLEAN, rl \in BOOLEAN, f \in FirstUnits}
    \cup {MCDocument(rd, rd, u1 :> f @@ u2 :> s) :
            rd \in BOOLEAN, f \in FirstUnits, s \in SecondUnits}

=============================================================================
