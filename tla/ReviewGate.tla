---------------------------- MODULE ReviewGate -----------------------------
(***************************************************************************)
(* What the execution contract promises about the order of work, and       *)
(* nothing else: a node is approved for the first time only when every     *)
(* node it depends on has been approved, and no approval is forgotten.     *)
(***************************************************************************)
CONSTANTS Nodes, DependsOn

VARIABLE approved

Init == approved = {}

Approve(n) ==
    /\ n \notin approved
    /\ DependsOn[n] \subseteq approved
    /\ approved' = approved \cup {n}

Next == \E n \in Nodes : Approve(n)

Spec == Init /\ [][Next]_approved

=============================================================================
