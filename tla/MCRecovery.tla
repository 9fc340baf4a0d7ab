----------------------------- MODULE MCRecovery -----------------------------
(***************************************************************************)
(* Two processes that recover at the same time, beside a worker and plan   *)
(* snapshots that write the same unit twice.                               *)
(***************************************************************************)
EXTENDS Recovery

=============================================================================
