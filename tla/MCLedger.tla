------------------------------ MODULE MCLedger ------------------------------
(***************************************************************************)
(* Two processes, one key that both use, the empty key and no key, two     *)
(* payloads.                                                               *)
(***************************************************************************)
EXTENDS Ledger

=============================================================================
