----------------------------- MODULE MC_Outbox -----------------------------
(* Small instances of Outbox for TLC. *)
EXTENDS OutboxRefinement
=============================================================================
