-------------------------- MODULE MC_OutboxHistory --------------------------
(* Small instances of OutboxHistory for TLC. *)
EXTENDS OutboxHistory

\* Faults are explored in the behaviours in which no drain has overrun the stale
\* threshold, overruns in those without a fault.
OverrunOrFaults == ~overrun \/ faults = 0
=============================================================================
