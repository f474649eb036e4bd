-------------------------- MODULE MC_Observations --------------------------
(* Small instances of Observations for TLC. *)
EXTENDS Observations, TLC

\* Every process at once on good events, with room for one row.
Race == [procs |-> AllProcs, payloads |-> {"good"}, batch |-> 2, cap |-> 1,
         maxTime |-> 2, maxDrifts |-> 0, maxFaults |-> 0]

\* One process, every payload, a cloud that changes its mind, and a crash.
Alone(p) == [procs |-> {p}, payloads |-> AllPayloads, batch |-> 3, cap |-> 2,
             maxTime |-> 1, maxDrifts |-> 1, maxFaults |-> 1]

RaceAndAlone == {Race} \cup {Alone(p) : p \in AllProcs}

Symmetry == Permutations(AllProcs)
=============================================================================
