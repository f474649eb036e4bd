--------------------------- MODULE MC_DaemonPid ---------------------------
(* Small instances of DaemonPid for TLC. *)
EXTENDS DaemonPid, TLC

Symmetry == Permutations(Daemons) \cup Permutations(Stoppers)
=============================================================================
