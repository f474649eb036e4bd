---------------------- MODULE MC_AutopilotSchedule ----------------------
(* Small instances of AutopilotSchedule for TLC. *)
EXTENDS AutopilotSchedule, TLC

Symmetry == Permutations(Owners) \cup Permutations(Candidates \ Drafts)
=============================================================================
