---------------------------- MODULE MC_RuleStore ----------------------------
(* Instances of RuleStore for TLC.                                         *)
EXTENDS RuleStore, TLC

CONSTANTS t1, t2

Nobody == [i \in {} |-> NoRepo]

\* One process: imports, agent captures, reviews and sweeps of two texts the
\* matcher confuses.
Single(p) == [procs |-> {p}, texts |-> {t1, t2}, alike |-> {{t1, t2}},
              ops |-> {"import", "distill", "capture", "review", "sweep"}, own |-> {1, 2},
              published |-> Nobody, extracted |-> {}, publications |-> 0]

\* Every process approves and rejects mined candidates, and reviews drafts.
Race == [procs |-> AllProcs, texts |-> {t1}, alike |-> {}, ops |-> {"session", "review"},
         own |-> {1, 2}, published |-> Nobody, extracted |-> {}, publications |-> 0]

\* Every process syncs two rules of the cloud, one of them for repository r, and
\* disables them.  Both, or none, were extracted from reviews.
Upkeep(r, S) == [procs |-> AllProcs, texts |-> {t1, t2}, alike |-> {}, ops |-> {"sync", "review"},
              own |-> {}, published |-> (1 :> r) @@ (2 :> NoRepo), extracted |-> S,
              publications |-> 3]

Everyday == {Race} \cup {Upkeep(r, S) : r \in Repos, S \in {{}, {1, 2}}}
              \cup {Single(p) : p \in AllProcs}

\* One process reviews drafts of two texts that are not alike.
Refinement(p) == [procs |-> {p}, texts |-> {t1, t2}, alike |-> {}, ops |-> {"import", "review"},
                  own |-> {1, 2}, published |-> Nobody, extracted |-> {}, publications |-> 0]
Refining == {Refinement(p) : p \in AllProcs}

Symmetry == Permutations(AllProcs) \cup Permutations(Repos)
=============================================================================
