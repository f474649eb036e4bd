-------------------------- MODULE MC_MemoryTriage --------------------------
(* Instances of MemoryTriage for TLC: lessons a1 and a2 match, b is apart.  *)
EXTENDS MemoryTriage

CONSTANTS a1, a2, b, s1, s2

TopicOf == [l \in Lessons |-> IF l = b THEN "b" ELSE "a"]
LengthOf == [l \in Lessons |-> IF l = a2 THEN 2 ELSE 1]

Waiting(l) == [lesson |-> l, session |-> s1, evidence |-> 0, triage |-> "none",
               ref |-> NoLesson, approved |-> FALSE]
Dropped(l) == [Waiting(l) EXCEPT !.triage = "dropped"]

\* One process mines n lessons, reviews and runs the autopilot, on an empty table, on
\* duplicates, or on a row that an earlier version has dropped as low in signal.
Single(old, n) == [procs |-> {CHOOSE p \in AllProcs : TRUE}, old |-> old, sessions |-> Sessions,
                mines |-> n, reviews |-> 1, runs |-> 2]

\* Two processes do, on duplicates that racing miners have left.
Together == [procs |-> AllProcs, old |-> <<Waiting(a1), Waiting(a2), Waiting(b)>>,
             sessions |-> {s2}, mines |-> 1, reviews |-> 1, runs |-> 1]
\* Two miners race from an empty table.
Miners == [procs |-> AllProcs, old |-> <<>>, sessions |-> Sessions,
           mines |-> 3, reviews |-> 0, runs |-> 0]

Everyday == {Together, Miners, Single(<<>>, 3), Single(<<Dropped(a1)>>, 3),
             Single(<<Waiting(a1), Waiting(a2)>>, 2)}
=============================================================================
