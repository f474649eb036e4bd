------------------------- MODULE AutopilotSchedule -------------------------
(***************************************************************************)
(* When rules triage runs in the background (crates/difflore-core/src/     *)
(* memory_autopilot_schedule.rs and the callers in crates/difflore-cli/    *)
(* src/commands/memory/autopilot.rs).  Hooks, imports and syncs store rule *)
(* candidates and mark the schedule row dirty; a trigger takes the lease   *)
(* and spawns a process, which plans over the candidates it reads and      *)
(* settles the row at the end.  A person may run triage by hand beside it. *)
(*                                                                         *)
(* One member of Owners is one lease owner, "reason:pid:nanos" in the      *)
(* code; its name is used again only when no row and no process has it.    *)
(* The enabled column, which nothing in the program clears, and the        *)
(* counters, which are only displayed, are left out.  Time 0 is NULL.      *)
(***************************************************************************)
EXTENDS Naturals, FiniteSets

CONSTANTS
  Owners,      \* lease owners
  Candidates,  \* rule candidates: drafts and session-mined discoveries
  Drafts,      \* the drafts among them
  MaxScan,     \* MAX_PENDING_SCAN: how many of each section a plan reads
  None,        \* no owner
  Lease,       \* BACKGROUND_LEASE_SECS
  Cooldowns,   \* SESSION_END_ and EXPLICIT_AUTOPILOT_COOLDOWN_SECS
  MaxTime      \* bound: the last instant

ASSUME ScheduleAssumption ==
  /\ None \notin Owners
  /\ Drafts \subseteq Candidates /\ MaxScan \in Nat \ {0}
  /\ Lease \in Nat \ {0} /\ Cooldowns \subseteq Nat /\ MaxTime \in Nat \ {0}

VARIABLES
  sched,    \* the row of memory_autopilot_schedule
  now,
  cand,     \* candidates: absent, stored, stored and marked dirty, or decided
  run,      \* what each owner is doing
  seen,     \* history: candidates a run that settled the row had planned over
  excused,  \* history: candidates marked before a run that settled with an error
  beyond    \* history: candidates a run that settled the row found beyond its scan

vars == <<sched, now, cand, run, seen, excused, beyond>>

Reasons == {"none", "not_dirty", "lease_held", "cooldown", "unknown", "spawn_failed",
            "manual_failed", "manual_finished"}
Schedule == [dirty : BOOLEAN, dirtyAt : Nat, runAt : Nat, owner : Owners \cup {None},
             expires : Nat, skip : Reasons]
PCs == {"idle", "skipping", "acquired", "spawned", "begun", "planning", "enabling",
        "manual", "manualEnd"}
Run == [pc : PCs, cooldown : Cooldowns \cup {0}, until : Nat,
        started : Nat, plan : SUBSET Candidates, left : SUBSET Candidates]
Idle == [pc |-> "idle", cooldown |-> 0, until |-> 0, started |-> 0,
         plan |-> {}, left |-> {}]

Init ==
  /\ sched = [dirty |-> FALSE, dirtyAt |-> 0, runAt |-> 0, owner |-> None, expires |-> 0,
              skip |-> "none"]
  /\ now = 1
  /\ cand = [c \in Candidates |-> "absent"]
  /\ run = [p \in Owners |-> Idle]
  /\ seen = {} /\ excused = {} /\ beyond = {}

Go(p, r) == run' = [run EXCEPT ![p] = r]

-----------------------------------------------------------------------------
(* Work arrives                                                            *)

\* A hook, an import or a sync stores a candidate, and marks the row after it.
Store(c) ==
  /\ cand[c] = "absent"
  /\ cand' = [cand EXCEPT ![c] = "stored"]
  /\ UNCHANGED <<sched, now, run, seen, excused, beyond>>

\* mark_autopilot_dirty: one UPDATE.
MarkDirty(c) ==
  /\ cand[c] = "stored"
  /\ cand' = [cand EXCEPT ![c] = "marked"]
  /\ sched' = [sched EXCEPT !.dirty = TRUE, !.dirtyAt = now]
  /\ UNCHANGED <<now, run, seen, excused, beyond>>

\* A person, a triage run or a promotion decides a candidate: approved,
\* rejected or enabled, it is not pending any more.
Decide(c) ==
  /\ cand[c] \in {"stored", "marked"}
  /\ cand' = [cand EXCEPT ![c] = "decided"]
  /\ UNCHANGED <<sched, now, run, seen, excused, beyond>>

-----------------------------------------------------------------------------
(* The lease                                                               *)

Unleased == TRUE                         \* mutant: a held lease is taken over
LeaseFree == sched.owner = None \/ sched.expires < now

\* julianday(last_run_at) < julianday('now', '-d seconds')
Cool(d) == sched.runAt = 0 \/ sched.runAt + d < now

Leased(p) == [sched EXCEPT !.owner = p, !.expires = now + Lease]

Fresh(p) == run[p].pc = "idle" /\ sched.owner # p

\* The CASE of record_autopilot_skip.
SkipReason(d) ==
  CASE ~sched.dirty -> "not_dirty"
    [] sched.dirty /\ ~LeaseFree -> "lease_held"
    [] sched.dirty /\ LeaseFree /\ ~Cool(d) -> "cooldown"
    [] OTHER -> "unknown"

\* try_acquire_autopilot_lease, when its UPDATE matches the row.
TryAcquire(p, d) ==
  /\ Fresh(p) /\ sched.dirty /\ LeaseFree /\ Cool(d)
  /\ sched' = [Leased(p) EXCEPT !.skip = "none"]
  /\ Go(p, [Idle EXCEPT !.pc = "acquired", !.until = now + Lease])
  /\ UNCHANGED <<now, cand, seen, excused, beyond>>

\* try_acquire_autopilot_lease, when it does not: the reason is recorded by a
\* second statement.
TryRefused(p, d) ==
  /\ Fresh(p) /\ ~(sched.dirty /\ LeaseFree /\ Cool(d))
  /\ Go(p, [Idle EXCEPT !.pc = "skipping", !.cooldown = d])
  /\ UNCHANGED <<sched, now, cand, seen, excused, beyond>>

RecordSkip(p) ==
  /\ run[p].pc = "skipping"
  /\ sched' = [sched EXCEPT !.skip = SkipReason(run[p].cooldown)]
  /\ Go(p, Idle)
  /\ UNCHANGED <<now, cand, seen, excused, beyond>>

AnyHolder(p) == TRUE                     \* mutant: the owner is not compared
Holds(p) == sched.owner = p

Unlocked(s) == [s EXCEPT !.owner = None, !.expires = 0]

\* release_autopilot_lease
Release(p, why) ==
  sched' = IF Holds(p) THEN [Unlocked(sched) EXCEPT !.skip = why] ELSE sched

\* try_acquire_manual_autopilot_lease: neither dirty nor cooled down.
AcquireManual(p) ==
  /\ Fresh(p) /\ LeaseFree
  /\ sched' = Leased(p)
  /\ Go(p, [Idle EXCEPT !.pc = "manual", !.until = now + Lease])
  /\ UNCHANGED <<now, cand, seen, excused, beyond>>

-----------------------------------------------------------------------------
(* A background run                                                        *)

\* schedule_memory_autopilot_best_effort: the detached process is spawned,
Spawn(p) ==
  /\ run[p].pc = "acquired"
  /\ Go(p, [run[p] EXCEPT !.pc = "spawned"])
  /\ UNCHANGED <<sched, now, cand, seen, excused, beyond>>

\* or it is not, and the lease is given back.
SpawnFails(p) ==
  /\ run[p].pc = "acquired"
  /\ Release(p, "spawn_failed")
  /\ Go(p, Idle)
  /\ UNCHANGED <<now, cand, seen, excused, beyond>>

\* run_background_memory_autopilot takes started_at before anything else,
Begin(p) ==
  /\ run[p].pc = "spawned"
  /\ Go(p, [run[p] EXCEPT !.pc = "begun", !.started = now])
  /\ UNCHANGED <<sched, now, cand, seen, excused, beyond>>

\* and gives up if the lease is no longer its own.
CheckLease(p) ==
  /\ run[p].pc = "begun"
  /\ Go(p, IF Holds(p) /\ now <= sched.expires THEN [run[p] EXCEPT !.pc = "planning"]
                                               ELSE Idle)
  /\ UNCHANGED <<sched, now, cand, seen, excused, beyond>>

Pending == {c \in Candidates : cand[c] \in {"stored", "marked"}}
Section(c) == IF c \in Drafts THEN Drafts ELSE Candidates \ Drafts

\* The scan of c's section has come to its end.
Full(S, c) == Cardinality(S \cap Section(c)) = MaxScan

\* list_candidates and load_memory_inbox load the first MAX_PENDING_SCAN of
\* their section; the order they take them in is left open here.
Scans ==
  {S \in SUBSET Pending : \A c \in Pending :
     Cardinality(S \cap Section(c)) <= MaxScan /\ (c \in S \/ Full(S, c))}

\* build_plan
Plan(p) ==
  /\ run[p].pc \in {"planning", "manual"}
  /\ \E S \in Scans :
       Go(p, [run[p] EXCEPT !.pc = IF @ = "planning" THEN "enabling" ELSE "manualEnd",
                            !.plan = S, !.left = {c \in Pending \ S : Full(S, c)}])
  /\ UNCHANGED <<sched, now, cand, seen, excused, beyond>>

Through(p) == sched.dirtyAt <= run[p].started \* mutant: a mark of that instant goes too

\* Whether the last mark is older than the run.
Older(p) == sched.dirtyAt = 0 \/ sched.dirtyAt < run[p].started

\* finish_autopilot_run
Settled(p) == [Unlocked(sched) EXCEPT !.runAt = now, !.skip = "none",
                                      !.dirty = IF Older(p) THEN FALSE ELSE @]

FinishOk(p) ==
  /\ run[p].pc = "enabling"
  /\ sched' = IF Holds(p) THEN Settled(p) ELSE sched
  /\ seen' = IF Holds(p) THEN seen \cup run[p].plan ELSE seen
  /\ beyond' = IF Holds(p) THEN beyond \cup run[p].left ELSE beyond
  /\ Go(p, Idle)
  /\ UNCHANGED <<now, cand, excused>>

\* The Err arm settles the row in the same way, wherever the run failed.
FinishErr(p) ==
  /\ run[p].pc \in {"planning", "enabling"}
  /\ sched' = IF Holds(p) THEN Settled(p) ELSE sched
  /\ excused' = IF Holds(p) /\ Older(p)
                THEN excused \cup {c \in Candidates : cand[c] = "marked"} ELSE excused
  /\ Go(p, Idle)
  /\ UNCHANGED <<now, cand, seen, beyond>>

\* handle_autopilot: a run by hand gives its lease back and leaves the mark.
ManualEnds(p) ==
  /\ \/ run[p].pc = "manualEnd" /\ Release(p, "manual_finished")
     \/ run[p].pc \in {"manual", "manualEnd"} /\ Release(p, "manual_failed")
  /\ Go(p, Idle)
  /\ UNCHANGED <<now, cand, seen, excused, beyond>>

\* A killed process leaves its lease to expire.
Crash(p) ==
  /\ run[p].pc # "idle"
  /\ Go(p, Idle)
  /\ UNCHANGED <<sched, now, cand, seen, excused, beyond>>

Tick ==
  /\ now < MaxTime
  /\ now' = now + 1
  /\ UNCHANGED <<sched, cand, run, seen, excused, beyond>>

Next ==
  \/ \E c \in Candidates : Store(c) \/ MarkDirty(c) \/ Decide(c)
  \/ \E p \in Owners, d \in Cooldowns : TryAcquire(p, d) \/ TryRefused(p, d)
  \/ \E p \in Owners : \/ RecordSkip(p) \/ AcquireManual(p)
                       \/ Spawn(p) \/ SpawnFails(p) \/ Begin(p) \/ CheckLease(p)
                       \/ Plan(p) \/ FinishOk(p) \/ FinishErr(p) \/ ManualEnds(p)
                       \/ Crash(p)
  \/ Tick

Spec == Init /\ [][Next]_vars

-----------------------------------------------------------------------------

\* The row, the candidates and the runs have their types, and a lease has an
\* owner exactly when it has an expiry.
TypeOK ==
  /\ sched \in Schedule /\ now \in Nat
  /\ cand \in [Candidates -> {"absent", "stored", "marked", "decided"}]
  /\ run \in [Owners -> Run]
  /\ seen \subseteq Candidates /\ excused \subseteq Candidates /\ beyond \subseteq Candidates
  /\ sched.owner = None <=> sched.expires = 0

\* finish_autopilot_run clears the dirty mark only of work its plan has read:
\* when the row is clean, every candidate marked and still pending was planned
\* over by a run that settled the row, was given up by one that failed, or was
\* beyond the MAX_PENDING_SCAN of its section in one: that one nothing triages
\* until the next mark.
NoMarkForgotten ==
  ~sched.dirty =>
    \A c \in Candidates : cand[c] = "marked" => c \in seen \cup excused \cup beyond

Working == {p \in Owners : run[p].pc \in {"planning", "enabling", "manual", "manualEnd"}}

\* Two runs, in the background or by hand, touch the candidates at once only
\* if the lease of one of them has run out (the lease is not renewed).
OverlapOnlyAfterExpiry ==
  \A p, q \in Working : p = q \/ run[p].until < now \/ run[q].until < now
=============================================================================
