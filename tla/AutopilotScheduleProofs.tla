---------------------- MODULE AutopilotScheduleProofs ----------------------
(***************************************************************************)
(* What AutopilotSchedule promises for any number of lease owners and      *)
(* candidates, any lease and cooldown, and any horizon.                    *)
(***************************************************************************)
EXTENDS AutopilotSchedule, TLAPS

\* The stations of a process between taking the lease and ending.
Owning == {"acquired", "spawned", "begun", "planning", "enabling", "manual", "manualEnd"}

\* A process past its acquisition holds the lease until its own expiry.
HoldsUntilExpiry ==
  \A p \in Owners : run[p].pc \in Owning =>
    run[p].until < now \/ (sched.owner = p /\ sched.expires = run[p].until)

\* Marks carry a date, and the dates of runs are past.
Dated ==
  /\ now # 0
  /\ \A c \in Candidates : cand[c] = "marked" => sched.dirtyAt # 0
  /\ \A p \in Owners : run[p].started <= now

\* Marked work a plan has missed was marked at or after the run's start.
PlansCover ==
  \A p \in Owners : run[p].pc = "enabling" =>
    \A c \in Candidates :
      cand[c] = "marked" =>
        c \in run[p].plan \cup run[p].left \/ run[p].started <= sched.dirtyAt

\* The inductive invariant.
Inv == TypeOK /\ HoldsUntilExpiry /\ Dated /\ PlansCover /\ NoMarkForgotten

\* An edit of one run's record leaves the records well typed.
LEMMA RunEdit ==
  ASSUME NEW p \in Owners, NEW r \in Run, run \in [Owners -> Run], Go(p, r)
  PROVE  /\ run' \in [Owners -> Run] /\ run'[p] = r
         /\ \A q \in Owners : q # p => run'[q] = run[q]
BY DEF Go

\* The record of an owner that does nothing is well typed.
LEMMA IdleRun == Idle \in Run
BY DEF Idle, Run, PCs, Reasons

\* The invariant holds at the start.
LEMMA InitInv == Init => Inv
<1> SUFFICES ASSUME Init PROVE Inv
  OBVIOUS
<1>1. TypeOK
  BY IdleRun DEF Init, TypeOK, Schedule, Reasons
<1>2. QED
  BY <1>1 DEF Init, Inv, Idle, HoldsUntilExpiry, Dated, PlansCover, NoMarkForgotten, Owning

\* Storing, marking and deciding candidates preserve the invariant.
LEMMA WorkInv ==
  ASSUME Inv, NEW c \in Candidates, Store(c) \/ MarkDirty(c) \/ Decide(c)
  PROVE  Inv'
<1>1. TypeOK'
  <2>1. cand' \in [Candidates -> {"absent", "stored", "marked", "decided"}]
    BY DEF Inv, TypeOK, Store, MarkDirty, Decide
  <2>2. /\ sched' \in Schedule
        /\ sched'.owner = sched.owner /\ sched'.expires = sched.expires
    <3>1. CASE MarkDirty(c)
      BY <3>1 DEF Inv, TypeOK, MarkDirty, Schedule
    <3>2. CASE Store(c) \/ Decide(c)
      BY <3>2 DEF Inv, TypeOK, Store, Decide
    <3>3. QED
      BY <3>1, <3>2
  <2>3. UNCHANGED <<now, run, seen, excused, beyond>>
    BY DEF Store, MarkDirty, Decide
  <2>4. QED
    BY <2>1, <2>2, <2>3 DEF Inv, TypeOK
<1>2. /\ HoldsUntilExpiry' /\ Dated' /\ PlansCover' /\ NoMarkForgotten'
  <2>1. CASE Store(c)
    BY <2>1 DEF Inv, TypeOK, Store, HoldsUntilExpiry, Dated, PlansCover, NoMarkForgotten
  <2>2. CASE MarkDirty(c)
    <3>1. /\ sched'.dirty = TRUE /\ sched'.dirtyAt = now /\ sched'.owner = sched.owner
          /\ sched'.expires = sched.expires /\ now' = now /\ run' = run
      BY <2>2 DEF MarkDirty, Inv, TypeOK, Schedule
    <3>2. HoldsUntilExpiry'
      BY <3>1 DEF Inv, HoldsUntilExpiry
    <3>3. Dated'
      BY <3>1 DEF Inv, Dated
    <3>4. PlansCover' /\ NoMarkForgotten'
      BY <3>1 DEF Inv, Dated, PlansCover, NoMarkForgotten
    <3>5. QED
      BY <3>2, <3>3, <3>4
  <2>3. CASE Decide(c)
    BY <2>3 DEF Inv, TypeOK, Decide, HoldsUntilExpiry, Dated, PlansCover, NoMarkForgotten
  <2>4. QED
    BY <2>1, <2>2, <2>3
<1>3. QED
  BY <1>1, <1>2 DEF Inv

\* Taking the lease, for a background run or by hand.
LEMMA AcquireInv ==
  ASSUME Inv, NEW p \in Owners,
         \/ \E d \in Cooldowns : TryAcquire(p, d)
         \/ AcquireManual(p)
  PROVE  Inv'
<1>n. now \in Nat /\ sched \in Schedule /\ now + Lease \in Nat
  BY ScheduleAssumption DEF Inv, TypeOK
<1>0. PICK at \in {"acquired", "manual"} : Go(p, [Idle EXCEPT !.pc = at, !.until = now + Lease])
  BY DEF TryAcquire, AcquireManual
<1> DEFINE r == [Idle EXCEPT !.pc = at, !.until = now + Lease]
<1>1. r \in Run
  BY <1>n DEF Idle, Run, PCs, Reasons
<1>2. /\ Go(p, r) /\ LeaseFree
      /\ UNCHANGED <<now, cand, seen, excused, beyond>>
  BY <1>0 DEF TryAcquire, AcquireManual
<1>3. /\ sched' \in Schedule /\ sched'.owner = p /\ sched'.expires = now + Lease
      /\ sched'.dirty = sched.dirty /\ sched'.dirtyAt = sched.dirtyAt
  <2>1. CASE AcquireManual(p)
    BY <2>1, <1>n DEF AcquireManual, Leased, Schedule
  <2>2. CASE \E d \in Cooldowns : TryAcquire(p, d)
    BY <2>2, <1>n DEF TryAcquire, Leased, Schedule, Reasons
  <2>3. QED
    BY <2>1, <2>2
<1>4. /\ run' \in [Owners -> Run] /\ run'[p] = r
      /\ \A q \in Owners : q # p => run'[q] = run[q]
  BY <1>1, <1>2, RunEdit DEF Inv, TypeOK
<1>5. r.until = now + Lease /\ r.started = 0 /\ r.pc \in {"acquired", "manual"}
  BY DEF Idle
<1> HIDE DEF r
<1>6. TypeOK'
  BY <1>2, <1>3, <1>4, ScheduleAssumption DEF Inv, TypeOK
<1>7. HoldsUntilExpiry'
  BY <1>2, <1>3, <1>4, <1>5, ScheduleAssumption
     DEF Inv, TypeOK, HoldsUntilExpiry, LeaseFree, Run, Schedule
<1>8. Dated' /\ PlansCover' /\ NoMarkForgotten'
  BY <1>2, <1>3, <1>4, <1>5 DEF Inv, TypeOK, Dated, PlansCover, NoMarkForgotten
<1>9. QED
  BY <1>6, <1>7, <1>8 DEF Inv

\* An owner that ends, or goes on, without touching the lease or the mark.
LEMMA OnwardInv ==
  ASSUME Inv, NEW p \in Owners, NEW r \in Run, Go(p, r),
         UNCHANGED <<now, cand, seen, excused, beyond>>,
         \E w \in Reasons : sched' = [sched EXCEPT !.skip = w],
         r.started <= now,
         r.pc \in Owning => run[p].pc \in Owning /\ r.until = run[p].until,
         r.pc = "enabling" =>
           \A c \in Candidates : cand[c] = "marked" => c \in r.plan \cup r.left
  PROVE  Inv'
<1>1. /\ run' \in [Owners -> Run] /\ run'[p] = r
      /\ \A q \in Owners : q # p => run'[q] = run[q]
  BY RunEdit DEF Inv, TypeOK
<1>2. /\ sched' \in Schedule /\ sched'.owner = sched.owner
      /\ sched'.expires = sched.expires
      /\ sched'.dirty = sched.dirty /\ sched'.dirtyAt = sched.dirtyAt
  BY DEF Inv, TypeOK, Schedule
<1>3. TypeOK'
  BY <1>1, <1>2 DEF Inv, TypeOK
<1>4. HoldsUntilExpiry'
  BY <1>1, <1>2 DEF Inv, HoldsUntilExpiry
<1>5. Dated' /\ PlansCover' /\ NoMarkForgotten'
  BY <1>1, <1>2 DEF Inv, Dated, PlansCover, NoMarkForgotten
<1>6. QED
  BY <1>3, <1>4, <1>5 DEF Inv

\* The steps of a run before it settles the row.
LEMMA StepInv ==
  ASSUME Inv, NEW p \in Owners,
         \/ \E d \in Cooldowns : TryRefused(p, d)
         \/ RecordSkip(p) \/ Spawn(p) \/ Begin(p) \/ CheckLease(p) \/ Plan(p) \/ Crash(p)
  PROVE  Inv'
<1>r. run[p] \in Run
  BY DEF Inv, TypeOK
<1>s. sched \in Schedule /\ now \in Nat /\ run[p].started <= now
  BY DEF Inv, TypeOK, Dated
<1>i. Idle.pc = "idle" /\ Idle.started = 0 /\ "idle" \notin Owning /\ "skipping" \notin Owning
  BY DEF Idle, Owning
<1>k. ASSUME sched' = sched PROVE \E w \in Reasons : sched' = [sched EXCEPT !.skip = w]
  <2>1. sched.skip \in Reasons /\ sched = [sched EXCEPT !.skip = sched.skip]
    BY <1>s DEF Schedule
  <2>2. QED
    BY <2>1, <1>k
<1>j. \A d : SkipReason(d) \in Reasons
  BY DEF SkipReason, Reasons
<1>1. CASE \E d \in Cooldowns : TryRefused(p, d)
  <2>1. PICK d \in Cooldowns : TryRefused(p, d)
    BY <1>1
  <2> DEFINE r == [Idle EXCEPT !.pc = "skipping", !.cooldown = d]
  <2>2. r \in Run /\ r.pc = "skipping" /\ r.started = 0
    BY <1>j DEF Idle, Run, PCs, Reasons
  <2>3. Go(p, r) /\ sched' = sched /\ UNCHANGED <<now, cand, seen, excused, beyond>>
    BY <2>1 DEF TryRefused
  <2> HIDE DEF r
  <2>4. QED
    BY <2>2, <2>3, <1>i, <1>k, <1>s, OnwardInv
<1>2. CASE RecordSkip(p)
  BY <1>2, <1>i, <1>j, <1>s, IdleRun, OnwardInv DEF RecordSkip
<1>3. CASE Spawn(p)
  <2> DEFINE r == [run[p] EXCEPT !.pc = "spawned"]
  <2>1. r \in Run /\ r.pc = "spawned" /\ r.started = run[p].started /\ r.until = run[p].until
    BY <1>r DEF Run, PCs
  <2>2. Go(p, r) /\ sched' = sched /\ UNCHANGED <<now, cand, seen, excused, beyond>> /\ run[p].pc \in Owning
    BY <1>3 DEF Spawn, Owning
  <2> HIDE DEF r
  <2>3. QED
    BY <2>1, <2>2, <1>k, <1>s, OnwardInv
<1>4. CASE Begin(p)
  <2> DEFINE r == [run[p] EXCEPT !.pc = "begun", !.started = now]
  <2>1. r \in Run /\ r.pc = "begun" /\ r.started = now /\ r.until = run[p].until
    BY <1>r, <1>s DEF Run, PCs
  <2>2. Go(p, r) /\ sched' = sched /\ UNCHANGED <<now, cand, seen, excused, beyond>> /\ run[p].pc \in Owning
    BY <1>4 DEF Begin, Owning
  <2> HIDE DEF r
  <2>3. QED
    BY <2>1, <2>2, <1>k, <1>s, OnwardInv
<1>5. CASE CheckLease(p)
  <2> DEFINE r == [run[p] EXCEPT !.pc = "planning"]
  <2>1. r \in Run /\ r.pc = "planning" /\ r.started = run[p].started /\ r.until = run[p].until
    BY <1>r DEF Run, PCs
  <2>2. /\ Go(p, r) \/ Go(p, Idle)
        /\ sched' = sched /\ UNCHANGED <<now, cand, seen, excused, beyond>> /\ run[p].pc \in Owning
    BY <1>5 DEF CheckLease, Owning
  <2> HIDE DEF r
  <2>3. CASE Go(p, r)
    BY <2>1, <2>2, <2>3, <1>k, <1>s, OnwardInv
  <2>4. CASE Go(p, Idle)
    BY <2>2, <2>4, <1>i, <1>k, <1>s, IdleRun, OnwardInv
  <2>5. QED
    BY <2>2, <2>3, <2>4
<1>6. CASE Plan(p)
  <2>0. PICK S \in Scans :
          Go(p, [run[p] EXCEPT !.pc = IF @ = "planning" THEN "enabling" ELSE "manualEnd",
                               !.plan = S, !.left = {c \in Pending \ S : Full(S, c)}])
    BY <1>6 DEF Plan
  <2> DEFINE L == {c \in Pending \ S : Full(S, c)}
  <2> DEFINE r == [run[p] EXCEPT !.pc = IF @ = "planning" THEN "enabling" ELSE "manualEnd",
                                 !.plan = S, !.left = L]
  <2>1. Pending \subseteq Candidates /\ S \subseteq Pending /\ L \subseteq Pending
    BY DEF Pending, Scans
  <2>2. \A c \in Candidates : cand[c] = "marked" => c \in S \cup L
    BY DEF Pending, Scans
  <2>3. Go(p, r) /\ sched' = sched /\ UNCHANGED <<now, cand, seen, excused, beyond>> /\ run[p].pc \in Owning
    BY <1>6, <2>0 DEF Plan, Owning
  <2> HIDE DEF L
  <2>4. /\ r \in Run /\ r.pc \in {"enabling", "manualEnd"} /\ r.plan = S /\ r.left = L
        /\ r.started = run[p].started /\ r.until = run[p].until
    BY <1>r, <2>1 DEF Run, PCs
  <2> HIDE DEF r
  <2>5. QED
    BY <2>2, <2>3, <2>4, <1>k, <1>s, OnwardInv
<1>7. CASE Crash(p)
  BY <1>7, <1>i, <1>k, <1>s, IdleRun, OnwardInv DEF Crash
<1>8. QED
  BY <1>1, <1>2, <1>3, <1>4, <1>5, <1>6, <1>7

\* An owner that lets go of the lease, if it still has it.
LEMMA LetGoInv ==
  ASSUME Inv, NEW p \in Owners, Go(p, Idle), UNCHANGED <<now, cand>>, Holds(p),
         sched' \in Schedule, sched'.owner = None, sched'.expires = 0,
         sched'.dirtyAt = sched.dirtyAt,
         seen' \subseteq Candidates, excused' \subseteq Candidates, beyond' \subseteq Candidates,
         seen \subseteq seen', excused \subseteq excused', beyond \subseteq beyond',
         ~sched'.dirty => \/ ~sched.dirty
                          \/ \A c \in Candidates :
                               cand[c] = "marked" => c \in seen' \cup excused' \cup beyond'
  PROVE  Inv'
<1>1. /\ run' \in [Owners -> Run] /\ run'[p] = Idle
      /\ \A q \in Owners : q # p => run'[q] = run[q]
  BY RunEdit, IdleRun DEF Inv, TypeOK
<1>2. Idle.pc = "idle" /\ Idle.started = 0
  BY DEF Idle
<1>3. TypeOK'
  BY <1>1 DEF Inv, TypeOK
<1>4. HoldsUntilExpiry'
  BY <1>1, <1>2 DEF Inv, HoldsUntilExpiry, Holds, Owning
<1>5. Dated' /\ PlansCover'
  BY <1>1, <1>2 DEF Inv, TypeOK, Dated, PlansCover
<1>6. NoMarkForgotten'
  BY DEF Inv, NoMarkForgotten
<1>7. QED
  BY <1>3, <1>4, <1>5, <1>6 DEF Inv

\* Releasing the lease and settling the row preserve the invariant.
LEMMA EndInv ==
  ASSUME Inv, NEW p \in Owners,
         SpawnFails(p) \/ ManualEnds(p) \/ FinishOk(p) \/ FinishErr(p)
  PROVE  Inv'
<1>s. sched \in Schedule /\ now \in Nat /\ run[p] \in Run
  BY DEF Inv, TypeOK
<1>i. Go(p, Idle) /\ UNCHANGED <<now, cand>>
  BY DEF SpawnFails, ManualEnds, FinishOk, FinishErr
<1>1. CASE ~Holds(p)
  <2>1. sched' = sched /\ seen' = seen /\ excused' = excused /\ beyond' = beyond
    BY <1>1 DEF SpawnFails, ManualEnds, FinishOk, FinishErr, Release
  <2>2. sched.skip \in Reasons /\ sched = [sched EXCEPT !.skip = sched.skip]
    BY <1>s DEF Schedule
  <2>3. Idle.pc = "idle" /\ Idle.started = 0 /\ "idle" \notin Owning
    BY DEF Idle, Owning
  <2>4. QED
    BY <2>1, <2>2, <2>3, <1>i, <1>s, IdleRun, OnwardInv
<1>2. CASE Holds(p)
  <2>1. CASE SpawnFails(p) \/ ManualEnds(p)
    <3>1. PICK w \in Reasons : sched' = [Unlocked(sched) EXCEPT !.skip = w]
      BY <1>2, <2>1 DEF SpawnFails, ManualEnds, Release, Reasons
    <3>2. /\ sched' \in Schedule /\ sched'.owner = None /\ sched'.expires = 0
          /\ sched'.dirtyAt = sched.dirtyAt /\ sched'.dirty = sched.dirty
      BY <3>1, <1>s DEF Unlocked, Schedule
    <3>3. /\ seen' = seen /\ excused' = excused /\ beyond' = beyond
          /\ seen \subseteq Candidates /\ excused \subseteq Candidates /\ beyond \subseteq Candidates
      BY <2>1 DEF SpawnFails, ManualEnds, Inv, TypeOK
    <3>4. QED
      BY <3>2, <3>3, <1>2, <1>i, LetGoInv
  <2>2. CASE FinishOk(p) \/ FinishErr(p)
    <3>1. /\ sched' = Settled(p)
          /\ seen \subseteq Candidates /\ excused \subseteq Candidates /\ beyond \subseteq Candidates
          /\ run[p].plan \subseteq Candidates /\ run[p].left \subseteq Candidates
      BY <1>2, <1>s, <2>2 DEF FinishOk, FinishErr, Inv, TypeOK, Run
    <3>2. /\ sched' \in Schedule /\ sched'.owner = None /\ sched'.expires = 0
          /\ sched'.dirtyAt = sched.dirtyAt
          /\ sched'.dirty = IF Older(p) THEN FALSE ELSE sched.dirty
      BY <3>1, <1>s DEF Settled, Unlocked, Schedule, Reasons
    <3>3. CASE FinishOk(p)
      <4>1. /\ seen' = seen \cup run[p].plan /\ beyond' = beyond \cup run[p].left
            /\ excused' = excused /\ run[p].pc = "enabling"
        BY <1>2, <3>3 DEF FinishOk
      <4>2. Older(p) => \A c \in Candidates : cand[c] = "marked" => c \in seen' \cup beyond'
        BY <4>1, <1>s DEF Older, Inv, Dated, PlansCover, Run, Schedule
      <4>3. QED
        BY <3>1, <3>2, <4>1, <4>2, <1>2, <1>i, LetGoInv
    <3>4. CASE FinishErr(p)
      <4>1. /\ seen' = seen /\ beyond' = beyond /\ excused \subseteq excused' /\ excused' \subseteq Candidates
            /\ Older(p) => \A c \in Candidates : cand[c] = "marked" => c \in excused'
        BY <1>2, <3>1, <3>4 DEF FinishErr
      <4>2. QED
        BY <3>1, <3>2, <4>1, <1>2, <1>i, LetGoInv
    <3>5. QED
      BY <2>2, <3>3, <3>4
  <2>3. QED
    BY <2>1, <2>2
<1>3. QED
  BY <1>1, <1>2

\* Time only lets leases run out.
LEMMA TickInv == ASSUME Inv, Tick PROVE Inv'
BY DEF Inv, Tick, TypeOK, HoldsUntilExpiry, Dated, PlansCover, NoMarkForgotten, Run

\* The invariant is inductive: every lease, mark and plan of a reachable state
\* of the scheduler obeys it.
THEOREM Invariance == Spec => []Inv
<1>1. Inv /\ [Next]_vars => Inv'
  <2> SUFFICES ASSUME Inv, [Next]_vars PROVE Inv'
    OBVIOUS
  <2>1. CASE UNCHANGED vars
    BY <2>1 DEF vars, Inv, TypeOK, HoldsUntilExpiry, Dated, PlansCover, NoMarkForgotten
  <2>2. CASE Next
    BY <2>2, WorkInv, AcquireInv, StepInv, EndInv, TickInv DEF Next
  <2>3. QED
    BY <2>1, <2>2
<1>2. QED
  BY <1>1, InitInv, PTL DEF Spec

\* finish_autopilot_run never clears the mark of work its plan did not read,
\* except at the end of a failed run, or of what was beyond the full scan of its
\* section.
THEOREM MarksAreKept == Spec => []NoMarkForgotten
<1>1. Inv => NoMarkForgotten
  BY DEF Inv
<1>2. QED
  BY <1>1, Invariance, PTL

\* Runs overlap only when a lease has run out, whatever crashes and late
\* starts came before.
THEOREM RunsAreExclusive == Spec => []OverlapOnlyAfterExpiry
<1>1. Inv => OverlapOnlyAfterExpiry
  BY DEF Inv, HoldsUntilExpiry, OverlapOnlyAfterExpiry, Working, Owning
<1>2. QED
  BY <1>1, Invariance, PTL

\* The schedule row keeps its type, lease owner and expiry in step.
THEOREM ScheduleTyped == Spec => []TypeOK
<1>1. Inv => TypeOK
  BY DEF Inv
<1>2. QED
  BY <1>1, Invariance, PTL
=============================================================================
