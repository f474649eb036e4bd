------------------------------- MODULE Outbox -------------------------------
(***************************************************************************)
(* The SQLite-backed outbox for fire-and-forget cloud uploads              *)
(* (crates/difflore-core/src/cloud/outbox.rs): the table cloud_outbox,     *)
(* shared by every difflore process on the machine, the circuit breaker    *)
(* each process keeps in memory, the drain loops that claim, upload and    *)
(* settle rows, and the local reviewers that approve or reject the         *)
(* session-mined candidates waiting in the table (memory_inbox.rs).        *)
(*                                                                         *)
(* Time.  The code compares timestamps only with "now minus a threshold",  *)
(* so the model keeps ages: how long ago a row was created or claimed,     *)
(* counted in ticks and saturating just past the largest threshold, and    *)
(* how long a breaker still stays open.  The wall clock is assumed not to  *)
(* run backwards, so ORDER BY created_at, id is the order of the ids.      *)
(***************************************************************************)
EXTENDS Integers, FiniteSets

CONSTANTS
  Procs,       \* processes that own an OutboxQueue handle: daemon, CLI, hooks
  Daemon,      \* the one whose loop drains for ever (infra/daemon.rs)
  Reviewers,   \* concurrent memory-inbox operations (user command, autopilot)
  NumRows,     \* rows that are ever inserted
  Kinds,       \* the payload kinds that are inserted, a subset of AllKinds
  Parses,      \* whether an inserted payload may be good or bad JSON: BOOLEAN
  MaxRetry,    \* MAX_RETRY_COUNT
  Threshold,   \* CIRCUIT_FAILURE_THRESHOLD
  OpenTicks,   \* CIRCUIT_OPEN_DURATION_MS
  Stale,       \* DEFAULT_STALE_SECONDS
  OlderThan,   \* the age given to `doctor --drain-abandoned`
  BatchSize,   \* MAX_OBSERVATION_BATCH
  MaxItems,    \* max_items of a drain call
  MaxFaults    \* bound: crashes and SQL errors in one behaviour

\* "trajectory" stands for trajectory, review_metrics and mcp_query, whose
\* handling is the same; "other" for a kind this version does not know.
AllKinds == {"trajectory", "observation", "accepted_edit",
             "session_mined_candidate", "fix_acceptance", "other"}
Retired == {"fix_acceptance"}     \* also imported_reviews: confirmed unsent

ASSUME OutboxAssumption ==
  /\ Daemon \in Procs
  /\ Kinds \subseteq AllKinds /\ Parses \subseteq BOOLEAN
  /\ NumRows \in Nat /\ MaxRetry \in Nat \ {0} /\ Threshold \in Nat \ {0}
  /\ OpenTicks \in Nat /\ Stale \in Nat /\ OlderThan \in Nat
  /\ BatchSize \in Nat \ {0} /\ MaxItems \in Nat \ {0} /\ MaxFaults \in Nat

Ids == 1..NumRows
NoId == 0
Null == -1
MaxAge == OlderThan + 1
MaxClaimAge == (IF Stale > OlderThan THEN Stale ELSE OlderThan) + 1

VARIABLES
  row,         \* the table cloud_outbox, by id
  received,    \* rows whose payload the cloud has accepted
  receipts,    \* rows with a line in accepted_edit_receipts
  rejected,    \* rows a reviewer deleted
  task,        \* the drain of each process (DRAIN_SERIALIZATION_LOCK: one)
  brk,         \* the breaker of each process's handle
  review,      \* the row each memory-inbox operation has looked up
  faults

vars == <<row, received, receipts, rejected, task, brk, review, faults>>
farVars == <<received, receipts, rejected>>

\* Columns: valid says that payload_json parses and validates, approved that
\* its $.localReview.status is 'approved'; age and claimAge are the times
\* since created_at and claimed_at.  Status "none" is a row not inserted yet.
Row == [status : {"none", "pending", "processing", "abandoned", "deleted"},
        kind : Kinds \cup {"none"}, valid : BOOLEAN, approved : BOOLEAN,
        retry : 0..MaxRetry, age : 0..MaxAge, claimAge : 0..MaxClaimAge \cup {Null}]

NoRow == [status |-> "none", kind |-> "none", valid |-> FALSE,
          approved |-> FALSE, retry |-> 0, age |-> 0, claimAge |-> Null]

\* Locals of a drain: the kind it wants, the rows it holds, the claims of this
\* batch and of the call, the outcome of the upload, and the row and the count
\* mark_failed is working with.
Task == [pc : {"idle", "claim", "post", "receipt", "settle", "failread", "failwrite"},
         want : Kinds \cup {"any"}, held : SUBSET Ids, taken : Nat,
         attempted : Nat, verdict : {"none", "ok", "fail"},
         cur : Ids \cup {NoId}, seen : 0..MaxRetry]

Idle == [pc |-> "idle", want |-> "any", held |-> {}, taken |-> 0,
         attempted |-> 0, verdict |-> "none", cur |-> NoId, seen |-> 0]

\* consecutive_failures, saturating at the threshold, and the time until
\* circuit_open_until_ms.
Breaker == [failures : 0..Threshold, openFor : 0..OpenTicks]
Closed == [failures |-> 0, openFor |-> 0]

-----------------------------------------------------------------------------
(* Reading the table                                                       *)

Exists(i) == row[i].status \notin {"none", "deleted"}

\* circuit_state(): an expired breaker reads as closed; its failure counter
\* stays, so the next failure opens it again.
BreakerOpen(p) == brk[p].openFor > 0

AnyProcessing(i) == row[i].status = "processing"   \* mutant: no age check
NeverStale(i) == FALSE                             \* mutant: no recovery

\* A claim that is older than DEFAULT_STALE_SECONDS.
IsStale(i) == /\ row[i].status = "processing"
              /\ row[i].claimAge # Null
              /\ row[i].claimAge > Stale

\* Mutant: the local review gate is missing.
ClaimableUngated(w) ==
  {i \in Ids : /\ row[i].status = "pending" \/ IsStale(i)
               /\ w = "any" \/ row[i].kind = w}

\* The WHERE clause of claim_next and claim_next_kind.
Claimable(w) ==
  {i \in Ids :
     /\ row[i].status = "pending" \/ IsStale(i)
     /\ w = "any" \/ row[i].kind = w
     /\ row[i].kind = "session_mined_candidate" => row[i].valid /\ row[i].approved}

Oldest(S) == CHOOSE i \in S : \A j \in S : i <= j

\* drain_observation_outbox_kind_report uploads a batch, drain_rows one row.
Limit(w) == IF w = "observation" THEN BatchSize ELSE 1

NextStatusLate(n) == IF n >= MaxRetry THEN "abandoned" ELSE "pending"  \* mutant

\* decide_retry (outbox_core.rs).  The count saturates at MaxRetry: beyond it
\* the decision is always to abandon.
NextStatus(n) == IF n + 1 >= MaxRetry THEN "abandoned" ELSE "pending"
NextCount(n) == IF n < MaxRetry THEN n + 1 ELSE n

-----------------------------------------------------------------------------
Init ==
  /\ row = [i \in Ids |-> NoRow]
  /\ received = {} /\ receipts = {} /\ rejected = {}
  /\ task = [p \in Procs |-> Idle]
  /\ brk = [p \in Procs |-> Closed]
  /\ review = [r \in Reviewers |-> NoId]
  /\ faults = 0

-----------------------------------------------------------------------------
(* Writers of the table outside a drain                                    *)

\* enqueue_with_outcome: AUTOINCREMENT hands out the next id.  With capture
\* disabled nothing is inserted and nothing changes.
Enqueue(i, k, v) ==
  /\ row[i].status = "none"
  /\ \A j \in 1..(i - 1) : row[j].status # "none"
  /\ row' = [row EXCEPT ![i] = [NoRow EXCEPT !.status = "pending",
                                             !.kind = k, !.valid = v]]
  /\ UNCHANGED <<farVars, task, brk, review, faults>>

\* DELETE FROM cloud_outbox WHERE id = i.  The payload columns are kept: a
\* drain that claimed the row goes on with its own copy of them.
Without(i) == [row EXCEPT ![i] = [@ EXCEPT !.status = "deleted", !.retry = 0,
                                           !.age = 0, !.claimAge = Null]]

\* reset_stale, run at startup and on each turn of the daemon.
ResetStale ==
  /\ \E i \in Ids : IsStale(i)
  /\ row' = [i \in Ids |->
               IF IsStale(i) THEN [row[i] EXCEPT !.status = "pending", !.claimAge = Null]
               ELSE row[i]]
  /\ UNCHANGED <<farVars, task, brk, review, faults>>

\* The WHERE clause of drain_abandoned_older_than: COALESCE(claimed_at,
\* created_at) against the cutoff.
Resurrectable(i) ==
  /\ row[i].status = "abandoned"
  /\ (IF row[i].claimAge # Null THEN row[i].claimAge ELSE row[i].age) > OlderThan

\* drain_abandoned_older_than, one transaction; the process that runs it
\* also forgets its breaker.
DrainAbandoned(p) ==
  /\ task[p].pc = "idle"
  /\ \E i \in Ids : Resurrectable(i)
  /\ row' = [i \in Ids |->
               IF Resurrectable(i)
               THEN [row[i] EXCEPT !.status = "pending", !.retry = 0, !.claimAge = Null]
               ELSE row[i]]
  /\ brk' = [brk EXCEPT ![p] = Closed]
  /\ UNCHANGED <<farVars, task, review, faults>>

\* find_session_mined_row_by_content_hash, the lookup both review operations
\* begin with; the row may change before they write.
ReviewFind(r, i) ==
  /\ review[r] = NoId
  /\ Exists(i)
  /\ row[i].kind = "session_mined_candidate" /\ row[i].valid /\ ~row[i].approved
  /\ review' = [review EXCEPT ![r] = i]
  /\ UNCHANGED <<row, farVars, task, brk, faults>>

\* mark_session_mined_locally_approved: an UPDATE by id that also requeues
\* the row; an error, and no change, when the row is gone.
ReviewApprove(r) ==
  LET i == review[r] IN
  /\ i # NoId
  /\ row' = IF Exists(i)
            THEN [row EXCEPT ![i].approved = TRUE, ![i].status = "pending",
                             ![i].retry = 0, ![i].claimAge = Null]
            ELSE row
  /\ review' = [review EXCEPT ![r] = NoId]
  /\ UNCHANGED <<farVars, task, brk, faults>>

\* reject_session_mined_candidate: DELETE by id.
ReviewReject(r) ==
  LET i == review[r] IN
  /\ i # NoId
  /\ row' = Without(i)
  /\ rejected' = IF Exists(i) THEN rejected \cup {i} ELSE rejected
  /\ review' = [review EXCEPT ![r] = NoId]
  /\ UNCHANGED <<received, receipts, task, brk, faults>>

-----------------------------------------------------------------------------
(* A drain: drain_outbox_report, drain_outbox_kind_report                  *)

\* A logged-in process enters the loop; w is the kind it drains.
\* The daemon drains rows of any kind; other processes also those of one kind.
Wants(p) == IF p = Daemon THEN {"any"} ELSE Kinds \cup {"any"}

StartDrain(p, w) ==
  /\ task[p].pc = "idle"
  /\ task' = [task EXCEPT ![p] = [Idle EXCEPT !.pc = "claim", !.want = w]]
  /\ UNCHANGED <<row, farVars, brk, review, faults>>

MayClaim(p) ==
  /\ task[p].attempted < MaxItems
  /\ task[p].taken < Limit(task[p].want)
  /\ ~BreakerOpen(p)
  /\ Claimable(task[p].want) # {}

\* claim_next / claim_next_kind: one UPDATE ... RETURNING.  A batch drain
\* parses the payload at once and fails a row that does not parse.
Claim(p) ==
  LET i == Oldest(Claimable(task[p].want))
      t == [task[p] EXCEPT !.attempted = @ + 1, !.taken = @ + 1]
      bad == t.want = "observation" /\ ~row[i].valid
  IN /\ task[p].pc = "claim"
     /\ MayClaim(p)
     /\ row' = [row EXCEPT ![i].status = "processing", ![i].claimAge = 0]
     /\ task' = [task EXCEPT ![p] =
                   IF bad THEN [t EXCEPT !.pc = "failread", !.cur = i]
                   ELSE [t EXCEPT !.held = @ \cup {i}]]
     /\ UNCHANGED <<farVars, brk, review, faults>>

\* Nothing more to claim for this turn: upload what is held, go round again
\* when no row of the batch parsed, or leave the loop.
EndClaims(p) ==
  LET t == task[p] IN
  /\ t.pc = "claim"
  /\ ~MayClaim(p)
  /\ task' = [task EXCEPT ![p] =
                IF t.held # {} THEN [t EXCEPT !.pc = "post", !.taken = 0]
                ELSE IF t.taken > 0 THEN [t EXCEPT !.taken = 0]
                ELSE Idle]
  /\ UNCHANGED <<row, farVars, brk, review, faults>>

\* Mutant: only a payload that cannot be sent counts as a failure.
SucceededIfSent(unsent, broken, answered) == ~broken

\* DispatchOutcome.ok
Succeeded(unsent, broken, answered) == unsent \/ (~broken /\ answered)

\* dispatch / post_observations_outcome.  A retired kind succeeds unsent, a
\* bad payload or unknown kind fails unsent; otherwise the request may be
\* accepted or not, and an accepted one may still lose its answer.
Post(p) ==
  /\ task[p].pc = "post"
  /\ \E accepted, answered \in BOOLEAN :
       LET h == task[p].held
           unsent == \A i \in h : row[i].kind \in Retired
           broken == \E i \in h : ~row[i].valid \/ row[i].kind = "other"
           edit   == \E i \in h : row[i].kind = "accepted_edit"
           ok     == Succeeded(unsent, broken, answered)
       IN /\ unsent \/ broken => ~accepted
          /\ answered => accepted
          /\ received' = IF accepted THEN received \cup h ELSE received
          /\ task' = [task EXCEPT
                        ![p].pc = IF ok /\ edit THEN "receipt" ELSE "settle",
                        ![p].verdict = IF ok THEN "ok" ELSE "fail"]
  /\ UNCHANGED <<row, receipts, rejected, brk, review, faults>>

\* accepted_edit_receipts::record_confirmed, before the row is confirmed.
RecordReceipt(p) ==
  /\ task[p].pc = "receipt"
  /\ receipts' = receipts \cup task[p].held
  /\ task' = [task EXCEPT ![p].pc = "settle"]
  /\ UNCHANGED <<row, received, rejected, brk, review, faults>>

\* The loop once row i is dealt with: the claim loop of a batch when i did not
\* parse, the next row held, the next turn, or the end (a batch that failed).
After(p, i) ==
  LET t == [task[p] EXCEPT !.held = @ \ {i}, !.cur = NoId, !.seen = 0] IN
  IF t.verdict = "none" THEN [t EXCEPT !.pc = "claim"]
  ELSE IF t.held # {} THEN [t EXCEPT !.pc = "settle"]
  ELSE IF t.verdict = "fail" /\ t.want = "observation" THEN Idle
  ELSE [t EXCEPT !.pc = "claim", !.verdict = "none"]

\* confirm: DELETE, and the failure counter starts again; the breaker itself
\* is left to expire.
Confirm(p) ==
  LET i == Oldest(task[p].held) IN
  /\ task[p].pc = "settle" /\ task[p].verdict = "ok"
  /\ row' = Without(i)
  /\ brk' = [brk EXCEPT ![p].failures = 0]
  /\ task' = [task EXCEPT ![p] = After(p, i)]
  /\ UNCHANGED <<farVars, review, faults>>

AtFailRead(p) ==
  task[p].pc = "failread" \/ (task[p].pc = "settle" /\ task[p].verdict = "fail")

\* The row mark_failed is called with.
Failing(p) ==
  IF task[p].pc = "settle" THEN Oldest(task[p].held) ELSE task[p].cur

\* mark_failed, first statement: SELECT retry_count.  A row that is gone is
\* left alone and the breaker does not tick.
MarkFailedRead(p) ==
  LET i == Failing(p) IN
  /\ AtFailRead(p)
  /\ task' = [task EXCEPT ![p] =
                IF Exists(i)
                THEN [@ EXCEPT !.pc = "failwrite", !.cur = i, !.seen = row[i].retry]
                ELSE After(p, i)]
  /\ UNCHANGED <<row, farVars, brk, review, faults>>

\* mark_failed, second statement: UPDATE by id with the count just read, then
\* the breaker ticks.
MarkFailedWrite(p) ==
  LET i == task[p].cur
      n == task[p].seen
      f == IF brk[p].failures < Threshold THEN brk[p].failures + 1 ELSE Threshold
  IN /\ task[p].pc = "failwrite"
     /\ row' = IF Exists(i)
               THEN [row EXCEPT ![i].status = NextStatus(n), ![i].retry = NextCount(n),
                                ![i].claimAge = Null]
               ELSE row
     /\ brk' = [brk EXCEPT ![p].failures = f,
                           ![p].openFor = IF f >= Threshold THEN OpenTicks ELSE @]
     /\ task' = [task EXCEPT ![p] = After(p, i)]
     /\ UNCHANGED <<farVars, review, faults>>

-----------------------------------------------------------------------------
(* Faults and time                                                         *)

\* Crashes and SQL errors are bounded by MaxFaults.
Fault == faults < MaxFaults /\ faults' = faults + 1

\* mark_failed's own SQL errors are dropped (let _ = ...): the row stays
\* 'processing' until it goes stale, and the loop goes on.
MarkFailedError(p) ==
  /\ Fault
  /\ AtFailRead(p) \/ task[p].pc = "failwrite"
  /\ task' = [task EXCEPT ![p] = After(p, Failing(p))]
  /\ UNCHANGED <<row, farVars, brk, review>>

\* Mutant: the row is confirmed although its receipt was not written.
ReceiptErrorIgnored(p) ==
  /\ Fault
  /\ task[p].pc = "receipt"
  /\ task' = [task EXCEPT ![p].pc = "settle"]
  /\ UNCHANGED <<row, farVars, brk, review>>

\* A receipt that cannot be written turns the upload into a failure.
ReceiptError(p) ==
  /\ Fault
  /\ task[p].pc = "receipt"
  /\ task' = [task EXCEPT ![p].pc = "settle", ![p].verdict = "fail"]
  /\ UNCHANGED <<row, farVars, brk, review>>

\* A SQL error in claim or confirm ends the drain (the ? operator).
DrainError(p) ==
  /\ Fault
  /\ task[p].pc = "claim" \/ (task[p].pc = "settle" /\ task[p].verdict = "ok")
  /\ task' = [task EXCEPT ![p] = Idle]
  /\ UNCHANGED <<row, farVars, brk, review>>

\* The process dies in the middle of a drain and a new one takes its place.
Crash(p) ==
  /\ Fault
  /\ task[p].pc # "idle"
  /\ task' = [task EXCEPT ![p] = Idle]
  /\ brk' = [brk EXCEPT ![p] = Closed]
  /\ UNCHANGED <<row, farVars, review>>

\* A command that ended is followed by another one with a fresh handle.
NewHandle(p) ==
  /\ task[p].pc = "idle" /\ brk[p] # Closed
  /\ brk' = [brk EXCEPT ![p] = Closed]
  /\ UNCHANGED <<row, farVars, task, review, faults>>

Grow(a, max) == IF a < max THEN a + 1 ELSE a

Aged(r) ==
  [r EXCEPT !.age = Grow(@, MaxAge),
            !.claimAge = IF @ = Null THEN Null ELSE Grow(@, MaxClaimAge)]

Tick ==
  /\ row' = [i \in Ids |-> IF Exists(i) THEN Aged(row[i]) ELSE row[i]]
  /\ brk' = [p \in Procs |-> [brk[p] EXCEPT !.openFor = IF @ > 0 THEN @ - 1 ELSE 0]]
  /\ UNCHANGED <<farVars, task, review, faults>>

-----------------------------------------------------------------------------
\* One step of a drain that is under way.
DrainStep(p) ==
  \/ Claim(p) \/ EndClaims(p) \/ Post(p) \/ RecordReceipt(p) \/ Confirm(p)
  \/ MarkFailedRead(p) \/ MarkFailedWrite(p)

Next ==
  \/ \E i \in Ids, k \in Kinds, v \in Parses : Enqueue(i, k, v)
  \/ \E p \in Procs :
       \/ \E w \in Wants(p) : StartDrain(p, w)
       \/ DrainStep(p)
       \/ MarkFailedError(p) \/ ReceiptError(p) \/ DrainError(p) \/ Crash(p)
       \/ NewHandle(p) \/ DrainAbandoned(p)
  \/ ResetStale
  \/ \E r \in Reviewers : \/ \E i \in Ids : ReviewFind(r, i)
                          \/ ReviewApprove(r) \/ ReviewReject(r)
  \/ Tick

Spec == Init /\ [][Next]_vars

\* The daemon starts a drain of every kind on each turn of its loop; a drain
\* that is under way in any process goes on, and time passes.
FairSpec ==
  /\ Spec
  /\ WF_vars(StartDrain(Daemon, "any"))
  /\ \A p \in Procs : WF_vars(DrainStep(p))
  /\ WF_vars(Tick)

-----------------------------------------------------------------------------
(* Properties                                                              *)

TypeOK ==
  /\ row \in [Ids -> Row]
  /\ received \subseteq Ids /\ receipts \subseteq Ids /\ rejected \subseteq Ids
  /\ task \in [Procs -> Task]
  /\ brk \in [Procs -> Breaker]
  /\ review \in [Reviewers -> Ids \cup {NoId}]
  /\ faults \in 0..MaxFaults

\* "The queue chooses at-least-once delivery over permanent local data loss"
\* (outbox.rs:28-29): whatever the interleaving of drains, crashes and lost
\* answers, a row leaves the table only when the cloud has accepted its
\* payload, its kind is retired, or the user rejected it.
NoSilentLoss ==
  \A i \in Ids : row[i].status = "deleted" =>
    i \in received \/ row[i].kind \in Retired \/ i \in rejected

\* A session-mined candidate reaches the cloud only after a local approval,
\* although approval, rejection, claims and retries race (claim_next's gate,
\* outbox.rs:413-419).
OnlyApprovedUploaded ==
  \A i \in received : row[i].kind = "session_mined_candidate" => row[i].approved

\* An accepted edit that left the table by being confirmed has its receipt,
\* however often the upload was repeated (drain_rows, outbox.rs:884-896).
ConfirmedEditHasReceipt ==
  \A i \in Ids : row[i].status = "deleted" /\ row[i].kind = "accepted_edit" => i \in receipts

\* The retry budget and the status never disagree, although mark_failed
\* writes both from a count it read earlier (outbox.rs:497-533).
RetryMatchesStatus ==
  \A i \in Ids :
    /\ row[i].status \in {"pending", "processing"} => row[i].retry < MaxRetry
    /\ row[i].status = "abandoned" => row[i].retry = MaxRetry

\* "flip it to `abandoned` - we keep the row for diagnostics but will never
\* re-claim it" (outbox.rs:492-493): an abandoned row becomes claimable again
\* only when the user resurrects it or approves the candidate in it.
AbandonedStaysAbandoned ==
  [][\A i \in Ids : row[i].status = "abandoned" /\ row'[i].status = "pending" =>
       \/ \E p \in Procs : DrainAbandoned(p)
       \/ \E r \in Reviewers : review[r] = i]_vars

\* A row that no review holds back ends up delivered or abandoned, whatever
\* process claimed it and died, and however the breaker opens meanwhile.
Settled(i) == row[i].status \in {"deleted", "abandoned"}
Ready(i) == /\ row[i].status \in {"pending", "processing"}
            /\ row[i].kind = "session_mined_candidate" => row[i].valid /\ row[i].approved
EveryRowSettles == \A i \in Ids : Ready(i) ~> Settled(i)

=============================================================================
