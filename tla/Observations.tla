---------------------------- MODULE Observations ----------------------------
(***************************************************************************)
(* The observation queue (crates/difflore-core/src/cloud/observations/):   *)
(* the table observation_events, shared by every process of the machine,   *)
(* and flush_to_cloud, which claims a batch under a lease, uploads it in   *)
(* one request, isolates the rows of a batch the cloud refuses, and keeps  *)
(* the table under a hard cap.                                             *)
(*                                                                         *)
(* The lease is next_attempt_at_ms itself, so the model keeps the clock.   *)
(* retry_count only selects the length of a delay, here any of Delays, and *)
(* is left out.  The clock is assumed not to run backwards, so that        *)
(* ORDER BY created_at_ms, id is the order of the ids; a tick is longer    *)
(* than the 5 s over which unparked rows are spread.                       *)
(***************************************************************************)
EXTENDS Integers, FiniteSets

CONSTANTS
  AllProcs,     \* concurrent users of an ObservationEmitter
  NumRows,      \* rows that are ever inserted
  Lease,        \* CLAIM_LEASE_MS
  Delays,       \* the delays of a reschedule: backoff or Retry-After, jittered
  MaxAge,       \* OBSERVATION_MAX_AGE_MS
  OlderThan,    \* the age given to `doctor --drain-abandoned`
  UnparkLimit,  \* UNPARK_ON_SUCCESS_LIMIT
  Settings      \* the settings a behaviour may have

\* A good event, one the cloud refuses, and one that no longer decodes.
AllPayloads == {"good", "refused", "garbled"}

\* The processes and payloads of a behaviour, MAX_FLUSH_BATCH, MAX_QUEUE_ROWS,
\* and three bounds: where the clock stops, how often the cloud starts or stops
\* refusing everything, and the number of crashes and SQL errors.
Setting == [procs : SUBSET AllProcs, payloads : SUBSET AllPayloads, batch : Nat \ {0},
            cap : Nat, maxTime : Nat, maxDrifts : Nat, maxFaults : Nat]

ASSUME ObservationsAssumption ==
  /\ NumRows \in Nat /\ Lease \in Nat \ {0} /\ Delays \subseteq Nat \ {0} /\ Delays # {}
  /\ IsFiniteSet(AllProcs) /\ MaxAge \in Nat /\ OlderThan \in Nat /\ UnparkLimit \in Nat
  /\ \A s \in Settings : s \in Setting

Ids == 1..NumRows

VARIABLES
  setting,   \* the setting of the behaviour, which never changes
  row,       \* the table observation_events, by id
  received,  \* rows the cloud has accepted
  flush,     \* the flush or enqueue each process is in
  now,       \* now_unix_ms()
  drift,     \* the cloud refuses every request with a 4xx
  claimer,   \* history: the process that claimed each row last
  drifts, faults

vars == <<setting, row, received, flush, now, drift, claimer, drifts, faults>>

Procs == setting.procs
Payloads == setting.payloads
BatchSize == setting.batch
Cap == setting.cap
envVars == <<setting, now, drift, drifts>>

\* next is next_attempt_at_ms, the lease while the row is 'sending'.
Row == [status : {"none", "pending", "sending", "parked", "sent", "abandoned", "deleted"},
        payload : AllPayloads \cup {"none"}, next : Nat, created : Nat]
NoRow == [status |-> "none", payload |-> "none", next |-> 0, created |-> 0]

\* DeliveryClass
Classes == {"transient", "limited", "auth", "invalid"}

\* Locals of a flush: the lease and size of its claim, whether the batch was
\* posted, the rows still to be posted, those whose 4xx is not yet believed
\* (pending_permanent), those to be marked sent or failed next, the class of
\* that failure, and whether any row got through.  level and over belong to
\* cap_queue; steady is history: drift has not changed since the claim.
Flush == [pc : {"idle", "post", "each", "settle", "unpark", "capcount", "capdelete"},
          lease : Nat, size : Nat, posted : BOOLEAN, left : SUBSET Ids,
          doubt : SUBSET Ids, win : SUBSET Ids, fail : SUBSET Ids, class : Classes,
          sent : BOOLEAN, level : {"sent", "abandoned", "any"}, over : Nat,
          steady : BOOLEAN]
Idle == [pc |-> "idle", lease |-> 0, size |-> 0, posted |-> FALSE, left |-> {},
         doubt |-> {}, win |-> {}, fail |-> {}, class |-> "transient",
         sent |-> FALSE, level |-> "sent", over |-> 0, steady |-> TRUE]
Capping == [Idle EXCEPT !.pc = "capcount"]

-----------------------------------------------------------------------------
Exists(i) == row[i].status \notin {"none", "deleted"}
WithStatus(S) == {i \in Ids : row[i].status \in S}
Table == {i \in Ids : Exists(i)}

\* ORDER BY created_at_ms ASC, id ASC LIMIT n
Oldest(S, n) == {i \in S : Cardinality({j \in S : j < i}) < n}

AllClaimable == WithStatus({"pending", "sending"})   \* mutant: lease not honoured

\* The rows a flush may claim: due, or left behind under an expired lease.
Claimable == {i \in WithStatus({"pending", "sending"}) : row[i].next <= now}

\* The cloud's failures: no usable answer, and the status codes told apart.
Failures == {"transport", "500", "408", "429", "403", "422"}

\* classify
Classify(f) ==
  CASE f = "429" -> "limited"
    [] f = "403" -> "auth"
    [] f = "422" -> "invalid"
    [] OTHER -> "transient"

NoFence(p, i) == Exists(i)                     \* mutant: an UPDATE by id

\* The WHERE clause of reschedule, park and abandon.
Fence(p, i) == row[i].status = "sending" /\ row[i].next = flush[p].lease

AgedOut(i) == now - row[i].created > MaxAge

\* Mutant: a status that no query selects.
FailedBlocked(r, c, aged, d) == [r EXCEPT !.status = "blocked"]

\* mark_failed_with_class: the row after a failure of class c; d is the delay.
Failed(r, c, aged, d) ==
  CASE c = "auth" -> [r EXCEPT !.status = "parked"]
    [] c = "invalid" -> [r EXCEPT !.status = "abandoned"]
    [] OTHER -> IF aged THEN [r EXCEPT !.status = "abandoned"]
                ELSE [r EXCEPT !.status = "pending", !.next = now + d]

-----------------------------------------------------------------------------
Init ==
  /\ setting \in Settings
  /\ row = [i \in Ids |-> NoRow]
  /\ received = {}
  /\ flush = [p \in AllProcs |-> Idle]
  /\ now = 0 /\ drift = FALSE
  /\ claimer = [i \in Ids |-> {}]
  /\ drifts = 0 /\ faults = 0

\* enqueue: INSERT, then cap_queue.
Enqueue(p, i, v) ==
  /\ flush[p].pc = "idle"
  /\ row[i].status = "none"
  /\ \A j \in 1..(i - 1) : row[j].status # "none"
  /\ row' = [row EXCEPT ![i] = [status |-> "pending", payload |-> v,
                                next |-> now, created |-> now]]
  /\ flush' = [flush EXCEPT ![p] = Capping]
  /\ UNCHANGED <<received, envVars, claimer, faults>>

\* retry_pending_uploads_now, after a login or an explicit sync.
RetryNow ==
  /\ row' = [i \in Ids |->
               IF row[i].status = "parked" \/ (row[i].status = "pending" /\ row[i].next > now)
               THEN [row[i] EXCEPT !.status = "pending", !.next = now]
               ELSE row[i]]
  /\ row' # row
  /\ UNCHANGED <<received, flush, envVars, claimer, faults>>

\* drain_abandoned_older_than, one transaction.
DrainAbandoned ==
  LET S == {i \in WithStatus({"abandoned"}) : row[i].created + OlderThan < now} IN
  /\ S # {}
  /\ row' = [i \in Ids |-> IF i \in S
                           THEN [row[i] EXCEPT !.status = "pending", !.next = now]
                           ELSE row[i]]
  /\ UNCHANGED <<received, flush, envVars, claimer, faults>>

-----------------------------------------------------------------------------
(* flush_to_cloud                                                          *)

\* Once nothing is left to mark: post the batch, go on isolating, give the
\* doubtful rows the benefit of the doubt, or finish.
Onward(f) ==
  IF f.win # {} \/ f.fail # {} THEN f
  ELSE IF ~f.posted THEN IF f.left = {} THEN Idle ELSE [f EXCEPT !.pc = "post"]
  ELSE IF f.left # {} THEN [f EXCEPT !.pc = "each"]
  ELSE IF f.doubt # {} THEN [f EXCEPT !.fail = f.doubt, !.doubt = {}, !.class = "transient"]
  ELSE IF f.sent THEN [f EXCEPT !.pc = "unpark"]
  ELSE Capping

\* The claim: one UPDATE ... RETURNING.  Rows that do not decode are
\* abandoned one by one before the rest is posted.
Claim(p) ==
  LET S == Oldest(Claimable, BatchSize)
      garbled == {i \in S : row[i].payload = "garbled"}
  IN /\ flush[p].pc = "idle"
     /\ S # {}
     /\ row' = [i \in Ids |-> IF i \in S
                              THEN [row[i] EXCEPT !.status = "sending", !.next = now + Lease]
                              ELSE row[i]]
     /\ claimer' = [i \in Ids |-> IF i \in S THEN {p} ELSE claimer[i]]
     /\ flush' = [flush EXCEPT ![p] =
                    Onward([Idle EXCEPT !.pc = "settle", !.lease = now + Lease,
                                        !.size = Cardinality(S \ garbled),
                                        !.left = S \ garbled, !.fail = garbled,
                                        !.class = "invalid"])]
     /\ UNCHANGED <<received, envVars, faults>>

\* What the cloud does with a request for the rows of S: it takes them unless
\* it refuses one of them or everything, and its answer may be lost; or the
\* request fails for another reason.
Refuses(S) == drift \/ \E i \in S : row[i].payload = "refused"
Accepted(S, answer) ==
  /\ answer \in {"ok", "transport"}
  /\ ~Refuses(S)
Possible(S, answer) ==
  /\ answer = "ok" => ~Refuses(S)
  /\ answer = "422" => Refuses(S)

Answers == {"ok"} \cup Failures

DeliveredOrLost(a) == a \in {"ok", "transport"}   \* mutant: no answer is a yes

\* Ok(()) of upload_observation_events
Delivered(a) == a = "ok"

\* The batch is uploaded in one request; only a permanent refusal is isolated,
\* any other failure is shared by every row of the batch.
PostBatch(p) ==
  LET f == flush[p] IN
  /\ f.pc = "post"
  /\ \E a \in Answers, taken \in BOOLEAN :
       /\ Possible(f.left, a)
       /\ taken => Accepted(f.left, a)
       /\ a = "ok" => taken
       /\ received' = IF taken THEN received \cup f.left ELSE received
       /\ flush' = [flush EXCEPT ![p] =
            CASE Delivered(a) -> [f EXCEPT !.pc = "settle", !.posted = TRUE, !.win = f.left,
                                       !.left = {}, !.sent = TRUE]
              [] ~Delivered(a) /\ Classify(a) = "invalid" -> [f EXCEPT !.pc = "each", !.posted = TRUE]
              [] OTHER -> [f EXCEPT !.pc = "settle", !.posted = TRUE, !.fail = f.left,
                                    !.left = {}, !.class = Classify(a)]]
  /\ UNCHANGED <<row, envVars, claimer, faults>>

NoProof(f) == TRUE                   \* mutant: every 4xx is believed

\* A 4xx for a single row is believed once another row got through, or when
\* the batch had no other row.
Proven(f) == f.sent \/ f.size = 1

\* One turn of isolate_permanent_invalid_batch.
PostEach(p, i) ==
  LET f == [flush[p] EXCEPT !.left = @ \ {i}] IN
  /\ flush[p].pc = "each"
  /\ i \in flush[p].left
  /\ \E a \in Answers, taken \in BOOLEAN :
       /\ Possible({i}, a)
       /\ taken => Accepted({i}, a)
       /\ a = "ok" => taken
       /\ received' = IF taken THEN received \cup {i} ELSE received
       /\ flush' = [flush EXCEPT ![p] =
            CASE Delivered(a) ->
                   [f EXCEPT !.pc = "settle", !.win = {i}, !.sent = TRUE,
                             !.fail = f.doubt, !.doubt = {}, !.class = "invalid"]
              [] ~Delivered(a) /\ Classify(a) = "invalid" ->
                   IF Proven(f)
                   THEN [f EXCEPT !.pc = "settle", !.fail = {i}, !.class = "invalid"]
                   ELSE Onward([f EXCEPT !.pc = "settle", !.doubt = @ \cup {i}])
              [] OTHER ->
                   [f EXCEPT !.pc = "settle", !.fail = f.doubt \cup flush[p].left,
                             !.left = {}, !.doubt = {}, !.class = Classify(a)]]
  /\ UNCHANGED <<row, envVars, claimer, faults>>

\* mark_sent: an UPDATE by id, whoever holds the row by now.
MarkSent(p, i) ==
  /\ flush[p].pc = "settle"
  /\ i \in flush[p].win
  /\ row' = IF Exists(i) THEN [row EXCEPT ![i].status = "sent"] ELSE row
  /\ flush' = [flush EXCEPT ![p] = Onward([flush[p] EXCEPT !.win = @ \ {i}])]
  /\ UNCHANGED <<received, envVars, claimer, faults>>

\* mark_failed_with_class: the write lands only under the lease of the claim.
MarkFailed(p, i) ==
  /\ flush[p].pc = "settle" /\ flush[p].win = {}
  /\ i \in flush[p].fail
  /\ \E d \in Delays :
       row' = IF Fence(p, i)
              THEN [row EXCEPT ![i] = Failed(@, flush[p].class, AgedOut(i), d)]
              ELSE row
  /\ flush' = [flush EXCEPT ![p] = Onward([flush[p] EXCEPT !.fail = @ \ {i}])]
  /\ UNCHANGED <<received, envVars, claimer, faults>>

\* unpark_after_success
Unpark(p) ==
  LET S == Oldest(WithStatus({"parked"}), UnparkLimit) IN
  /\ flush[p].pc = "unpark"
  /\ row' = [i \in Ids |-> IF i \in S
                           THEN [row[i] EXCEPT !.status = "pending", !.next = now]
                           ELSE row[i]]
  /\ flush' = [flush EXCEPT ![p] = Capping]
  /\ UNCHANGED <<received, envVars, claimer, faults>>

-----------------------------------------------------------------------------
(* cap_queue: three times a count and, if the table overflows, a DELETE    *)

OverflowShort == Cardinality(Table) - Cap - 1      \* mutant: off by one

\* queue_overflow
Overflow == Cardinality(Table) - Cap

CapCount(p) ==
  /\ flush[p].pc = "capcount"
  /\ flush' = [flush EXCEPT ![p] =
       IF Overflow > 0 THEN [@ EXCEPT !.pc = "capdelete", !.over = Overflow]
       ELSE IF @.level = "abandoned" THEN [@ EXCEPT !.level = "any"]
       ELSE Idle]
  /\ UNCHANGED <<row, received, envVars, claimer, faults>>

NextLevel(l) == IF l = "sent" THEN "abandoned" ELSE "any"

TrimsOldest(l, n) == {Oldest(Table, n)}      \* mutant: the oldest rows go first

\* What the DELETE of a level may remove, n rows at most: the rows sent first
\* (the model does not keep sent_at_ms: any n of the sent rows), the oldest
\* abandoned rows, the oldest rows of all.
Trims(l, n) ==
  LET S == WithStatus({l}) IN
  CASE l = "sent" -> {D \in SUBSET S : \/ D = S /\ Cardinality(S) <= n
                                       \/ Cardinality(D) = n}
    [] l = "abandoned" -> {Oldest(S, n)}
    [] l = "any" -> {Oldest(Table, n)}

\* A deleted row keeps its slot and its payload.
Gone(r) == [r EXCEPT !.status = "deleted", !.next = 0, !.created = 0]

CapDelete(p) ==
  LET f == flush[p] IN
  /\ f.pc = "capdelete"
  /\ \E D \in Trims(f.level, f.over) :
       row' = [i \in Ids |-> IF i \in D THEN Gone(row[i]) ELSE row[i]]
  /\ flush' = [flush EXCEPT ![p] = IF f.level = "any" THEN Idle
                                   ELSE [Capping EXCEPT !.level = NextLevel(f.level)]]
  /\ UNCHANGED <<received, envVars, claimer, faults>>

-----------------------------------------------------------------------------
(* Faults, the cloud and time                                              *)

Fault == faults < setting.maxFaults /\ faults' = faults + 1

\* The process dies, or a SQL error ends the flush (the ? operator) or the cap
\* (let _ = ...); rows it claimed wait for their lease to expire.
Abort(p) ==
  /\ Fault
  /\ flush[p].pc \notin {"idle", "unpark"}
  /\ flush' = [flush EXCEPT ![p] = Idle]
  /\ UNCHANGED <<row, received, envVars, claimer>>

\* An error of unpark_after_success is dropped.
UnparkError(p) ==
  /\ Fault
  /\ flush[p].pc = "unpark"
  /\ flush' = [flush EXCEPT ![p] = Capping]
  /\ UNCHANGED <<row, received, envVars, claimer>>

\* A schema or route change makes the cloud refuse every request, or ends.
Drift ==
  /\ drifts < setting.maxDrifts
  /\ drifts' = drifts + 1
  /\ drift' = ~drift
  /\ flush' = [p \in AllProcs |-> [flush[p] EXCEPT !.steady = (flush[p].pc = "idle")]]
  /\ UNCHANGED <<setting, row, received, now, claimer, faults>>

Tick ==
  /\ now < setting.maxTime
  /\ now' = now + 1
  /\ UNCHANGED <<setting, row, received, flush, drift, claimer, drifts, faults>>

-----------------------------------------------------------------------------
Next ==
  \/ \E p \in Procs :
       \/ \E i \in Ids, v \in Payloads : Enqueue(p, i, v)
       \/ Claim(p) \/ PostBatch(p)
       \/ \E i \in Ids : PostEach(p, i) \/ MarkSent(p, i) \/ MarkFailed(p, i)
       \/ Unpark(p) \/ CapCount(p) \/ CapDelete(p)
       \/ Abort(p) \/ UnparkError(p)
  \/ RetryNow \/ DrainAbandoned \/ Drift \/ Tick

Spec == Init /\ [][Next]_vars

-----------------------------------------------------------------------------
(* Properties                                                              *)

TypeOK ==
  /\ setting \in Settings
  /\ row \in [Ids -> Row]
  /\ received \subseteq Ids
  /\ flush \in [AllProcs -> Flush]
  /\ now \in Nat /\ drift \in BOOLEAN
  /\ claimer \in [Ids -> SUBSET Procs]
  /\ drifts \in 0..setting.maxDrifts /\ faults \in 0..setting.maxFaults

\* mark_sent takes no lease, yet only a row the cloud has accepted is ever
\* marked sent, whichever flush writes last (sync.rs:547).
SentWasReceived == \A i \in Ids : row[i].status = "sent" => i \in received

\* The fence of reschedule, park and abandon (sync.rs:476-478: "the write only
\* lands if we still hold the claim we took"): a flush changes a row it could
\* not deliver only while it is the row's last claimer.
FencedWrites ==
  [][\A p \in Procs, i \in Ids :
       MarkFailed(p, i) /\ row'[i] # row[i] => claimer[i] = {p}]_vars

\* "a stale flusher can't resurrect or re-abandon a row" (sync.rs:631-633): a
\* delivered row is never queued, parked or abandoned again.
SentIsFinal ==
  [][\A i \in Ids : row[i].status = "sent" => row'[i].status \in {"sent", "deleted"}]_vars

\* "a request-level schema/route drift cannot abandon a valid batch"
\* (sync.rs:379-381): while the cloud refuses everything, or nothing, for the
\* whole of a flush, isolation abandons no good row of a batch of several.
DriftAbandonsNoBatch ==
  [][\A p \in Procs, i \in Ids :
       /\ MarkFailed(p, i) /\ row'[i] # row[i]
       /\ row[i].payload = "good" /\ row'[i].status = "abandoned"
       => flush[p].size = 1 \/ ~flush[p].steady \/ AgedOut(i)]_vars

\* "the hard 10k cap never sheds unsent signal while deletable rows remain"
\* (storage.rs:890-893): the cap_queue of a single process removes an unsent row
\* only from a table that overflows, and when no sent or abandoned row is left.
CapShedsLast ==
  [][\A p \in Procs : Procs = {p} /\ CapDelete(p) =>
       \A i \in WithStatus({"pending", "sending", "parked"}) :
         row'[i].status = "deleted" =>
           /\ Overflow > 0
           /\ \A j \in Ids : row'[j].status \notin {"sent", "abandoned"}]_vars

\* Every insert is followed by its own cap_queue, so the table exceeds the cap
\* by at most one row for each process that is still trimming and one for each
\* trim that died, although the counts are stale when the rows are deleted.
QueueStaysCapped ==
  Cardinality(Table) <=
    Cap + Cardinality({p \in Procs : flush[p].pc \in {"capcount", "capdelete"}}) + faults

=============================================================================
