# A TLA+ model of difflore

difflore keeps review rules on a developer's machine, serves them to coding agents, and
exchanges them with a cloud service. It has no server of its own: editor hooks, CLI
commands, MCP servers and a background daemon are separate short or long processes that
share one SQLite database and a few files under `DIFFLORE_HOME`. Almost nothing is done
inside a long transaction, so its correctness is a question about interleavings of single
SQL statements, crashes between them, leases that run out, and answers of the cloud that
never arrive. That is what this project models.

Paths below are relative to `src/crates/`; `core` is `difflore-core/src`, `cli` is
`difflore-cli/src`.

## 1. Inventory

| Component | State | Operations | Hard because |
|---|---|---|---|
| Cloud outbox (`core/cloud/outbox.rs`, `outbox_core.rs`, `accepted_edit_receipts.rs`) | table `cloud_outbox`, receipts, a circuit breaker per process | enqueue, claim, confirm, mark_failed, reset_stale, drain_abandoned_older_than, two drain loops | claims are taken over after a timeout; failure is read-then-write; upload, receipt and confirm are three steps |
| Observation queue (`core/cloud/observations/`) | table `observation_events` | enqueue, flush with lease, isolation of refused rows, parking, cap | the lease is a column, failures are fenced by it and successes are not; the cap is counted and trimmed in separate statements |
| Background daemon (`core/infra/daemon.rs`) | `daemon.pid`, a lock file, signal handlers | run, claim_pid_file, stop | start, stop and death race for one file |
| Autopilot schedule (`core/memory_autopilot_schedule.rs`, `cli/commands/memory/autopilot.rs`) | one row: dirty, lease, last run, skip reason | mark dirty, acquire, release, run, settle | candidates arrive while a run is planning; a run may outlive its lease |
| Rule store (`core/skills/remember.rs`, `candidates.rs`) | tables `skills`, `rejected_signatures` | remember (dedup ladder), strengthen, promote, reject, disable | every rung of the ladder is a statement; rows change tier between them |
| Memory inbox (`core/memory_inbox.rs`) | session-mined rows of the outbox | approve, reject, triage | an approval is four writes without a transaction |
| Autopilot triage (`core/memory_autopilot/`, `memory_curator.rs`) | triage marks and evidence in the payloads, event log | plan, delete, fold, rewrite, promote, disable | works from a plan that may be stale, and from the answer of a language model |
| Session mining (`cli/session_mine/`) | a watermark file per project, candidates | trigger, extract, gate, enqueue or count as evidence | scan, count and insert are statements of their own; hooks read, change and write one JSON file |
| Review import (`cli/commands/import_reviews/`) | none of its own | fetch, distil, remember | runs beside reviews of what it imports |
| Hook forwarding (`cli/bin/difflore-hook.rs`, `cli/hook/forward/`) | a socket file per project, requests under way | forward or fall back, bind or yield, accept, reap | daemons race for one path; a late answer meets a fallback |
| Hook capture (`cli/hook/runtime/dispatch.rs`, `cli/hook/cache.rs`, `core/cloud/outbox.rs`) | a directory of JSON files, a skip cache | skip, enqueue, spill, replay, quarantine | file and row cannot change together; the cache is read and written as a whole |
| Cloud rule sync (`core/cloud/sync.rs`, `core/skills/cloud_sync.rs`) | rows of `skills` | hash, pull, upsert, delete | overwrites rows the user has changed; answers are applied later |
| Other hooks, MCP server, context index, review engine, fix, export, installer, observability, team | mostly reads, logs and files of one process | | see "components" in `PROJECT.json` |

How they interact. An editor event reaches a forward daemon over a socket, or is handled by the
hook process itself. A hook observes an edit and enqueues it, or spills it into a directory
when the database is away; the daemon replays the directory. A worker a hook spawns mines the
session and enqueues a candidate into `cloud_outbox`, behind a review gate, then marks the
autopilot schedule dirty. The autopilot, or a person in the inbox, turns candidates and
imported drafts into active rules; approving a session-mined candidate writes a rule *and*
opens the gate of its outbox row. The daemon drains the outbox; any command may drain it too.
The MCP server and the hooks serve active rules.

What makes each component correct:

- outbox: at-least-once delivery. A row leaves only when the cloud has it, its kind is
  retired or the user rejected it; nothing leaves past a closed review gate; no accepted
  edit is confirmed without its receipt; every row settles in the end.
- observations: a late failure never overwrites a newer claim; a delivered row stays
  delivered; a cloud that suddenly refuses everything does not make us abandon good rows;
  the cap holds and sheds the least valuable rows first.
- daemon: at most one drains, the pid file names it, and every start decides.
- schedule: no marked candidate is forgotten; runs overlap only after a lease expired.
- rules: no duplicate draft of an approved rule, no copy of an active rule promoted, no
  resurrection of what was disabled, no trust from a draft to an approved rule; an approved
  candidate has an activated rule; a sync that nobody overtakes leaves the rules of the cloud.
- hooks: every hook returns, an output means the event was handled, and it is handled twice
  only after a hook gave up on a request; daemons that start together settle to one.
- capture: what a hook was told is stored stays stored, and reaches the outbox in the end;
  the skip cache skips an edit only behind a handling that came to its end.
- candidates: a mined lesson stays in the inbox until somebody judged its topic; no
  duplicate hides behind a candidate that is gone; evidence does not get lost; an approved
  candidate is not deleted by a decision made after its approval.

The hazards behind these properties are listed, line by line, in `PROJECT.json`.

## 2. Modules

| Module | Models |
|---|---|
| `Outbox` | the outbox: one action per SQL statement of a drain, reviewers, crashes, SQL errors, time |
| `OutboxHistory` | `Outbox` with history variables: whether a drain has overrun the stale threshold |
| `DeliveryQueue` | what the outbox promises: put, open, deliver, finish, cancel, give up, revive |
| `OutboxRefinement` | the mapping of `Outbox` to `DeliveryQueue` |
| `Observations` | the observation queue: leases, isolation, parking, cap |
| `DaemonPid` | starts, signals and stops of the daemon around the pid file |
| `AutopilotSchedule` | the schedule row, background runs, manual runs |
| `RuleStore` | rules, tombstones, session-mined candidates; imports, captures, approvals, reviews, the quarantine, the pull of a cloud sync |
| `MemoryTriage` | the session-mined candidates while they wait: mining, evidence, review, a run of the autopilot |
| `HookForward` | hook processes, the project's socket, forward daemons |
| `HookCapture` | the handling of an edit: skip cache, enqueue or spill, replay |
| `OutboxProofs` (also of `OutboxHistory` and `OutboxRefinement`), `ObservationsProofs`, `RuleStoreProofs`, `MemoryTriageProofs`, `DaemonPidProofs`, `AutopilotScheduleProofs`, `HookForwardProofs`, `HookCaptureProofs` | theorems |
| `MC_*` | instances for TLC: settings, symmetry sets and a state constraint |

Conventions. A SQL statement, and a transaction, is one atomic step: SQLite serialises
writers. What a process keeps in local variables between two statements is a record per
process with a `pc`. A crash may happen between any two steps and loses exactly that
record. A row that was deleted keeps its slot with status `"deleted"`, so that properties
can speak of it; ids are not reused by the code either (`AUTOINCREMENT`, UUIDs). Operators
marked *mutant* or *fault* are plausible wrong versions of the operator below them. They are used by
nothing in the models: each is there to be substituted for its neighbour, to show that the
property it names would notice.

**Outbox.** `row` is the table, `task[p]` the locals of the drain process `p` is in
(`DRAIN_SERIALIZATION_LOCK` allows one per process), `brk[p]` the breaker of its handle.
`StartDrain`, `Claim`, `EndClaims`, `Post`, `RecordReceipt`, `Confirm`, `MarkFailedRead`,
`MarkFailedWrite` are `drain_rows` and `drain_observation_outbox_kind_report` statement by
statement, for single rows and for batches. `Post` chooses what the cloud does: accept and
answer, accept and lose the answer, refuse. `ReviewFind`, `ReviewApprove`, `ReviewReject`
are the inbox. Timestamps are kept as ages in ticks that saturate above the largest
threshold, since the code only compares them with "now minus a threshold". Payloads are a
kind, whether they parse, and whether they carry a local approval.

**Observations.** `next_attempt_at_ms` is both the retry time and the lease, so the model
keeps a clock. `flush[p]` holds the batch, the rows whose 4xx is not believed yet, and the
position in `cap_queue`. `Drift` makes the cloud refuse everything and stop doing so.

**DaemonPid.** `claim_pid_file` under its flock, `run`, the installation of the signal
handler on the first poll, signals, and `stop()` with its poll, its SIGKILL and its unlink. A
SIGKILL may fail, which `stop()` ignores, and takes effect in a step of its own (`Die`), before
or after the unlink; until then the process goes on. `killed`, `spared` and `lost` keep who was
sent one, whose failed, and who lost the pid file to an unlink that meant another.

**AutopilotSchedule.** `sched` is the row. `TryAcquire` and `TryRefused` are the acquiring
UPDATE, `RecordSkip` the second statement; `Begin`, `CheckLease`, `Plan`, `FinishOk`,
`FinishErr` a background run; `AcquireManual`, `ManualEnds` one by hand. `Plan` reads at most
`MaxScan` drafts and `MaxScan` discoveries (`MAX_PENDING_SCAN`, 1000); which ones, the sort
orders of the two queries say, and the model leaves open. `seen`, `excused` and `beyond` are
history.

**RuleStore.** `rule` is the table `skills`, `rejected` the tombstones, `session` the
session-mined rows of the outbox. An import walks `tombstone`, `activeSame`,
`pendingSame`, `activeAlike`, `pendingAlike`, `conversation`, `insert`; each rung either
misses (`RungMisses`) or hits the oldest match (`RungHits`), which is strengthened in two
statements (`BumpRead`, `BumpWrite`). `Attach`, `Refine`, `Select`, `CheckDuplicate`,
`Activate`, `Mark` are the steps of a promotion and of an approval. A text stands for
title, body and patterns; the row keeps the hash it was inserted with apart from its
present text, because the curator's rewrite changes only the latter. Semantic similarity
is a symmetric relation given as a constant. `SelectUnguided` and `Quarantine` are the sweep.
A sync is `StartSync` (the hashes), `SyncSkills` (the difference, computed by the cloud),
`ApplySyncResult` or `ApplyFails`, `SyncTeamSkills` and a second `ApplySyncResult`; `Publish`
changes the cloud in between.

**MemoryTriage.** `row` is the session-mined part of `cloud_outbox`, its payload fields
`triage`, `ref`, `evidence`, `approved` apart. What an operation has yet to do is a sequence
of jobs per process; a job on a group becomes one on each of its lessons (`TurnToGroup`), and
a job on all rows of a lesson loads them (`Load`) and writes them one by one by id (`Write`),
as the helpers of `memory_inbox.rs` do. `Scan`, `ReadCount`,
`StoreCandidate` are the miner. `StartRun` purges and deletes what an active rule covers,
`TriageGroups` turns an answer of the language model, any at all, into deletions and folds,
followed by the deterministic fold, and `Enable` plans again and approves a group. `Upload`
is the drain: it deletes an approved row, at any time. Its claim, post and confirm are apart
in `Outbox`; here only the last of them changes what the others see. That two
lessons match is an equivalence here (`Topic`), which the text comparison need not be.

**HookForward.** `sock` is what the path holds, `dpc[d]` where a daemon is between bind,
probe, unlink, rebind, accept and exit, or that it hangs, `pc[s]` where a hook process is,
`conn[s]` its request, which outlives its patience. `Connect`, `Write` and the wait are three
steps, as only the last is under the watchdog: a connect blocks while the listener's queue
(`Backlog`) is full, a request of `Large` until the daemon reads. `Drop` removes the path by
name, as the listener of the socket library does.

**HookCapture.** A handler is one run of `handle_post_tool_use`: `CheckCache`, `OpenDb`, a
replay, `Enqueue` or `SpillWrite` and `SpillRename`, `Fetch`, `RememberRead`,
`RememberWrite`. The replay (`List`, `NextFile`, `Insert`, `Remove`, `SetAside`) is shared
with the daemon's tick. Two handlers of one edit are what `HookForward` allows when a hook
gives up on its request. The cache keeps one entry per file (`Target`) and compares the first
1200 characters of the diff or text (`Signal`), so it takes edits that begin alike for the same
(`Alike`). `Silent` are the edits for which the classifier gives no observation, of a private
file or without diff and text: nothing is enqueued or spilled, and the rest goes on.

## 3. Runs

Every passing run has, for each property, a mutation of a mapped definition that breaks it.

| Run | Shows |
|---|---|
| `outbox_kinds` | every payload kind, good and bad, two drains, a reviewer, a fault anywhere: receipts precede confirmation, only approved candidates are uploaded, every step, reviews included, is one of the delivery queue, which loses nothing, and under the daemon's loop every row that no review holds back is delivered or abandoned, though a process may die holding it |
| `outbox_batch` | batches of two that overtake each other: two drains hold one row only after one overran the stale threshold, a half-failed batch loses nothing, the retry count stays in step with the status |
| `observations` | two processes insert, flush and trim while leases expire: failures are fenced, delivered rows were received and stay delivered, stale counts never leave the table over the cap by more than the trims under way. Or one process and a drifting cloud: isolating a refused batch abandons no good row while the cloud is steady, and the cap sheds sent and abandoned rows before unsent ones |
| `daemon_life` | three starts, crashes, write errors, signals and two `stop()` calls: one daemon, recorded in the file, until a `stop()` unlinks it; across stops and restarts, at most one that was not killed, spared by a failed kill or robbed of its file; every start runs or is refused |
| `autopilot` | runs overlap only after a lease expired; a mark is cleared only by a run that read the candidate, that failed, or that found it beyond the scan of a full section |
| `rules` | one process, killed anywhere: no forked draft, tiers kept apart. Two processes: an approved candidate has an activated rule; no promotion in flight revives a disabled one. Two that sync with a changing cloud: a sync nobody overtakes leaves the rules of the cloud, extracted from reviews or not, with a repository or without |
| `triage` | miners, a reviewer and a run with any answer of its language model, together or alone, with a drain, killed anywhere: a mined lesson stays until it is judged or uploaded with an active rule left behind, nothing hides behind a candidate that is gone, evidence does not fall, an approved candidate is kept until its upload |
| `hook_forward` | two events in every mode, two daemons they start, one of these and a daemon of another version, or a forwarder in an MCP server; an empty path, a stale socket or a plain file; listeners die or hang: starts on an unused path settle to one, outputs are earned, the warm path holds up no hook but one that connects or writes to a hung daemon, unreachable daemons end |
| `hook_capture` | two edits of a file that begin alike, two handlings of one event, or one of an edit without observation, some in a process that must not capture, a daemon, a foreign file, an outage, two faults: nothing stored is lost, no spill is set aside, the cache skips only behind an alike edit that was dealt with, every spill is replayed |

Runs that end in a violation, each against a sentence of the repository (quoted in
`PROJECT.json` under "findings"):

| Run | The code does |
|---|---|
| `outbox_abandoned` | a drain that was overtaken writes its older retry count over an abandoned row, which is claimed again |
| `hook_split` | two daemons that judged the socket of a dead one stale: the second removes the socket the first has bound meanwhile, and both listen |
| `rules_refined` | the curator's rewrite leaves the content hash, so a copy of an active rule passes the duplicate check |

### Behaviour to know about

The models follow the code in these places as well, and a reader of the properties should
know what they do not say:

- `mark_failed` clears `claimed_at`, so `drain_abandoned_older_than` judges a row by the age
  of its creation, and revives one abandoned a moment ago (`Outbox`, `Resurrectable`).
- `stop()` unlinks the pid file by path. A daemon that claimed the path after the one that
  was stopped loses its file, and a third start then drains beside it. This is why
  `OneDaemon` and `RunningDaemonIsRecorded` end with the first unlink (`FileUntouched`). No
  command of this commit calls `stop()`.
- `stop()` neither looks at the error of its SIGKILL nor waits for the process to die, and
  reports `Killed` either way. Between the unlink and the death, or for good when the kill
  failed, a new daemon drains beside the old one: these are exceptions of `RestartLeavesOne`.
- `cap_queue` counts and deletes in separate statements. With two processes the last DELETE
  may remove an unsent row although the table no longer overflows; `CapShedsLast` is checked
  for one process.
- The daemon's signal handler is an async block and registers when it is first polled, after
  the first drain (`daemon.rs:472-475`). A SIGTERM before that kills the process and leaves
  the pid file, which the next start takes over (`DaemonPid`, `Terminate`).
- A triage run reads at most 1000 drafts and 1000 discoveries (`plan.rs:9`, `list_candidates`,
  `load_memory_inbox`) and clears the dirty mark all the same: a marked candidate beyond that
  waits for the next mark (`AutopilotSchedule`, `beyond`).
- The reason a refused autopilot trigger records is computed after the refusal and may be
  that of a later state of the row.
- With two processes, a draft promoted between two rungs of the dedup ladder is stored again;
  two promotions may both pass the duplicate check; a dedup hit may strengthen a rule
  approved after the look-up; a draft rejected between the tombstone check and the insert is
  stored again. `NoForkedDraft` and `TrustTiersApart` are checked for one process with crashes.
- The dedup of session-mined candidates and of captures compares no repository, and
  `Attach` keeps a repository that is set: a candidate or capture may collapse into the row
  of another repository.
- Each sync reactivates a rule of the cloud that was disabled here (`cloud_sync.rs:296`). A
  rule that was extracted from reviews and has no repository is left out of the hashes, so the
  cloud never reports it deleted and it stays here when it is withdrawn (`RuleStore`,
  `LacksRepo`). Other rules without repository are listed like any.
- The quarantine updates by id: with two processes, a rule disabled after it was selected
  becomes a draft.
- An answer of the language model that folds two groups into each other hides both:
  `live_session_candidate_exists` counts rows whatever their triage (`MemoryTriage`,
  `Circular`). A miner follows one such reference, and no further.
- A lesson mined from another session counts as new evidence each time, also on the same day
  and twice from one session if a third came between: only the newest matching row is
  compared. Two processes may lose a count, or restore an older one with an approval's
  write-back.
- The deletions of a run choose their rows before they delete them, so a candidate approved
  in between is deleted before its upload (`overtaken`); its rule stays.
- A daemon that is reaped removes its path by name, which may be that of its successor
  (`HookForward`, `Drop`). The successor then ends at its idle timeout (`OrphansAreReaped`).
  The comment at `mod.rs:409-411`, "We intentionally leave the socket path in place on exit",
  is not what the listener does when it is dropped.
- A hook that connects or writes to a hung daemon waits for it: `connect`, `write_all` and
  `flush` come before the watchdog of `ipc_roundtrip_blocking`, whose comment says that a
  wedged daemon "must not stall the user's edit" (`protocol.rs:332-343`). A small request goes
  into the socket's buffer, so this takes a full queue or a large one (`Stalled`).
- The skip cache takes an edit for a repetition if one of the same file with the same first
  1200 characters was remembered: a long edit changed near its end is skipped, and its
  observation is not stored (`SkippedWasStored` says "alike"), although a test of the cache has
  "a changed diff/query must reopen the retrieval gate" (`cache.rs:213`).
- A replay looks at its first `max_items` files, and unreadable ones stay among them: as many
  of these as that hold back every later file. `SpillsAreReplayed` is checked with fewer.

### Bounds, and why they are enough

The runs `observations`, `rules`, `triage`, `hook_forward` and `hook_capture` check several
small instances at once: a variable that never changes, or the initial place of each process,
picks a setting (which processes run, on which texts, with which bounds), so every property is
checked in each. Races get few rows and operations, single processes more.

Every bound is a constant: `NumRows`, `MaxFaults`, `NumRules`, `NumFiles`, `MaxItems`,
`MaxOutages`, `MaxTime`, and the fields of a setting. Two processes are enough for a
read-then-write race and for a lease that changes hands and comes back, since an owner that has
ended starts again, and three for a start of the daemon that profits from a race of two. A scan
of one, with two discoveries and a draft, overflows in one section and not in the other. One outbox row is enough where no property relates two rows;
batches and exclusivity get two, isolation three (a good row between two bad ones), the cap one
row more than fits for each trimming process. `MaxRetry` and `Threshold` of 2 or 3 reach both
"retry" and "abandon", and both "breaker closes" and "breaker opens", which larger values only
repeat; in `outbox_batch`, where the rows are two, one failure opens the breaker. `MaxTime`
lets a lease expire and be taken again at least once; the outbox needs no clock. In `RuleStore`
the properties relate at most two rows, so two rows, two repositories and one or two texts are
used, with a ceiling one step above the seed; a candidate is mined once. The thresholds 0 and 1
for `Stale`, `OlderThan`, `Lease` and delays make expiry possible after one tick, the case in
which a process is slow by the least amount that matters. `MC_OutboxHistory` cuts the search
(`OverrunOrFaults`) at states that have seen both an overrun of the threshold and a fault; each
alone, with everything that follows it, is explored, and `outbox_kinds` has both together for
one row. Symmetry is used on processes and repositories in safety runs only. In `MemoryTriage`
two lessons that match and one apart, in at most four rows, are enough to fold within a group
and between two groups; duplicates that only racing miners leave are there from the start in
the setting `Together`. In `HookForward` two hooks and two daemons are enough for a path that
changes hands while one of them holds a judgement of it, and for a request that meets its
fallback; which daemons meet is a setting. A queue of one and a large request reach each place
where a hook blocks. `HookCapture` has one file more than the
two handlers spill, for a foreign one before them, and a replay that looks at two. Deadlock is
checked in `Outbox`, `AutopilotSchedule` and `HookCapture`, whose drains, runs and ticks can
always be started again. In `DaemonPid` and `HookForward` every process may have ended, and in
`Observations`, `RuleStore` and `MemoryTriage` the bounds on time, rows and operations end
every behaviour: there it is not checked.

### Fairness

`outbox_kinds` assumes, for `EveryRowSettles`, weak fairness of the daemon's loop starting a
drain, of each step of a drain under way, and of time. The daemon's `run` is a loop around a
sleep, its drain awaits only bounded calls, and the operating system schedules it; a process
that dies is outside its own fairness, since the crash takes its record away. Nothing is
assumed of the cloud, which may refuse for ever: a row is then abandoned. `daemon_life` assumes
weak fairness of every process between its start and its decision: `flock` is released by the
kernel when a holder dies. `hook_forward` assumes that a hook process and a starting daemon are
scheduled, that their timers fire (the watchdog of the hook, the idle timeout of the daemon)
and that a daemon that does not hang accepts; nothing says that a handler ever ends, in a daemon
or in the hook's own process, so `HooksMoveOn` ends where the fallback begins. `hook_capture`
assumes that the daemon goes on ticking and that an outage of the database ends; nothing is
assumed of the handlers. No other run assumes fairness.

## 4. Proofs

All theorems hold for any number of processes, rows and candidates and for any thresholds that
satisfy the named assumption of the module (`OutboxAssumption`, `DaemonAssumption`,
`ScheduleAssumption`, `ForwardAssumption`, `CaptureAssumption`, `ObservationsAssumption`,
`RuleStoreAssumption`, `MemoryTriageAssumption`). They say that bounds and ages are numbers,
that the value which stands for "none" is not one of the others, and that every setting has the
fields of one. `ObservationsAssumption` adds that there are finitely many processes, which
`QueueStaysCapped` counts, `RuleStoreAssumption` that rows of the cloud and rules stored here
have different ids, and `MemoryTriageAssumption` that no topic is called like the verdicts of
an answer. A setting is any record of the type, so the theorems cover what TLC's settings keep
apart, such as two reviewers of one row of the outbox, or imports, sweeps, approvals and syncs
of many processes at once.

- `OutboxProofs`: `TypeCorrect`, `NothingIsLost`, `OnlyApprovedIsUploaded`,
  `EditsKeepReceipts`, `RetryAndStatusAgree`. None of the properties is inductive: they
  speak of rows and of the cloud, whereas a confirm happens on the strength of an answer
  obtained two statements earlier. The inductive invariant `IInv` adds what each drain knows
  (`GoodTask`): a row it holds was inserted, a candidate it holds was approved and stays so,
  and with the verdict "ok" a row is received or retired and, past the receipt, has one.
  This survives takeovers because nothing takes an acceptance, an approval or a receipt
  back. `TaskFrame`, `TaskEdit` and `RowStep` isolate what a step leaves alone; then there is
  one lemma per action. `HeldByOne` is about the history: a row is taken over when its claim
  is stale, so what must be known is that the claim of a held row is no older than the time
  its drain has been holding rows (`FreshlyHeld`), and that maintenance, failures and ticks
  leave a claim that is not stale alone (`Spares`).
  `OutboxImplementsQueue` is the refinement: one lemma per action gives the step of
  `DeliveryQueue` it implements, or a stutter, from `IInv`.
- `DaemonPidProofs`: `FileNamesDaemon`, `DaemonIsUnique`, `RestartIsUnique`, `DaemonTyped`.
  The invariant of the first two says that only the holder of the flock is inside
  `claim_pid_file`, and what each process knows of the file; it holds until a `stop()` has
  unlinked the file, and uniqueness follows because the file names one process. `EndInv`, for
  `RestartIsUnique`, holds across unlinks: the file is that of the one daemon that nobody has
  touched, and a `stop()` at its unlink has a process that is dead, was sent a SIGKILL or
  could not be. It needs to know that a file holds a pid only when its creator is past the
  claim, so that no `stop()` ends a process that still claims.
- `AutopilotScheduleProofs`: `MarksAreKept`, `RunsAreExclusive`, `ScheduleTyped`. The
  strengthening: a process past its acquisition holds the lease until its own expiry; a
  marked candidate that a plan neither read nor found beyond a full scan was marked no earlier
  than the run started.
- `HookForwardProofs`: `OutputIsEarned`, `HandledOnceOrGivenUp`, `ColdStartIsUnique`,
  `ForwardTyped`. The first two rest on a bookkeeping per hook (`Booked`): for each place the
  hook may be at, what can have become of its request and how often its event can have been
  handled by then. A request that is still under way when its hook falls back belongs to a
  hook that gave up, and it is the only second handling. `ColdStartIsUnique` needs
  `Settled`: as long as it is calm, a file at the path is the socket of a listener, so that
  whoever probes finds it live and nobody reaches the removal.
- `HookCaptureProofs`: `CapturedStaysStored`, `SpillsStayReadable`, `SkipsAreEarned`,
  `CaptureTyped`. Every step is shown to be one of few moves of the store (`Moves`): rows are
  only added, and a readable file goes away only behind its row. What a process knows of the
  file it holds, and what a cache entry stands for, survives any such move; so does the
  promise made to the hook.

- `ObservationsProofs`: `ObservationsTyped`, `WritesAreFenced`, `SentStaysSent`,
  `SentOnlyIfReceived`, `DriftSparesBatches`, `QueueCapped`, `UnsentShedLast`: every property
  of the run. `LeaseInv` says what a flush knows of the rows it works on: each is in one of
  its groups only, and as long as the row is still "sending" under the lease the flush took,
  nobody else has claimed it. A fenced write compares exactly that lease, hence
  `FencedWrites`. `SentInv` adds that a row a flush is about to mark sent was received, though
  its lease may be lost; `DriftInv` that the rows whose refusal a flush doubts, or gives up
  on, were refused while the cloud was steady, which is lost with the first `Drift`.
  `QueueStaysCapped` is a count: an insert is matched by the trim its process then owes, and a
  DELETE removes as many rows as were counted, of which some may be gone already; `OverInv`
  makes it remove at least one. For one process the count is still true when the DELETE comes,
  and the levels before the present one are empty (`AloneInv`).
- `RuleStoreProofs`: `StoreInvariant`, `RulesTyped`, `DisabledIsOff`, `ApprovalsNameRules`,
  `SyncIsComplete`, `ImportForksNoDraft`, `DraftsStrengthenDrafts`: again every property of the
  run, with all operations at once. `StoreInv` keeps the two sides of the table apart: rows of
  the cloud have no hash, and nothing but a sync touches them; a promotion or an approval in
  flight names a row stored here, and a sweep one stored without guidance. `ApprovalInv` adds
  that an approval past its activation names an activated rule; `FreshInv` what a sync that was
  not disturbed knows at each of its steps (`Informed`); `LadderInv` what a process alone has
  learnt on each rung (`Climbed`).
- `MemoryTriageProofs`: `TriageTyped`, `ApprovedKept`, `MinedStaysKept`,
  `FoldedStaysBehindLive`, with any number of miners, reviewers and runs, any candidates and
  any answer of the language model. A process acts on rows it chose, and on payloads it read,
  some statements ago. `TriageInv` says what its present job still knows of them (`Knows`):
  they are gone or of the same lesson, a row it will delete was not approved when it was
  chosen, or is in `overtaken`, and a lesson that is to be counted has a row of its topic,
  unless that was judged. No step gives a row another lesson, brings one back, or approves or
  deletes one unrecorded (`Mild`), so that others keep what they know. The upload is the
  exception: it may take the last row of a lesson, and `MinedStaysKept` then needs that a rule
  of the topic is active. `Promoted` says so of every approved row, and of every row a process
  is about to mark (`Promises`): the rule is promoted by the statement that finds the row, and
  the rows that are approved along with it are of its topic. A step that gives no row another
  lesson and deactivates no rule (`Honest`) leaves the promises of the others alone. The three
  invariants are proved together (`TriageAlways`). The jobs of a run come
  from sets: plans are finite because they name a row once (`PlanFinite`), and the candidate
  that stands for a group exists because the comparison orders finitely many (`FiniteTop`,
  `CanonicalIn`). `FoldedStaysBehindLive` needs more, since a run decides everything in one
  step and carries it out in many. `FoldInv` says that one process at a time has jobs that hide
  or delete, and that there is an answer the run in its triage follows (`Follows`): each
  planned candidate is hidden only by a pair of the answer (`Hides`) and gone only if the
  answer or an active rule deletes its topic (`Clears`) or a user rejected it; one that is to
  be deleted is settled or its deletion is still among the jobs (`Awaited`). What miners and
  reviewers do between two statements of the run disturbs none of this (`Gentle`,
  `GentleKeepsGood`). When no job is left, a closed set of lessons out of sight would give a
  set of groups that the answer folds into each other (`TriageEnds`), which is the exception
  the property states. `FoldInv` was checked with TLC on the instance of the run before it was
  proved.

What the proofs changed. Two properties were true of TLC's instances and not in general, and
each proof attempt ended in a state TLC could then reach in a larger instance. An approval
that comes late requeues a candidate a drain is holding (`memory_inbox.rs:952-985`), so with
two reviewers of one candidate two drains may hold it without an overrun:
`ExclusiveUnlessOverrun` now excepts candidates. And the quarantine selects by an
id made from the title, whatever the origin of the rule (`sweep.rs:181-216`), so a rule without
guidance whose candidate is marked approved may become a draft again: `ApprovedIsActivated`
says so.

Only model-checked:

- liveness (`EveryRowSettles`, `EveryStartDecides`, `HooksMoveOn`, `OrphansAreReaped`,
  `SpillsAreReplayed`), which is out of the prover's reach;
- `EvidenceNeverFalls`, which does not hold for every table: if it starts with two rows of one
  lesson and different counts, which a miner alone never leaves, counting levels them.

The type invariants of `Observations`, `RuleStore` and `MemoryTriage` are checked in their
runs and proved as well; those of the other modules are proved, and their runs leave them
out.

## 5. What is not modelled

- Text: similarity, clustering, scoring, prompts, ranking, rendering, encoding. Pure
  computations on strings or floats; where control depends on them they are a given
  relation or a nondeterministic choice.
- Time: wall clocks do not run backwards; delays are any of a set.
- In `RuleStore`: the daily capture limit (a refused capture is one that does not start),
  the age limit of the 30 s window (both conversation rungs are one), removal, decay of
  confidence, the upload half of a sync, the import of agent files.
- In `Outbox`: the drain-state file; triage marks in the payload (they are in `MemoryTriage`).
- In `MemoryTriage`: repositories (all candidates are of one), the rule an approval writes
  (in `RuleStore`; here only whether a topic has an active rule), a later disabling of that
  rule, what a drain does before it confirms (in `Outbox`), the event log. Only one run at a time: by hand and in the background, a
  run holds the lease of `AutopilotSchedule`, and a run that outlives it is studied there.
  Nothing writes the mark "dropped as low in signal" any more; rows that have it come from
  earlier versions, and are in `Init`.
- The turn watermark of the session-mining trigger: a file two hooks may both read and write
  back. It decides only when to mine.
- Files of one process, HTTP, editor configuration.

`PROJECT.json` gives the reason for every component left out.

Most of the repository's lines are of these kinds: text processing, rendering, prompts,
ranking, HTTP types and the commands around them. The models cover the code that keeps shared
state; what is outside them has no state that a second process could disturb, or is a
computation on strings with no bounded instance that would say something about it.

## 6. Plan

Done: outbox with its abstract specification and proofs, daemon, observations, schedule,
rule store with sync and quarantine, candidates and their triage, hook forwarding and capture,
and the proofs of all of these. Next, in this order:

1. An abstract specification of a rule's life (draft, active, disabled, rejected) and
   `RuleStore` as an implementation of it; `Observations` as one of `DeliveryQueue`.
2. The index refresh against a changing rule table; the watermark of the trigger; the
   agent-file import as a further caller of the ladder.
