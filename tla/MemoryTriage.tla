---------------------------- MODULE MemoryTriage ----------------------------
(***************************************************************************)
(* The candidates mined from editor sessions, while they wait for review   *)
(* as rows of kind session_mined_candidate in table cloud_outbox.  A miner *)
(* (session_mine/worker.rs) adds a candidate, or counts it as evidence for *)
(* one that is there; a user approves or rejects one (memory_inbox.rs);    *)
(* the memory autopilot plans over the visible candidates, asks a language *)
(* model which groups to delete or to fold, hides the duplicates behind    *)
(* the strongest candidate and approves a group (memory_autopilot/run.rs   *)
(* and triage.rs); the drain uploads what is approved (outbox.rs).         *)
(* Processes share the table, statement by statement; the lease of         *)
(* AutopilotSchedule lets one autopilot run at a time.                     *)
(*                                                                         *)
(* A lesson stands for a title and a body, and for their content hash.     *)
(* Lessons of one topic match semantically (cluster.rs).  A session stands *)
(* for a session and a day.  What an operation has yet to do is a sequence *)
(* of jobs: a job on a group of candidates becomes one on each lesson when *)
(* its turn comes, and a job on a lesson first loads the rows of that      *)
(* lesson and then writes them one by one, by id.                          *)
(***************************************************************************)
EXTENDS Naturals, Sequences, FiniteSets, FiniteSetsExt, SequencesExt

CONSTANTS
  AllProcs,  \* processes
  Lessons,   \* content hashes
  Topic,     \* the topic of a lesson
  Length,    \* body_score of a lesson
  Sessions,  \* sessions, each on its day
  NoLesson,  \* no content hash
  NumRows,   \* bound: rows ever inserted
  Settings   \* the settings a behaviour may have

Ids == 1..NumRows
Topics == {Topic[l] : l \in Lessons}

\* The payload of a candidate.  evidence is 0 where the payload has no localEvidence;
\* a superseded candidate names another one.
Row == {r \in [lesson : Lessons, session : Sessions, evidence : Nat,
               triage : {"none", "superseded", "dropped"}, ref : Lessons \cup {NoLesson},
               approved : BOOLEAN] :
          /\ (r.triage = "superseded") <=> (r.ref # NoLesson)
          /\ r.ref # r.lesson}

\* The processes of a behaviour, the rows it starts with, the sessions it mines and
\* bounds on the operations started in it.
Setting == [procs : SUBSET AllProcs, old : Seq(Row), sessions : SUBSET Sessions,
            mines : Nat, reviews : Nat, runs : Nat]

ASSUME MemoryTriageAssumption ==
  /\ NumRows \in Nat /\ NoLesson \notin Lessons
  /\ Length \in [Lessons -> Nat]
  /\ DOMAIN Topic = Lessons /\ {"keep", "delete"} \cap Topics = {}
  /\ \A s \in Settings : s \in Setting /\ Len(s.old) <= NumRows

VARIABLES
  setting,    \* the setting of the behaviour, which never changes
  started,    \* operations started so far
  row,        \* the session-mined rows of cloud_outbox
  next,       \* the id the next row gets
  active,     \* topics with an active rule
  proc,       \* what each process is doing
  kept,       \* history: lessons a miner has reported as stored
  judged,     \* history: topics that lost a row to a judgement, or to its upload once
              \* they had an active rule
  reviewed,   \* history: lessons a user has rejected, or with an uploaded row
  overtaken   \* history: rows approved after somebody had chosen to delete them

vars == <<setting, started, row, next, active, proc, kept, judged, reviewed, overtaken>>
history == <<kept, judged, reviewed, overtaken>>

Procs == setting.procs

NoRow == [lesson |-> NoLesson]
Rows == {i \in Ids : row[i] # NoRow}

\* What a plan keeps of a candidate.
Candidate == [id : Ids, lesson : Lessons, session : Sessions, evidence : Nat]

\* The jobs of an operation.
Mine(l, s) == [job |-> "mine", lesson |-> l, session |-> s]
Store(l, s) == [job |-> "store", lesson |-> l, session |-> s]
Count(l, to, again) == [job |-> "count", lesson |-> l, to |-> to, again |-> again]
SetEvidence(l, n) == [job |-> "evidence", lesson |-> l, count |-> n]
SetTriage(l, to) == [job |-> "triage", lesson |-> l, to |-> to]
Delete(l) == [job |-> "delete", lesson |-> l]
Purge == [job |-> "purge"]
Clear(S) == [job |-> "clear", from |-> S]
Fold(S, to) == [job |-> "fold", from |-> S, to |-> to]
Gather(S, to, n) == [job |-> "gather", from |-> S, to |-> to, count |-> n]
Approve(l) == [job |-> "approve", lesson |-> l]
AlsoApprove(l) == [job |-> "also", lesson |-> l]
Reject(l) == [job |-> "reject", lesson |-> l]
Read(i) == [job |-> "read", id |-> i]
Mark(i, r) == [job |-> "mark", id |-> i, payload |-> r]
RemoveId(i) == [job |-> "remove", id |-> i]

\* The lessons of a group.
Group == {S \in SUBSET Lessons : IsFiniteSet(S)}

Job ==
  [job : {"mine", "store"}, lesson : Lessons, session : Sessions]
  \cup [job : {"count"}, lesson : Lessons, to : Lessons, again : BOOLEAN]
  \cup [job : {"evidence"}, lesson : Lessons, count : Nat]
  \cup {j \in [job : {"triage"}, lesson : Lessons, to : Lessons] : j.lesson # j.to}
  \cup [job : {"delete", "approve", "also", "reject"}, lesson : Lessons]
  \cup [job : {"purge"}]
  \cup [job : {"clear"}, from : Group]
  \cup [job : {"fold"}, from : Group, to : Lessons]
  \cup [job : {"gather"}, from : Group, to : Lessons, count : Nat]
  \cup [job : {"read", "remove"}, id : Ids]
  \cup [job : {"mark"}, id : Ids, payload : Row]

Process == [stage : {"idle", "mine", "review", "clean", "fold", "end"}, jobs : Seq(Job),
            todo : SUBSET Ids, loaded : BOOLEAN, plan : SUBSET Candidate,
            covered : SUBSET Topics, changed : BOOLEAN,
            circular : BOOLEAN]  \* history: the answer folds groups into each other
Idle == [stage |-> "idle", jobs |-> <<>>, todo |-> {}, loaded |-> FALSE, plan |-> {},
         covered |-> {}, changed |-> FALSE, circular |-> FALSE]

\* One type invariant for the table, the processes and the history.  A row that is
\* hidden names another lesson, and no id is given out twice.
TypeOK ==
  /\ setting \in Settings
  /\ started \in [{"mines", "reviews", "runs"} -> Nat]
  /\ row \in [Ids -> Row \cup {NoRow}]
  /\ next \in 1..NumRows + 1
  /\ \A i \in Ids : row[i] # NoRow => i < next
  /\ active \subseteq Topics
  /\ proc \in [AllProcs -> Process]
  /\ \A p \in AllProcs : proc[p].stage = "idle" => proc[p] = Idle
  /\ kept \subseteq Lessons /\ judged \subseteq Topics /\ reviewed \subseteq Lessons
  /\ overtaken \subseteq Ids

Init ==
  /\ setting \in Settings
  /\ started = [mines |-> 0, reviews |-> 0, runs |-> 0]
  /\ row = [i \in Ids |-> IF i <= Len(setting.old) THEN setting.old[i] ELSE NoRow]
  /\ next = Len(setting.old) + 1
  /\ active = {Topic[row[i].lesson] : i \in {k \in Rows : row[k].approved}}
  /\ proc = [p \in AllProcs |-> Idle]
  /\ kept = {} /\ judged = {} /\ reviewed = {} /\ overtaken = {}
-----------------------------------------------------------------------------
(* The table.                                                              *)

Hidden(i) == row[i].triage # "none"
Visible == {i \in Rows : ~row[i].approved /\ ~Hidden(i)}
Of(l) == {i \in Rows : row[i].lesson = l}

\* The evidence a candidate stands for, at least itself.
EvidenceOf(n) == IF n = 0 THEN 1 ELSE n

Present == {[id |-> i, lesson |-> row[i].lesson, session |-> row[i].session,
             evidence |-> row[i].evidence] : i \in Visible}

Begin(p, stage, jobs) == proc' = [proc EXCEPT ![p].stage = stage, ![p].jobs = jobs]
Started(kind) ==
  /\ started[kind] < setting[kind]
  /\ started' = [started EXCEPT ![kind] = @ + 1]
  /\ UNCHANGED setting

Busy(p) == proc[p].jobs # <<>>
Current(p) == Head(proc[p].jobs)
Doing(p, job) == Busy(p) /\ Current(p).job = job

\* The process is an autopilot run.
Running(p) == proc[p].stage \in {"clean", "fold", "end"}

\* The process with its current job replaced by others.
Then(q, jobs) == [q EXCEPT !.jobs = jobs \o Tail(q.jobs), !.todo = {}, !.loaded = FALSE]
-----------------------------------------------------------------------------
(* Mining: session_mine/worker.rs.                                         *)

StartMining(p) ==
  /\ proc[p].stage = "idle"
  /\ \E l \in Lessons, s \in setting.sessions : Begin(p, "mine", <<Mine(l, s)>>)
  /\ Started("mines")
  /\ UNCHANGED <<row, next, active, history>>

\* Mutant: the scan forgets to compare the candidates.
MatchesAnything(l) == Rows

\* The newest row of the same topic decides.  Evidence for a row that is hidden
\* behind another one counts for that one.
Matching(l) == {i \in Rows : Topic[row[i].lesson] = Topic[l]}
Behind(i) == IF row[i].triage = "superseded" THEN row[i].ref ELSE row[i].lesson

Scan(p) ==
  /\ Doing(p, "mine")
  /\ LET j == Current(p)
         m == Matching(j.lesson)
         i == Max(m)
     IN IF m = {}
        THEN proc' = [proc EXCEPT ![p] = Then(proc[p], <<Store(j.lesson, j.session)>>)] /\ UNCHANGED kept
        ELSE IF row[i].triage = "dropped"
        THEN proc' = [proc EXCEPT ![p] = Then(proc[p], <<>>)] /\ kept' = kept \cup {j.lesson}
        ELSE /\ proc' = [proc EXCEPT ![p] =
                  Then(proc[p], <<Count(j.lesson, Behind(i), row[i].session = j.session)>>)]
             /\ UNCHANGED kept
  /\ UNCHANGED <<setting, started, row, next, active, judged, reviewed, overtaken>>

\* The count is read in a second statement, and written in a third.
NextCount(i, again) == IF again THEN EvidenceOf(row[i].evidence) ELSE EvidenceOf(row[i].evidence) + 1

ReadCount(p) ==
  /\ Doing(p, "count")
  /\ LET j == Current(p)
     IN /\ \/ Of(j.to) = {} /\ proc' = [proc EXCEPT ![p] = Then(proc[p], <<>>)]
           \/ \E i \in Of(j.to) :
                proc' = [proc EXCEPT ![p] = Then(proc[p], <<SetEvidence(j.to, NextCount(i, j.again))>>)]
        /\ kept' = kept \cup {j.lesson}
  /\ UNCHANGED <<setting, started, row, next, active, judged, reviewed, overtaken>>

StoreCandidate(p) ==
  /\ Doing(p, "store") /\ next <= NumRows
  /\ LET j == Current(p)
     IN /\ row' = [row EXCEPT ![next] = [lesson |-> j.lesson, session |-> j.session, evidence |-> 0,
                                         triage |-> "none", ref |-> NoLesson, approved |-> FALSE]]
        /\ kept' = kept \cup {j.lesson}
  /\ next' = next + 1
  /\ proc' = [proc EXCEPT ![p] = Then(proc[p], <<>>)]
  /\ UNCHANGED <<setting, started, active, judged, reviewed, overtaken>>
-----------------------------------------------------------------------------
(* Jobs on all rows of a lesson: set_candidate_triage,                     *)
(* set_candidate_distinct_evidence_count and the two deletions.            *)

\* Mutant: a deletion does not look for the approval.
ChosenApprovedToo(j) ==
  CASE j.job = "evidence" -> {i \in Of(j.lesson) : row[i].evidence # j.count}
    [] j.job = "triage"   -> {i \in Of(j.lesson) : ~Hidden(i)}
    [] j.job = "delete"   -> Of(j.lesson)
    [] j.job = "purge"    -> {i \in Rows : row[i].triage = "dropped"}

\* The rows such a job selects.
Chosen(j) ==
  CASE j.job = "evidence" -> {i \in Of(j.lesson) : row[i].evidence # j.count}
    [] j.job = "triage"   -> {i \in Of(j.lesson) : ~Hidden(i)}
    [] j.job = "delete"   -> {i \in Of(j.lesson) : ~row[i].approved}
    [] j.job = "purge"    -> {i \in Rows : ~row[i].approved /\ row[i].triage = "dropped"}

Load(p) ==
  /\ Busy(p) /\ Current(p).job \in {"evidence", "triage", "delete", "purge"}
  /\ ~proc[p].loaded
  /\ proc' = [proc EXCEPT ![p] =
       IF Chosen(Current(p)) = {} THEN Then(proc[p], <<>>)
       ELSE [proc[p] EXCEPT !.todo = Chosen(Current(p)), !.loaded = TRUE]]
  /\ UNCHANGED <<setting, started, row, next, active, history>>

\* Mutant: the triage is written without its reference.
WrittenNoRef(j, r) ==
  CASE r = NoRow -> NoRow
    [] r # NoRow /\ j.job = "evidence" -> [r EXCEPT !.evidence = j.count]
    [] r # NoRow /\ j.job = "triage"   -> [r EXCEPT !.triage = "superseded"]
    [] OTHER -> NoRow

\* What the statement makes of the row with this id, wherever it is now.
Written(j, r) ==
  CASE r = NoRow -> NoRow
    [] r # NoRow /\ j.job = "evidence" -> [r EXCEPT !.evidence = j.count]
    [] r # NoRow /\ j.job = "triage"   -> [r EXCEPT !.triage = "superseded", !.ref = j.to]
    [] OTHER -> NoRow

Write(p) ==
  /\ Busy(p) /\ proc[p].loaded
  /\ LET i == Max(proc[p].todo)
         j == Current(p)
         q == [proc[p] EXCEPT !.changed = Running(p)]
     IN /\ row' = [row EXCEPT ![i] = Written(j, row[i])]
        /\ proc' = [proc EXCEPT ![p] =
             IF q.todo = {i} THEN Then(q, <<>>) ELSE [q EXCEPT !.todo = q.todo \ {i}]]
        /\ judged' = IF j.job \in {"delete", "purge"} /\ row[i] # NoRow
                     THEN judged \cup {Topic[row[i].lesson]} ELSE judged
  /\ UNCHANGED <<setting, started, next, active, kept, reviewed, overtaken>>
-----------------------------------------------------------------------------
(* Review: approve_session_mined_candidate, reject_session_mined_candidate *)
(* and the marking of the other candidates of a group.                     *)

StartReview(p) ==
  /\ proc[p].stage = "idle"
  /\ \E l \in Lessons : \E j \in {Approve(l), Reject(l)} : Begin(p, "review", <<j>>)
  /\ Started("reviews")
  /\ UNCHANGED <<row, next, active, history>>

\* find_session_mined_row_by_content_hash returns the newest visible row.  An
\* approval then remembers and promotes the rule, which RuleStore is about.  If
\* there is no such row, the command ends, and a run leaves the group.
Find(p) ==
  /\ Busy(p) /\ Current(p).job \in {"approve", "also", "reject"}
  /\ LET j == Current(p)
         f == Of(j.lesson) \cap Visible
     IN IF f = {}
        THEN /\ proc' = [proc EXCEPT ![p] = IF j.job = "also" THEN Then(proc[p], <<>>)
                                            ELSE [proc[p] EXCEPT !.jobs = <<>>]]
             /\ UNCHANGED active
        ELSE /\ proc' = [proc EXCEPT ![p] =
                  Then(proc[p], <<IF j.job = "reject" THEN RemoveId(Max(f)) ELSE Read(Max(f))>>)]
             /\ active' = IF j.job = "approve" THEN active \cup {Topic[j.lesson]} ELSE active
  /\ UNCHANGED <<setting, started, row, next, history>>

\* mark_session_mined_locally_approved reads the payload and writes it back; a row
\* that is gone is an error.
ReadPayload(p) ==
  /\ Doing(p, "read")
  /\ LET i == Current(p).id
     IN proc' = [proc EXCEPT ![p] = IF row[i] = NoRow THEN [proc[p] EXCEPT !.jobs = <<>>]
                                    ELSE Then(proc[p], <<Mark(i, row[i])>>)]
  /\ UNCHANGED <<setting, started, row, next, active, history>>

\* The rows somebody has chosen to delete.
Doomed == UNION {IF ~Busy(p) THEN {}
                 ELSE IF Current(p).job \in {"delete", "purge"} THEN proc[p].todo
                 ELSE IF Current(p).job = "remove" THEN {Current(p).id} ELSE {} : p \in Procs}

MarkApproved(p) ==
  /\ Doing(p, "mark")
  /\ LET j == Current(p)
     IN /\ row' = [row EXCEPT ![j.id] =
                     IF row[j.id] = NoRow THEN NoRow ELSE [j.payload EXCEPT !.approved = TRUE]]
        /\ overtaken' = overtaken \cup ({j.id} \cap Doomed)
  /\ proc' = [proc EXCEPT ![p] = Then(proc[p], <<>>)]
  /\ UNCHANGED <<setting, started, next, active, kept, judged, reviewed>>

RemoveRow(p) ==
  /\ Doing(p, "remove")
  /\ LET i == Current(p).id
     IN /\ row' = [row EXCEPT ![i] = NoRow]
        /\ judged' = judged \cup {Topic[row[k].lesson] : k \in {i} \cap Rows}
        /\ reviewed' = reviewed \cup {row[k].lesson : k \in {i} \cap Rows}
  /\ proc' = [proc EXCEPT ![p] = Then(proc[p], <<>>)]
  /\ UNCHANGED <<setting, started, next, active, kept, overtaken>>

\* A drain has claimed the approved row, the cloud has taken it, and confirm deletes
\* it.  What happens between the three is in Outbox.
Upload(i) ==
  /\ i \in Rows /\ row[i].approved
  /\ row' = [row EXCEPT ![i] = NoRow]
  /\ judged' = judged \cup ({Topic[row[i].lesson]} \cap active)
  /\ reviewed' = reviewed \cup {row[i].lesson}
  /\ UNCHANGED <<setting, started, next, active, proc, kept, overtaken>>
-----------------------------------------------------------------------------
(* The autopilot: memory_autopilot/run.rs and triage.rs.                   *)

\* The groups of a plan, the lessons of one, and the candidate that stands for it.
GroupsOf(q) == {Topic[c.lesson] : c \in q.plan}
Members(q, t) == {c \in q.plan : Topic[c.lesson] = t}
LessonsOf(q, t) == {c.lesson : c \in Members(q, t)}

Stronger(c, d) ==
  \/ Length[c.lesson] > Length[d.lesson]
  \/ /\ Length[c.lesson] = Length[d.lesson]
     /\ \/ EvidenceOf(c.evidence) > EvidenceOf(d.evidence)
        \/ EvidenceOf(c.evidence) = EvidenceOf(d.evidence) /\ c.id > d.id
Canonical(q, t) ==
  (CHOOSE c \in Members(q, t) : \A d \in Members(q, t) \ {c} : Stronger(c, d)).lesson

\* Mutant: the stored evidence is forgotten.
EvidenceForgotten(q, t) == Cardinality({c.session : c \in Members(q, t)})

\* The sessions a group comes from, or the evidence one of its rows has stored.
DistinctEvidence(q, t) ==
  Max({Cardinality({c.session : c \in Members(q, t)})}
      \cup {EvidenceOf(c.evidence) : c \in Members(q, t)})

\* One run at a time, by the lease.
StartRun(p) ==
  /\ proc[p].stage = "idle"
  /\ \A o \in Procs : ~Running(o)
  /\ LET q == [proc[p] EXCEPT !.stage = "clean", !.plan = Present,
                              !.covered = active \cap {Topic[c.lesson] : c \in Present}]
     IN proc' = [proc EXCEPT ![p] = [q EXCEPT !.jobs =
          <<Purge>> \o SetToSeq({Clear(LessonsOf(q, t)) : t \in q.covered})]]
  /\ Started("runs")
  /\ UNCHANGED <<row, next, active, history>>

\* The answer of the language model: for each group that no active rule covers,
\* keep it, delete it, or fold it into another one; and the order of the decisions.
Answers(q) ==
  LET G == GroupsOf(q) \ q.covered
  IN {d \in [G -> {"keep", "delete"} \cup G] : \A t \in G : d[t] # t}

\* Following the folds of the answer from some group leads back to it.
Circular(d) == \E S \in SUBSET DOMAIN d : S # {} /\ \A t \in S : d[t] \in S

\* Mutant: what else the answer says of the target of a fold is not looked at.
NoDeletionTargets(d) == {}

\* Groups the answer deletes are not folded into.
DeletionTargets(d) == {t \in DOMAIN d : d[t] = "delete"}

\* The groups the answer deletes or folds, and the job on each.
Touched(d) == {t \in DOMAIN d : d[t] # "keep" /\ d[t] \notin DeletionTargets(d)}
Decided(q, d, t) ==
  IF d[t] = "delete" THEN Clear(LessonsOf(q, t))
  ELSE Fold(LessonsOf(q, t), Canonical(q, d[t]))

\* The deterministic pass over the same plan.
Folded(q, t) == Gather(LessonsOf(q, t), Canonical(q, t), DistinctEvidence(q, t))

TriageGroups(p) ==
  /\ proc[p].stage = "clean" /\ ~Busy(p)
  /\ LET q == proc[p]
         G == GroupsOf(q) \ q.covered
     IN \E d \in Answers(q) : \E order \in SetToSeqs(Touched(d)) :
          proc' = [proc EXCEPT ![p] = [q EXCEPT !.stage = "fold", !.circular = Circular(d),
            !.jobs = [k \in 1..Len(order) |-> Decided(q, d, order[k])]
                     \o SetToSeq({Folded(q, t) : t \in G})]]
  /\ UNCHANGED <<setting, started, row, next, active, history>>

\* A job on a group becomes jobs on its lessons.  Before the members of one are
\* folded into another, live_session_candidate_exists looks for a row of it.
FoldInto(S, to) == SetToSeq({SetTriage(l, to) : l \in S \ {to}})
Expanded(j) ==
  CASE j.job = "clear" -> SetToSeq({Delete(l) : l \in j.from})
    [] j.job = "fold" -> IF Of(j.to) = {} THEN <<>> ELSE FoldInto(j.from, j.to)
    [] j.job = "gather" -> <<SetEvidence(j.to, j.count)>> \o FoldInto(j.from, j.to)

TurnToGroup(p) ==
  /\ Busy(p) /\ Current(p).job \in {"clear", "fold", "gather"}
  /\ proc' = [proc EXCEPT ![p] = Then(proc[p], Expanded(Current(p)))]
  /\ UNCHANGED <<setting, started, row, next, active, history>>

\* The run plans again if it has changed anything, and enables a group, if one is
\* classified as safe to enable.
Enable(p) ==
  /\ proc[p].stage = "fold" /\ ~Busy(p)
  /\ LET q == IF proc[p].changed
              THEN [proc[p] EXCEPT !.plan = Present,
                                   !.covered = active \cap {Topic[c.lesson] : c \in Present}]
              ELSE proc[p]
     IN \/ proc' = [proc EXCEPT ![p] = [q EXCEPT !.stage = "end"]]
        \/ \E t \in GroupsOf(q) \ q.covered : \E first \in LessonsOf(q, t) :
             proc' = [proc EXCEPT ![p] = [q EXCEPT !.stage = "end", !.jobs =
               <<Approve(first)>> \o SetToSeq({AlsoApprove(l) : l \in LessonsOf(q, t)})]]
  /\ UNCHANGED <<setting, started, row, next, active, history>>

\* A command, a miner or a run ends.
End(p) ==
  /\ proc[p].stage \in {"mine", "review", "end"} /\ ~Busy(p)
  /\ proc' = [proc EXCEPT ![p] = Idle]
  /\ UNCHANGED <<setting, started, row, next, active, history>>

\* A process is killed, or the database refuses a statement.
Die(p) ==
  /\ proc[p].stage # "idle"
  /\ proc' = [proc EXCEPT ![p] = Idle]
  /\ UNCHANGED <<setting, started, row, next, active, history>>

Step(p) ==
  \/ StartMining(p) \/ Scan(p) \/ ReadCount(p) \/ StoreCandidate(p)
  \/ Load(p) \/ Write(p)
  \/ StartReview(p) \/ Find(p) \/ ReadPayload(p) \/ MarkApproved(p) \/ RemoveRow(p)
  \/ StartRun(p) \/ TriageGroups(p) \/ TurnToGroup(p) \/ Enable(p)
  \/ End(p) \/ Die(p)

Next == (\E p \in Procs : Step(p)) \/ (\E i \in Ids : Upload(i))

Spec == Init /\ [][Next]_vars
-----------------------------------------------------------------------------
(* Properties.                                                             *)

Alone == Cardinality(Procs) = 1

\* A lesson that is in sight: one of its rows is approved or not hidden, or was, until
\* a user rejected it or the drain uploaded it.
InSight(l) == l \in reviewed \/ \E i \in Of(l) : row[i].approved \/ ~Hidden(i)

\* When the triage of a run ends, each candidate it has hidden is behind one that
\* is in sight, directly or through others: no duplicate is folded into a candidate
\* that the same run deletes (deletion_targets and live_session_candidate_exists,
\* triage.rs), whatever miners and reviewers do meanwhile.  An answer that folds
\* groups into each other is excepted: the code takes it and hides them all.
FoldedBehindLive ==
  \A p \in Procs : proc[p].stage = "fold" /\ ~Busy(p) /\ ~proc[p].circular =>
    \A c \in proc[p].plan : c.id \in Rows /\ row[c.id].triage = "superseded" =>
      \A S \in SUBSET Lessons :
        /\ row[c.id].lesson \in S
        /\ \A i \in Rows : row[i].lesson \in S /\ row[i].triage = "superseded" => row[i].ref \in S
        => \E l \in S : InSight(l)

\* A mined lesson that was reported as stored is in the table, under its own text or
\* that of a lesson that matches it, unless a judgement has removed one of these, or
\* its upload has, after a rule of the topic had become active: the approval promotes
\* the rule before it marks a row for the drain (enqueue_candidate, worker.rs,
\* approve_session_mined_candidate, memory_inbox.rs, confirm, outbox.rs).
MinedIsKept == \A l \in kept : Topic[l] \in judged \/ Matching(l) # {}

\* For one process, evidence is never lost: neither a run that folds a group nor a
\* miner that counts a lesson again lowers the count (distinct_evidence_count,
\* triage.rs, and fold_existing_session_candidate, worker.rs).
EvidenceNeverFalls ==
  [][Alone => \A i \in Rows : row'[i] # NoRow => row'[i].evidence >= row[i].evidence]_vars

\* An approved candidate waits in the outbox until its upload deletes it: triage and
\* rejection remove it only if they had chosen it before it was approved.
ApprovedIsKept ==
  [][\A i \in Rows : row[i].approved /\ row'[i] = NoRow => i \in overtaken \/ Upload(i)]_vars
=============================================================================
