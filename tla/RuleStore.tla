----------------------------- MODULE RuleStore -----------------------------
(***************************************************************************)
(* The local rules (table skills): how a rule gets in, is reviewed and is  *)
(* served (crates/difflore-core/src/skills/remember.rs and candidates.rs,  *)
(* memory_inbox.rs and memory_autopilot/).  Imports of review comments and *)
(* approvals of session-mined candidates remember a pending draft, behind  *)
(* a ladder of look-ups for a rule that is already there; agents remember  *)
(* active rules; a reviewer or the autopilot promotes a draft, possibly    *)
(* with a text the curator refined, or rejects it, which leaves a          *)
(* tombstone for the imports.  `cloud sync` pulls the rules published in   *)
(* the cloud (skills/cloud_sync.rs), and `skills sweep` sets rules without *)
(* guidance back to pending (skills/sweep.rs).  Each statement is a step   *)
(* of its own, and any number of processes (hooks, commands, MCP servers)  *)
(* share the table.                                                        *)
(*                                                                         *)
(* A text stands for title, body and file patterns, and for their SHA-256; *)
(* a row keeps the hash of the text it was stored with.  The score is the  *)
(* number of 0.05 steps above the seed.  A row with status "deleted" is    *)
(* not in the table any more; its id, a UUID, is not used again, while a   *)
(* rule of the cloud may be withdrawn and published again under its id.    *)
(***************************************************************************)
EXTENDS Naturals

CONSTANTS
  AllProcs,  \* processes
  Texts,     \* rule texts
  Repos,     \* repository scopes
  NoRepo,    \* source_repo IS NULL
  NoText,    \* the text of a row that was never inserted
  Unguided,  \* texts with the title of a review, and no file pattern or trigger
  Cap,       \* steps to REMEMBER_CONVERSATION_CONFIDENCE_CAP
  NumRules,  \* bound: rows ever inserted
  Settings   \* the settings a behaviour may have

Ids == 1..NumRules
AllOps == {"import", "distill", "session", "capture", "review", "sync", "sweep"}

\* The processes of a behaviour, the texts, the pairs of them that
\* semantic_rules_match holds for, the operations processes start, the rows that
\* are inserted here, and the rows of the cloud, each with the repository it is
\* published for, and those that were extracted there from reviews; publications
\* bounds the changes made in the cloud.
Setting == [procs : SUBSET AllProcs, texts : SUBSET Texts, alike : SUBSET SUBSET Texts,
            ops : SUBSET AllOps, own : SUBSET Ids,
            published : UNION {[S -> Repos \cup {NoRepo}] : S \in SUBSET Ids},
            extracted : SUBSET Ids, publications : Nat]

ASSUME RuleStoreAssumption ==
  /\ NoRepo \notin Repos /\ NoText \notin Texts /\ Unguided \subseteq Texts
  /\ Cap \in Nat /\ NumRules \in Nat
  /\ \A s \in Settings : s \in Setting /\ s.own \cap DOMAIN s.published = {}

VARIABLES
  setting,   \* the setting of the behaviour, which never changes
  cloud,     \* the texts of the rules this user can see in the cloud
  changes,   \* changes made there so far
  rule,      \* table skills
  rejected,  \* table rejected_signatures
  session,   \* session-mined candidates of the outbox, and the rule they became
  proc       \* what each process is doing

vars == <<setting, cloud, changes, rule, rejected, session, proc>>
farVars == <<setting, cloud, changes>>

Procs == setting.procs
Ops == setting.ops
CloudIds == DOMAIN setting.published

Statuses == {"absent", "pending", "active", "disabled", "deleted"}
Row == [status : Statuses, hash : Texts \cup {NoText}, text : Texts \cup {NoText},
        origin : {"pr_review", "session_mined", "conversation", "cloud"},
        repo : Repos \cup {NoRepo}, score : 0..Cap]
NoRow == [status |-> "absent", hash |-> NoText, text |-> NoText,
          origin |-> "conversation", repo |-> NoRepo, score |-> 0]

Session == [state : {"none", "proposed", "approved", "gone"}, rule : 0..NumRules]

PCs == {"idle", "tombstone", "activeSame", "pendingSame", "activeAlike", "pendingAlike",
        "conversation", "insert", "bump", "bumpWrite", "attach", "refine", "select",
        "duplicate", "activate", "mark", "drop", "quarantine", "pull", "applyPull",
        "team", "applyTeam"}

\* ids, sent and got belong to the sweep and to the sync: the rows selected, the
\* texts whose hashes were sent, and what the cloud answered for each row.
\* fresh is history: nothing has changed in the cloud, or in its rows here,
\* since the sync read them, but by the sync itself.
Verbs == {"none", "create", "update", "delete"}
Proc == [pc : PCs, op : AllOps, text : Texts \cup {NoText}, repo : Repos \cup {NoRepo},
         id : 0..NumRules, score : 0..Cap, ids : SUBSET Ids,
         sent : [Ids -> Texts \cup {NoText}],
         got : [Ids -> [verb : Verbs, text : Texts \cup {NoText}]], fresh : BOOLEAN]
Nothing == [i \in Ids |-> [verb |-> "none", text |-> NoText]]
Idle == [pc |-> "idle", op |-> "review", text |-> NoText, repo |-> NoRepo, id |-> 0,
         score |-> 0, ids |-> {}, sent |-> [i \in Ids |-> NoText], got |-> Nothing,
         fresh |-> FALSE]

Init ==
  /\ setting \in Settings
  /\ cloud = [i \in Ids |-> NoText] /\ changes = 0
  /\ rule = [i \in Ids |-> NoRow]
  /\ rejected = {}
  /\ session = [s \in Texts \X Repos |-> [state |-> "none", rule |-> 0]]
  /\ proc = [p \in AllProcs |-> Idle]

Outdated == [p \in AllProcs |-> [proc[p] EXCEPT !.fresh = FALSE]]
Go(p, q) == proc' = [proc EXCEPT ![p] = q]
At(p, pc) == [proc[p] EXCEPT !.pc = pc]
Stored(i) == i \in Ids /\ rule[i].status \in {"pending", "active", "disabled"}

-----------------------------------------------------------------------------
(* Operations begin                                                        *)

StartImport(p, op, t, r) ==
  /\ proc[p].pc = "idle" /\ op \in Ops \cap {"import", "distill"}
  /\ Go(p, [Idle EXCEPT !.pc = "tombstone", !.op = op, !.text = t, !.repo = r])
  /\ UNCHANGED <<farVars, rule, rejected, session>>

\* approve_session_mined_candidate finds a row that is not approved yet.
StartSession(p, t, r) ==
  /\ proc[p].pc = "idle" /\ "session" \in Ops /\ session[<<t, r>>].state = "proposed"
  /\ Go(p, [Idle EXCEPT !.pc = "pendingSame", !.op = "session", !.text = t, !.repo = r])
  /\ UNCHANGED <<farVars, rule, rejected, session>>

\* remember_rule over MCP, in a repository or where no remote is found.
StartCapture(p, t, r) ==
  /\ proc[p].pc = "idle" /\ "capture" \in Ops
  /\ Go(p, [Idle EXCEPT !.pc = "conversation", !.op = "capture", !.text = t, !.repo = r])
  /\ UNCHANGED <<farVars, rule, rejected, session>>

\* A reviewer or the autopilot approves a draft it has read.
StartReview(p, i) ==
  /\ proc[p].pc = "idle" /\ "review" \in Ops /\ rule[i].status = "pending"
  /\ Go(p, [Idle EXCEPT !.pc = "refine", !.id = i])
  /\ UNCHANGED <<farVars, rule, rejected, session>>

-----------------------------------------------------------------------------
(* remember_inner: the dedup ladder, then the insert                       *)

IsRejected(t) == t \in rejected

\* is_rejected_signature, before the import remembers anything.
CheckTombstone(p) ==
  /\ proc[p].pc = "tombstone"
  /\ Go(p, IF IsRejected(proc[p].text) THEN Idle ELSE At(p, "activeSame"))
  /\ UNCHANGED <<farVars, rule, rejected, session>>

StatusOf(op) == IF op = "capture" THEN "active" ELSE "pending"
OriginOf(op) == CASE op = "session" -> "session_mined"
                  [] op = "capture" -> "conversation"
                  [] OTHER -> "pr_review"

Like(a, b) == a = b \/ {a, b} \in setting.alike

\* Mutant: the pending rung does not look at the status.
MatchesAnyTier(row, rung, q) ==
  /\ rung = "pendingSame" /\ row.status \in {"pending", "active"} /\ row.hash = q.text
  /\ row.repo = q.repo

\* Mutant: an import looks for drafts only.
DraftsOnly(row, rung, q) ==
  rung = "pendingSame" /\ row.status = "pending" /\ row.hash = q.text /\ row.repo = q.repo

\* The WHERE clause of each rung.  A session-mined candidate is remembered
\* without a repository, so its rung does not compare it.
Matches(row, rung, q) ==
  \/ rung = "activeSame" /\ row.status = "active" /\ row.hash = q.text /\ row.repo = q.repo
  \/ /\ rung = "pendingSame" /\ row.status = "pending" /\ row.hash = q.text
     /\ q.op = "session" \/ row.repo = q.repo
  \/ /\ rung \in {"activeAlike", "pendingAlike"}
     /\ row.status = (IF rung = "activeAlike" THEN "active" ELSE "pending")
     /\ row.origin = "pr_review" /\ row.repo = q.repo /\ Like(row.text, q.text)
  \/ /\ rung = "conversation" /\ row.origin = "conversation"
     /\ row.status = StatusOf(q.op) /\ row.text = q.text

NextRung(op, rung) ==
  CASE rung = "activeSame" -> "pendingSame"
    [] rung = "pendingSame" -> IF op = "session" THEN "conversation" ELSE "activeAlike"
    [] rung = "activeAlike" -> "pendingAlike"
    [] rung = "pendingAlike" -> "conversation"
    [] rung = "conversation" -> "insert"

\* A rung finds nothing,
RungMisses(p) ==
  /\ proc[p].pc \in {"activeSame", "pendingSame", "activeAlike", "pendingAlike",
                     "conversation"}
  /\ \A i \in Ids : ~Matches(rule[i], proc[p].pc, proc[p])
  /\ Go(p, At(p, NextRung(proc[p].op, proc[p].pc)))
  /\ UNCHANGED <<farVars, rule, rejected, session>>

\* or the oldest match: an approved rule is left as it is, a rule of the
\* capture's own tier is strengthened.
RungHits(p, i) ==
  /\ proc[p].pc \in {"activeSame", "pendingSame", "activeAlike", "pendingAlike",
                     "conversation"}
  /\ Matches(rule[i], proc[p].pc, proc[p])
  /\ \A j \in Ids : Matches(rule[j], proc[p].pc, proc[p]) => i <= j
  /\ Go(p, IF proc[p].pc \in {"activeSame", "activeAlike"} THEN Idle
           ELSE [At(p, "bump") EXCEPT !.id = i])
  /\ UNCHANGED <<farVars, rule, rejected, session>>

\* What follows once the rule is stored: a candidate and a capture are attached
\* to their repository, and write_agent_candidates promotes a rule that is new.
Remembered(p, i, new) ==
  CASE proc[p].op \in {"session", "capture"} /\ proc[p].repo # NoRepo
         -> [At(p, "attach") EXCEPT !.id = i]
    [] proc[p].op = "distill" /\ new -> [At(p, "select") EXCEPT !.id = i]
    [] OTHER -> Idle

\* strengthen_existing_remember_rule reads the score,
BumpRead(p) ==
  /\ proc[p].pc = "bump"
  /\ Go(p, IF Stored(proc[p].id)
           THEN [At(p, "bumpWrite") EXCEPT !.score = rule[proc[p].id].score] ELSE Idle)
  /\ UNCHANGED <<farVars, rule, rejected, session>>

NoCeiling(n) == n + 1                          \* mutant: confidence grows for ever
Strengthened(n) == IF n < Cap THEN n + 1 ELSE Cap

\* and writes it by id.  A row that is gone is an error further on.
BumpWrite(p) ==
  /\ proc[p].pc = "bumpWrite"
  /\ IF Stored(proc[p].id)
     THEN /\ rule' = [rule EXCEPT ![proc[p].id].score = Strengthened(proc[p].score)]
          /\ Go(p, Remembered(p, proc[p].id, FALSE))
     ELSE rule' = rule /\ Go(p, Idle)
  /\ UNCHANGED <<farVars, rejected, session>>

Insert(p, i) ==
  /\ proc[p].pc = "insert"
  /\ i \in setting.own /\ rule[i].status = "absent"
  /\ \A j \in setting.own : j < i => rule[j].status # "absent"
  /\ rule' = [rule EXCEPT ![i] =
       [status |-> StatusOf(proc[p].op), hash |-> proc[p].text, text |-> proc[p].text,
        origin |-> OriginOf(proc[p].op),
        repo |-> IF proc[p].op \in {"session", "capture"} THEN NoRepo ELSE proc[p].repo,
        score |-> 0]]
  /\ Go(p, Remembered(p, i, TRUE))
  /\ UNCHANGED <<farVars, rejected, session>>

-----------------------------------------------------------------------------
(* Promotion                                                               *)

\* attach_session_candidate_repo_scope, and the UPDATE at the end of
\* tool_remember_rule: a rule that has no repository gets one.
Attach(p) ==
  LET i == proc[p].id
  IN /\ proc[p].pc = "attach"
     /\ rule' = IF Stored(i) /\ rule[i].repo \in {NoRepo, proc[p].repo}
                THEN [rule EXCEPT ![i].repo = proc[p].repo] ELSE rule
     /\ Go(p, IF proc[p].op = "session" THEN At(p, "select") ELSE Idle)
     /\ UNCHANGED <<farVars, rejected, session>>

\* update_pending_draft_with_refined_rule: the curator's text replaces that of
\* an imported draft, and the hash stays.  Without a recommendation nothing
\* changes.
Refine(p) ==
  LET i == proc[p].id
  IN /\ proc[p].pc = "refine"
     /\ \/ rule' = rule
        \/ /\ rule[i].status = "pending" /\ rule[i].origin = "pr_review"
           /\ \E t \in setting.texts : rule' = [rule EXCEPT ![i].text = t]
     /\ Go(p, At(p, "select"))
     /\ UNCHANGED <<farVars, rejected, session>>

AnyError(p) == proc[p].op = "session"          \* mutant: every failure is taken for it
\* An approval takes "already active" for success.
AlreadyActive(p) == proc[p].op = "session" /\ rule[proc[p].id].status = "active"

NotPending(p) == Go(p, IF AlreadyActive(p) THEN At(p, "mark") ELSE Idle)

\* promote_candidate reads the draft,
Select(p) ==
  /\ proc[p].pc = "select"
  /\ IF rule[proc[p].id].status = "pending" THEN Go(p, At(p, "duplicate")) ELSE NotPending(p)
  /\ UNCHANGED <<farVars, rule, rejected, session>>

ActiveDuplicate(h) == \E j \in Ids : rule[j].status = "active" /\ rule[j].hash = h

\* looks for an active rule with its hash,
CheckDuplicate(p) ==
  /\ proc[p].pc = "duplicate"
  /\ Go(p, IF ActiveDuplicate(rule[proc[p].id].hash) THEN Idle ELSE At(p, "activate"))
  /\ UNCHANGED <<farVars, rule, rejected, session>>

AnyRow(i) == Stored(i)                         \* mutant: AND status = 'pending' is dropped
StillPending(i) == rule[i].status = "pending"

\* and activates the draft if it is still one.
Activate(p) ==
  /\ proc[p].pc = "activate"
  /\ IF StillPending(proc[p].id)
     THEN /\ rule' = [rule EXCEPT ![proc[p].id].status = "active"]
          /\ Go(p, IF proc[p].op = "session" THEN At(p, "mark") ELSE Idle)
     ELSE rule' = rule /\ NotPending(p)
  /\ UNCHANGED <<farVars, rejected, session>>

\* mark_session_mined_locally_approved
Mark(p) ==
  LET s == <<proc[p].text, proc[p].repo>>
  IN /\ proc[p].pc = "mark"
     /\ session' = IF session[s].state = "gone" THEN session
                   ELSE [session EXCEPT ![s] = [state |-> "approved", rule |-> proc[p].id]]
     /\ Go(p, Idle)
     /\ UNCHANGED <<farVars, rule, rejected>>

-----------------------------------------------------------------------------
(* Rejection, and the rest                                                 *)

\* reject_candidate: one transaction.
Reject(p, i) ==
  /\ proc[p].pc = "idle" /\ "review" \in Ops /\ rule[i].status = "pending"
  /\ rule' = [rule EXCEPT ![i].status = "deleted"]
  /\ rejected' = rejected \cup {rule[i].hash}
  /\ UNCHANGED <<farVars, session, proc>>

\* disable_memory_rule: the row is read first, and the UPDATE names the status too.
Disable(p, i) ==
  /\ proc[p].pc = "idle" /\ "review" \in Ops /\ rule[i].status = "active"
  /\ rule' = [rule EXCEPT ![i].status = "disabled"]
  /\ proc' = IF i \in CloudIds THEN Outdated ELSE proc
  /\ UNCHANGED <<farVars, rejected, session>>

\* The session miner queues a candidate.
Propose(t, r) ==
  /\ "session" \in Ops /\ session[<<t, r>>].state = "none"
  /\ session' = [session EXCEPT ![<<t, r>>].state = "proposed"]
  /\ UNCHANGED <<farVars, rule, rejected, proc>>

\* reject_session_mined_candidate finds a candidate that is not approved, and
\* deletes its row by id.
FindRejected(p, t, r) ==
  /\ proc[p].pc = "idle" /\ session[<<t, r>>].state = "proposed"
  /\ Go(p, [Idle EXCEPT !.pc = "drop", !.text = t, !.repo = r])
  /\ UNCHANGED <<farVars, rule, rejected, session>>

DeleteRejected(p) ==
  /\ proc[p].pc = "drop"
  /\ session' = [session EXCEPT ![<<proc[p].text, proc[p].repo>>].state = "gone"]
  /\ Go(p, Idle)
  /\ UNCHANGED <<farVars, rule, rejected>>

\* The outbox delivers an approved candidate and deletes its row.
Upload(t, r) ==
  /\ session[<<t, r>>].state = "approved"
  /\ session' = [session EXCEPT ![<<t, r>>].state = "gone"]
  /\ UNCHANGED <<farVars, rule, rejected, proc>>

-----------------------------------------------------------------------------
(* skills sweep --quarantine-unguided                                      *)

\* quarantine_unguided_conv_reviews selects the active rules,
SelectUnguided(p) ==
  LET S == {i \in Ids : /\ rule[i].status = "active"
                        /\ rule[i].hash \in Unguided /\ rule[i].text \in Unguided}
  IN /\ proc[p].pc = "idle" /\ "sweep" \in Ops /\ S # {}
     /\ Go(p, [Idle EXCEPT !.pc = "quarantine", !.op = "sweep", !.ids = S])
     /\ UNCHANGED <<farVars, rule, rejected, session>>

\* and makes drafts of them by id, in a transaction.
Quarantine(p) ==
  /\ proc[p].pc = "quarantine"
  /\ rule' = [i \in Ids |-> IF i \in proc[p].ids /\ Stored(i)
                            THEN [rule[i] EXCEPT !.status = "pending"] ELSE rule[i]]
  /\ Go(p, Idle)
  /\ UNCHANGED <<farVars, rejected, session>>

-----------------------------------------------------------------------------
(* cloud sync: the pull of rules                                           *)

Visible(i) == cloud[i] # NoText

\* A rule extracted from reviews should have a repository.
LacksRepo(i) == i \in setting.extracted /\ rule[i].repo = NoRepo

ListedAll(i) == Stored(i) /\ i \in CloudIds     \* mutant: disabled rules are listed
\* handle_sync lists the active rules, leaves out (prepare_excluded_ids) what is
\* not from the cloud and what was extracted there and has no repository, and
\* hashes the rest.
Listed(i) == rule[i].status = "active" /\ i \in CloudIds /\ ~LacksRepo(i)

StartSync(p) ==
  /\ proc[p].pc = "idle" /\ "sync" \in Ops
  /\ Go(p, [Idle EXCEPT !.pc = "pull", !.op = "sync", !.fresh = TRUE,
             !.sent = [i \in Ids |-> IF Listed(i) THEN rule[i].text ELSE NoText]])
  /\ UNCHANGED <<farVars, rule, rejected, session>>

\* POST /rules/sync: the cloud compares the hashes with what the user can see.
Diff(i, sent) ==
  CASE sent = NoText /\ Visible(i) -> "create"
    [] sent # NoText /\ ~Visible(i) -> "delete"
    [] sent # NoText /\ Visible(i) /\ sent # cloud[i] -> "update"
    [] OTHER -> "none"

SyncSkills(p) ==
  /\ proc[p].pc = "pull"
  /\ Go(p, [At(p, "applyPull") EXCEPT
             !.got = [i \in Ids |-> [verb |-> Diff(i, proc[p].sent[i]), text |-> cloud[i]]]])
  /\ UNCHANGED <<farVars, rule, rejected, session>>

\* apply_sync_result, a transaction.  A created rule is inserted or overwrites
\* the row with its id, an updated one must still be there; both end up active,
\* and apply_cloud_source_repo fills in a repository that is missing.
Applied(i, g) ==
  LET scoped == IF rule[i].repo = NoRepo THEN setting.published[i] ELSE rule[i].repo
  IN CASE g.verb = "create" \/ (g.verb = "update" /\ Stored(i)) ->
            [rule[i] EXCEPT !.status = "active", !.text = g.text, !.origin = "cloud",
                            !.repo = scoped]
       [] g.verb = "delete" -> NoRow
       [] OTHER -> rule[i]

ApplySyncResult(p) ==
  /\ proc[p].pc \in {"applyPull", "applyTeam"}
  /\ rule' = [i \in Ids |-> Applied(i, proc[p].got[i])]
  /\ LET q == IF rule' = rule THEN proc ELSE Outdated
     IN proc' = [q EXCEPT ![p] = IF proc[p].pc = "applyTeam" THEN Idle
                                 ELSE [At(p, "team") EXCEPT !.got = Nothing]]
  /\ UNCHANGED <<farVars, rejected, session>>

\* An error of the first transaction is reported, and the sync goes on.
ApplyFails(p) ==
  /\ proc[p].pc = "applyPull"
  /\ Go(p, [At(p, "team") EXCEPT !.got = Nothing, !.fresh = FALSE])
  /\ UNCHANGED <<farVars, rule, rejected, session>>

\* sync_team_skills: all that is visible is applied as if it were new.
SyncTeamSkills(p) ==
  /\ proc[p].pc = "team"
  /\ Go(p, [At(p, "applyTeam") EXCEPT
             !.got = [i \in Ids |-> [verb |-> IF Visible(i) THEN "create" ELSE "none",
                                     text |-> cloud[i]]]])
  /\ UNCHANGED <<farVars, rule, rejected, session>>

\* Somebody publishes, changes or withdraws a rule in the cloud.
Publish(i, t) ==
  /\ changes < setting.publications /\ cloud[i] # t
  /\ changes' = changes + 1
  /\ cloud' = [cloud EXCEPT ![i] = t]
  /\ proc' = Outdated
  /\ UNCHANGED <<setting, rule, rejected, session>>

-----------------------------------------------------------------------------
\* A process is killed, or a statement of it fails.
Crash(p) ==
  /\ proc[p].pc # "idle"
  /\ Go(p, Idle)
  /\ UNCHANGED <<farVars, rule, rejected, session>>

Next ==
  \/ \E p \in Procs, t \in setting.texts, r \in Repos :
       \/ \E op \in {"import", "distill"} : StartImport(p, op, t, r)
       \/ StartSession(p, t, r) \/ FindRejected(p, t, r)
  \/ \E p \in Procs, t \in setting.texts, r \in Repos \cup {NoRepo} : StartCapture(p, t, r)
  \/ \E p \in Procs, i \in Ids : \/ StartReview(p, i) \/ RungHits(p, i) \/ Insert(p, i)
                                 \/ Reject(p, i) \/ Disable(p, i)
  \/ \E p \in Procs : \/ CheckTombstone(p) \/ RungMisses(p) \/ BumpRead(p) \/ BumpWrite(p)
                      \/ Attach(p) \/ Refine(p) \/ Select(p) \/ CheckDuplicate(p)
                      \/ Activate(p) \/ Mark(p) \/ DeleteRejected(p)
                      \/ SelectUnguided(p) \/ Quarantine(p) \/ StartSync(p) \/ SyncSkills(p)
                      \/ ApplySyncResult(p) \/ ApplyFails(p) \/ SyncTeamSkills(p) \/ Crash(p)
  \/ \E t \in setting.texts, r \in Repos : Propose(t, r) \/ Upload(t, r)
  \/ \E i \in CloudIds, t \in setting.texts \cup {NoText} : Publish(i, t)

Spec == Init /\ [][Next]_vars

-----------------------------------------------------------------------------

\* Every variable has its type; a remembered rule never passes the ceiling of
\* REMEMBER_CONVERSATION_CONFIDENCE_CAP.
TypeOK ==
  /\ setting \in Settings /\ cloud \in [Ids -> Texts \cup {NoText}]
  /\ changes \in 0..setting.publications
  /\ rule \in [Ids -> Row] /\ rejected \subseteq Texts
  /\ session \in [Texts \X Repos -> Session] /\ proc \in [AllProcs -> Proc]

\* A session-mined candidate is marked approved, and so let through to the
\* cloud, only with a rule that was really activated here, whatever other
\* approvals, rejections and crashes came between the steps of its approval.
\* (A sweep may since have set a rule stored without guidance back to pending.)
ApprovedIsActivated ==
  \A s \in Texts \X Repos : session[s].state = "approved" =>
     LET i == session[s].rule
     IN i \in Ids /\ \/ rule[i].status \in {"active", "disabled"}
                     \/ "sweep" \in Ops /\ rule[i].hash \in Unguided

\* A rule somebody disabled here is not served again: no promotion that started
\* before activates it afterwards.  (A sync reactivates a rule of the cloud.)
DisabledStaysOff ==
  [][\A i \in Ids \ CloudIds : rule[i].status = "disabled" => rule'[i].status # "active"]_vars

\* apply_sync_result, with the exclusions of prepare_excluded_ids and the two
\* rounds of handle_sync: once the first round is applied, and unless something
\* changed after it read the table, the rules served from the cloud are those
\* published there, with their text, whatever was disabled, withdrawn, changed or
\* half synced before.  Only a withdrawn rule that was extracted and has no
\* repository may stay: it is not listed, and so never reported as deleted.
SyncCatchesUp ==
  \A p \in Procs : proc[p].pc \in {"team", "applyTeam"} /\ proc[p].fresh =>
    \A i \in CloudIds :
      /\ Visible(i) => rule[i].status = "active" /\ rule[i].text = cloud[i]
      /\ ~Visible(i) /\ ~LacksRepo(i) => rule[i].status # "active"

\* The steps of the ladder and of a promotion are separate statements: what they
\* promise together they promise a single process.
Alone == \E p \in AllProcs : Procs = {p}

Inserts(p) == proc[p].pc = "insert" /\ proc'[p].pc # "insert" /\ rule' # rule

\* remember_inner: "Review re-import must not fork a duplicate PENDING draft of
\* content the user already approved".
NoForkedDraft ==
  [][\A p \in Procs : Alone /\ Inserts(p) /\ proc[p].op \in {"import", "distill"} =>
       \A i \in Ids : ~(/\ rule[i].status = "active" /\ rule[i].hash = proc[p].text
                        /\ rule[i].repo = proc[p].repo)]_vars

Promotes(i) == rule[i].status = "pending" /\ rule'[i].status = "active"

\* run_memory_autopilot relies on promote_candidate to refuse a draft that
\* equals an active rule of its repository after the curator rewrote it.
PromotesNoCopy ==
  [][\A i, j \in Ids : Promotes(i) /\ rule[j].status = "active" =>
       rule[j].text # rule[i].text \/ rule[j].repo # rule[i].repo]_vars

\* remember_as_candidate: "an untrusted draft can never strengthen or inherit
\* trust from an already-approved active rule".
TrustTiersApart ==
  [][\A p \in Procs, i \in Ids :
       /\ Alone /\ proc[p].pc = "bumpWrite" /\ proc[p].op # "capture" /\ proc'[p] # proc[p]
       /\ rule'[i].score > rule[i].score
       => rule[i].status = "pending"]_vars
=============================================================================
