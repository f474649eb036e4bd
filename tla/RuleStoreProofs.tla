--------------------------- MODULE RuleStoreProofs ---------------------------
(***************************************************************************)
(* Proofs about RuleStore, for any set of processes, texts, repositories   *)
(* and rows, and for every setting: all operations may run together.       *)
(***************************************************************************)
EXTENDS RuleStore, TLAPS

-----------------------------------------------------------------------------
(* The inductive invariant.  Rows of the cloud and rows remembered here are *)
(* kept apart: only the sync and the user's disabling touch the former,     *)
(* only the other operations the latter.                                    *)

Rungs == {"activeSame", "pendingSame", "activeAlike", "pendingAlike", "conversation"}
Storing == Rungs \cup {"tombstone", "bump", "bumpWrite", "insert", "attach"}
Naming == {"bump", "bumpWrite", "attach", "refine", "select", "duplicate", "activate", "mark"}
Syncing == {"pull", "applyPull", "team", "applyTeam"}

\* A row of the cloud has no hash, and is served or disabled; a row stored here
\* has the hash of its first text.
RowOK(i, r) ==
  /\ i \in CloudIds =>
       /\ r.hash = NoText
       /\ r.status # "absent" =>
            r.status \in {"active", "disabled"} /\ r.origin = "cloud" /\ r.text # NoText
  /\ i \notin CloudIds => IF r.status = "absent" THEN r.hash = NoText ELSE r.hash \in Texts

\* The locals of a process at each point: what it stores is a text, the row it
\* names is not of the cloud, what it quarantines was stored without guidance,
\* what it syncs is of the cloud.
ProcOK(q, table) ==
  /\ q.pc \in Storing =>
       q.op \in {"import", "distill", "session", "capture"} /\ q.text \in Texts
  /\ q.pc \in Naming => q.id \in Ids \ CloudIds
  /\ q.pc = "mark" => q.op = "session"
  /\ q.pc = "quarantine" => "sweep" \in Ops /\ \A i \in q.ids : table[i].hash \in Unguided
  /\ \A i \in Ids : i \notin CloudIds => q.sent[i] = NoText /\ q.got[i].verb = "none"
  /\ \A i \in Ids : q.got[i].verb \in {"create", "update"} => q.got[i].text # NoText
  /\ q.fresh => q.pc \in Syncing

\* The inductive invariant behind all others.
StoreInv ==
  /\ TypeOK
  /\ \A i \in Ids : i \notin CloudIds => cloud[i] = NoText
  /\ \A i \in Ids : RowOK(i, rule[i])
  /\ \A p \in AllProcs : ProcOK(proc[p], rule)

\* A rule that was activated here, and not quarantined since unless it was
\* stored without guidance.
Activated(r) ==
  \/ r.status \in {"active", "disabled"}
  \/ "sweep" \in Ops /\ r.hash \in Unguided

\* Approvals that are recorded, or about to be, name an activated rule.
ApprovalInv ==
  /\ \A p \in AllProcs : proc[p].pc = "mark" => Activated(rule[proc[p].id])
  /\ \A s \in Texts \X Repos : session[s].state = "approved" =>
       session[s].rule \in Ids \ CloudIds /\ Activated(rule[session[s].rule])

\* The hash handle_sync sends for row i.
Hashed(i) == IF Listed(i) THEN rule[i].text ELSE NoText

\* The rules served from the cloud are those published there.
CaughtUp ==
  \A i \in CloudIds :
    /\ Visible(i) => rule[i].status = "active" /\ rule[i].text = cloud[i]
    /\ ~Visible(i) /\ ~LacksRepo(i) => rule[i].status # "active"

\* What a sync knows of the cloud and its rows here while it is fresh.
Informed(q) ==
  q.fresh =>
    /\ q.pc = "pull" => \A i \in CloudIds : q.sent[i] = Hashed(i)
    /\ q.pc = "applyPull" => \A i \in CloudIds :
         q.got[i].verb = Diff(i, Hashed(i)) /\ q.got[i].text = cloud[i]
    /\ q.pc \in {"team", "applyTeam"} => CaughtUp

FreshInv == \A p \in AllProcs : Informed(proc[p])

\* What a single process has learnt on the ladder.
Climbed(q) ==
  /\ /\ q.pc \in {"pendingSame", "activeAlike", "pendingAlike", "conversation", "insert"}
     /\ q.op \in {"import", "distill"}
     => \A i \in Ids : ~(/\ rule[i].status = "active" /\ rule[i].hash = q.text
                         /\ rule[i].repo = q.repo)
  /\ q.pc \in {"bump", "bumpWrite"} /\ q.op # "capture" => rule[q.id].status = "pending"

LadderInv == Alone => \A p \in Procs : Climbed(proc[p])

-----------------------------------------------------------------------------
(* Lemmas about the operators                                              *)

\* What the assumption says of the setting of a behaviour.
LEMMA SettingFacts ==
  ASSUME TypeOK
  PROVE  /\ Procs \subseteq AllProcs /\ setting.texts \subseteq Texts
         /\ setting.own \subseteq Ids /\ CloudIds \subseteq Ids
         /\ setting.own \cap CloudIds = {}
         /\ \A i \in CloudIds : setting.published[i] \in Repos \cup {NoRepo}
         /\ setting.publications \in Nat
<1>1. setting \in Setting /\ setting.own \cap CloudIds = {}
  BY RuleStoreAssumption DEF TypeOK, CloudIds
<1>2. /\ setting.procs \subseteq AllProcs /\ setting.texts \subseteq Texts
      /\ setting.own \subseteq Ids /\ setting.publications \in Nat
      /\ setting.published \in UNION {[S -> Repos \cup {NoRepo}] : S \in SUBSET Ids}
  BY <1>1 DEF Setting
<1>3. PICK S \in SUBSET Ids : setting.published \in [S -> Repos \cup {NoRepo}]
  BY <1>2
<1>4. CloudIds = S
  BY <1>3 DEF CloudIds
<1>5. QED
  BY <1>1, <1>2, <1>3, <1>4 DEF Procs

\* A process that does nothing.
LEMMA IdleFits ==
  /\ Idle \in Proc /\ \A table : ProcOK(Idle, table)
  /\ Idle.pc = "idle" /\ Idle.op = "review" /\ Idle.fresh = FALSE /\ Idle.ids = {}
<1>1. [i \in Ids |-> NoText] \in [Ids -> Texts \cup {NoText}]
  OBVIOUS
<1>2. Nothing \in [Ids -> [verb : Verbs, text : Texts \cup {NoText}]]
  BY DEF Nothing, Verbs
<1>3. 0 \in 0..NumRules /\ 0 \in 0..Cap
  BY RuleStoreAssumption
<1>4. Idle \in Proc
  BY <1>1, <1>2, <1>3 DEF Idle, Proc, PCs, AllOps
<1>5. ASSUME NEW table PROVE ProcOK(Idle, table)
  BY DEF ProcOK, Idle, Nothing, Storing, Rungs, Naming
<1>6. QED
  BY <1>4, <1>5 DEF Idle

\* A step preserves the invariant when its types are right, it stays in its
\* setting, and the new rows and processes are as they should be.
LEMMA Assembled ==
  ASSUME StoreInv, TypeOK', setting' = setting,
         \A i \in Ids : i \notin CloudIds => cloud'[i] = NoText,
         \A i \in Ids : RowOK(i, rule'[i]),
         \A p \in AllProcs : ProcOK(proc'[p], rule')
  PROVE  StoreInv'
<1>1. CloudIds' = CloudIds /\ Ops' = Ops
  BY DEF CloudIds, Ops
<1>2. ASSUME NEW i \in Ids PROVE RowOK(i, rule[i])'
  <2>1. RowOK(i, rule'[i])
    OBVIOUS
  <2>2. QED
    BY <1>1, <2>1 DEF RowOK
<1>3. ASSUME NEW p \in AllProcs PROVE ProcOK(proc[p], rule)'
  <2>1. ProcOK(proc'[p], rule')
    OBVIOUS
  <2>2. QED
    BY <1>1, <2>1 DEF ProcOK
<1>4. QED
  BY <1>1, <1>2, <1>3 DEF StoreInv

\* A step of process p that changes nothing but its locals.
LEMMA LocalStep ==
  ASSUME StoreInv, NEW p \in AllProcs, NEW q \in Proc, ProcOK(q, rule), Go(p, q),
         UNCHANGED <<farVars, rule, rejected>>,
         session' \in [Texts \X Repos -> Session]
  PROVE  StoreInv'
<1>1. /\ setting' = setting /\ cloud' = cloud /\ changes' = changes
      /\ rule' = rule /\ rejected' = rejected
  BY DEF farVars
<1>2. proc \in [AllProcs -> Proc]
  BY DEF StoreInv, TypeOK
<1>3. proc' = [proc EXCEPT ![p] = q]
  BY DEF Go
<1>4. proc' \in [AllProcs -> Proc]
  BY <1>2, <1>3
<1>5. TypeOK'
  BY <1>1, <1>4 DEF StoreInv, TypeOK
<1>6. \A r \in AllProcs : ProcOK(proc'[r], rule')
  BY <1>1, <1>2, <1>3 DEF StoreInv
<1>7. QED
  BY <1>1, <1>5, <1>6, Assembled DEF StoreInv

\* The next statement of the same operation.
LEMMA AtFits ==
  ASSUME StoreInv, NEW p \in AllProcs, NEW c \in PCs \ {"idle"},
         proc[p].pc \notin Syncing,
         c \in Storing => proc[p].pc \in Storing,
         c \in Naming => proc[p].pc \in Naming,
         c = "mark" => proc[p].op = "session",
         c # "quarantine"
  PROVE  At(p, c) \in Proc /\ ProcOK(At(p, c), rule)
<1>1. proc[p] \in Proc /\ ProcOK(proc[p], rule)
  BY DEF StoreInv, TypeOK
<1>2. At(p, c) \in Proc
  BY <1>1 DEF At, Proc
<1>3. /\ At(p, c).pc = c /\ At(p, c).op = proc[p].op /\ At(p, c).text = proc[p].text
      /\ At(p, c).id = proc[p].id /\ At(p, c).sent = proc[p].sent
      /\ At(p, c).got = proc[p].got /\ At(p, c).fresh = proc[p].fresh
  BY <1>1 DEF At, Proc
<1>4. ProcOK(At(p, c), rule)
  BY <1>1, <1>3, Zenon DEF ProcOK
<1>5. QED
  BY <1>2, <1>4

\* The same, with the row it is about.
LEMMA AtRowFits ==
  ASSUME StoreInv, NEW p \in AllProcs, NEW c \in PCs \ {"idle"}, NEW i \in Ids \ CloudIds,
         proc[p].pc \notin Syncing,
         c \in Storing => proc[p].pc \in Storing,
         c = "mark" => proc[p].op = "session",
         c # "quarantine"
  PROVE  [At(p, c) EXCEPT !.id = i] \in Proc /\ ProcOK([At(p, c) EXCEPT !.id = i], rule)
<1> DEFINE q == [At(p, c) EXCEPT !.id = i]
<1>1. proc[p] \in Proc /\ ProcOK(proc[p], rule)
  BY DEF StoreInv, TypeOK
<1>2. i \in 0..NumRules
  BY RuleStoreAssumption DEF Ids
<1>3. q \in Proc
  BY <1>1, <1>2 DEF At, Proc
<1>4. /\ q.pc = c /\ q.op = proc[p].op /\ q.text = proc[p].text
      /\ q.id = i /\ q.sent = proc[p].sent
      /\ q.got = proc[p].got /\ q.fresh = proc[p].fresh
  BY <1>1 DEF At, Proc
<1> HIDE DEF q
<1>5. ProcOK(q, rule)
  BY <1>1, <1>4, Zenon DEF ProcOK
<1>6. QED
  BY <1>3, <1>5 DEF q

-----------------------------------------------------------------------------
(* Steps that change nothing but the locals of a process                   *)

\* An operation that remembers a text begins.
LEMMA StartFits ==
  ASSUME NEW c \in {"tombstone", "pendingSame", "conversation"},
         NEW o \in {"import", "distill", "session", "capture"},
         NEW t \in Texts, NEW r \in Repos \cup {NoRepo}
  PROVE  LET q == [Idle EXCEPT !.pc = c, !.op = o, !.text = t, !.repo = r]
         IN q \in Proc /\ \A table : ProcOK(q, table)
<1> DEFINE q == [Idle EXCEPT !.pc = c, !.op = o, !.text = t, !.repo = r]
<1>1. Idle \in Proc /\ ProcOK(Idle, rule)
  BY IdleFits
<1>2. q \in Proc
  BY <1>1 DEF Proc, PCs, AllOps
<1>3. /\ q.pc = c /\ q.op = o /\ q.text = t /\ q.sent = Idle.sent
      /\ q.got = Idle.got /\ q.fresh = FALSE
  BY DEF Idle
<1> HIDE DEF q
<1>4. \A table : ProcOK(q, table)
  BY <1>1, <1>3 DEF ProcOK, Naming, Storing, Rungs
<1>5. QED
  BY <1>2, <1>4 DEF q

\* The operations begin.
LEMMA StartStep ==
  ASSUME StoreInv, NEW p \in AllProcs, NEW t \in Texts, NEW r \in Repos \cup {NoRepo},
         \/ \E o \in {"import", "distill"} : StartImport(p, o, t, r)
         \/ StartSession(p, t, r) \/ StartCapture(p, t, r)
  PROVE  StoreInv'
<1>1. PICK c \in {"tombstone", "pendingSame", "conversation"},
           o \in {"import", "distill", "session", "capture"} :
        Go(p, [Idle EXCEPT !.pc = c, !.op = o, !.text = t, !.repo = r])
  <2>1. CASE \E o \in {"import", "distill"} : StartImport(p, o, t, r)
    BY <2>1, Zenon DEF StartImport
  <2>2. CASE StartSession(p, t, r)
    BY <2>2, Zenon DEF StartSession
  <2>3. CASE StartCapture(p, t, r)
    BY <2>3, Zenon DEF StartCapture
  <2>4. QED
    BY <2>1, <2>2, <2>3
<1> DEFINE q == [Idle EXCEPT !.pc = c, !.op = o, !.text = t, !.repo = r]
<1>2. q \in Proc /\ ProcOK(q, rule)
  BY StartFits
<1>3. UNCHANGED <<farVars, rule, rejected, session>>
  BY DEF StartImport, StartSession, StartCapture
<1> HIDE DEF q
<1>4. Go(p, q)
  BY <1>1 DEF q
<1>5. QED
  BY <1>2, <1>3, <1>4, LocalStep DEF StoreInv, TypeOK

\* A review of a draft, a rejection of a candidate, a sweep or a sync begins.
LEMMA OtherStart ==
  ASSUME StoreInv, NEW p \in AllProcs,
         \/ \E i \in Ids : StartReview(p, i)
         \/ \E t \in Texts, r \in Repos : FindRejected(p, t, r)
         \/ SelectUnguided(p) \/ StartSync(p)
  PROVE  StoreInv'
<1>1. UNCHANGED <<farVars, rule, rejected, session>>
  BY DEF StartReview, FindRejected, SelectUnguided, StartSync
<1>2. session \in [Texts \X Repos -> Session] /\ rule \in [Ids -> Row]
  BY DEF StoreInv, TypeOK
<1>3. Idle \in Proc /\ ProcOK(Idle, rule)
  BY IdleFits
<1>4. ASSUME NEW i \in Ids, StartReview(p, i) PROVE StoreInv'
  <2> DEFINE q == [Idle EXCEPT !.pc = "refine", !.id = i]
  <2>1. i \notin CloudIds
    <3>1. RowOK(i, rule[i]) /\ rule[i].status = "pending"
      BY <1>4 DEF StoreInv, StartReview
    <3>2. QED
      BY <3>1 DEF RowOK
  <2>2. i \in 0..NumRules
    BY RuleStoreAssumption DEF Ids
  <2>3. q \in Proc
    BY <1>3, <2>2 DEF Proc, PCs
  <2>4. /\ q.pc = "refine" /\ q.id = i /\ q.sent = Idle.sent /\ q.got = Idle.got
        /\ q.fresh = FALSE
    BY DEF Idle
  <2>5. Go(p, q)
    BY <1>4 DEF StartReview
  <2> HIDE DEF q
  <2>6. ProcOK(q, rule)
    BY <1>3, <2>1, <2>4 DEF ProcOK, Storing, Rungs
  <2>7. QED
    BY <1>1, <1>2, <2>3, <2>5, <2>6, LocalStep
<1>5. ASSUME NEW t \in Texts, NEW r \in Repos, FindRejected(p, t, r) PROVE StoreInv'
  <2> DEFINE q == [Idle EXCEPT !.pc = "drop", !.text = t, !.repo = r]
  <2>1. q \in Proc
    BY <1>3 DEF Proc, PCs
  <2>2. q.pc = "drop" /\ q.sent = Idle.sent /\ q.got = Idle.got /\ q.fresh = FALSE
    BY DEF Idle
  <2>3. Go(p, q)
    BY <1>5 DEF FindRejected
  <2> HIDE DEF q
  <2>4. ProcOK(q, rule)
    BY <1>3, <2>2 DEF ProcOK, Storing, Rungs, Naming
  <2>5. QED
    BY <1>1, <1>2, <2>1, <2>3, <2>4, LocalStep
<1>6. CASE SelectUnguided(p)
  <2> DEFINE S == {i \in Ids : /\ rule[i].status = "active"
                               /\ rule[i].hash \in Unguided /\ rule[i].text \in Unguided}
             q == [Idle EXCEPT !.pc = "quarantine", !.op = "sweep", !.ids = S]
  <2>1. S \subseteq Ids /\ \A i \in S : rule[i].hash \in Unguided
    OBVIOUS
  <2>2. Go(p, q) /\ "sweep" \in Ops
    BY <1>6 DEF SelectUnguided
  <2> HIDE DEF S
  <2>3. q \in Proc
    BY <1>3, <2>1 DEF Proc, PCs, AllOps
  <2>4. /\ q.pc = "quarantine" /\ q.ids = S /\ q.sent = Idle.sent /\ q.got = Idle.got
        /\ q.fresh = FALSE
    BY DEF Idle
  <2> HIDE DEF q
  <2>5. ProcOK(q, rule)
    BY <1>3, <2>1, <2>2, <2>4 DEF ProcOK, Storing, Rungs, Naming
  <2>6. QED
    BY <1>1, <1>2, <2>2, <2>3, <2>5, LocalStep
<1>7. CASE StartSync(p)
  <2> DEFINE z == [i \in Ids |-> IF Listed(i) THEN rule[i].text ELSE NoText]
             q == [Idle EXCEPT !.pc = "pull", !.op = "sync", !.fresh = TRUE, !.sent = z]
  <2>1. z \in [Ids -> Texts \cup {NoText}]
    BY <1>2 DEF Row
  <2>2. \A i \in Ids : i \notin CloudIds => z[i] = NoText
    BY DEF Listed
  <2>3. Go(p, q)
    BY <1>7 DEF StartSync
  <2> HIDE DEF z
  <2>4. q \in Proc
    BY <1>3, <2>1 DEF Proc, PCs, AllOps
  <2>5. q.pc = "pull" /\ q.sent = z /\ q.got = Idle.got
    BY DEF Idle
  <2> HIDE DEF q
  <2>6. ProcOK(q, rule)
    BY <1>3, <2>2, <2>5 DEF ProcOK, Storing, Rungs, Naming, Syncing
  <2>7. QED
    BY <1>1, <1>2, <2>3, <2>4, <2>6, LocalStep
<1>8. QED
  BY <1>4, <1>5, <1>6, <1>7

\* A row the ladder finds, or that is a draft, is not of the cloud.
LEMMA FoundHere ==
  ASSUME StoreInv, NEW p \in AllProcs, NEW i \in Ids, RungHits(p, i),
         proc[p].pc \notin {"activeSame", "activeAlike"}
  PROVE  i \notin CloudIds
<1>1. RowOK(i, rule[i]) /\ Matches(rule[i], proc[p].pc, proc[p])
  BY DEF StoreInv, RungHits
<1>2. proc[p].pc \in {"pendingSame", "pendingAlike", "conversation"}
  BY DEF RungHits
<1>3. rule[i].status = "pending" \/
      (rule[i].origin = "conversation" /\ rule[i].status \in {"pending", "active"})
  BY <1>1, <1>2 DEF Matches, StatusOf
<1>4. QED
  BY <1>1, <1>3 DEF RowOK

\* The ladder: a tombstone is found or not, a rung finds nothing or a rule.
LEMMA LadderStep ==
  ASSUME StoreInv, NEW p \in AllProcs,
         CheckTombstone(p) \/ RungMisses(p) \/ \E i \in Ids : RungHits(p, i)
  PROVE  StoreInv'
<1>1. UNCHANGED <<farVars, rule, rejected, session>>
  BY DEF CheckTombstone, RungMisses, RungHits
<1>2. session \in [Texts \X Repos -> Session]
  BY DEF StoreInv, TypeOK
<1>3. Idle \in Proc /\ ProcOK(Idle, rule)
  BY IdleFits
<1>4. proc[p].pc \in Rungs \cup {"tombstone"}
  BY DEF CheckTombstone, RungMisses, RungHits, Rungs
<1>5. proc[p].pc \in Storing /\ proc[p].pc \notin Syncing
  BY <1>4 DEF Rungs, Storing, Syncing
<1>6. CASE Go(p, Idle)
  BY <1>1, <1>2, <1>3, <1>6, LocalStep
<1>7. ASSUME NEW c \in Rungs \cup {"insert"}, Go(p, At(p, c)) PROVE StoreInv'
  <2>1. c \in PCs \ {"idle"} /\ c \notin Naming /\ c \notin {"mark", "quarantine"}
    BY DEF Rungs, PCs, Naming
  <2>2. At(p, c) \in Proc /\ ProcOK(At(p, c), rule)
    BY <1>5, <2>1, AtFits
  <2>3. QED
    BY <1>1, <1>2, <1>7, <2>2, LocalStep
<1>8. CASE CheckTombstone(p)
  BY <1>6, <1>7, <1>8 DEF CheckTombstone, Rungs
<1>9. CASE RungMisses(p)
  <2>1. NextRung(proc[p].op, proc[p].pc) \in Rungs \cup {"insert"}
    BY <1>9 DEF RungMisses, NextRung, Rungs
  <2>2. QED
    BY <1>7, <1>9, <2>1 DEF RungMisses
<1>10. ASSUME NEW i \in Ids, RungHits(p, i) PROVE StoreInv'
  <2>1. CASE proc[p].pc \in {"activeSame", "activeAlike"}
    BY <1>6, <1>10, <2>1 DEF RungHits
  <2>2. CASE proc[p].pc \notin {"activeSame", "activeAlike"}
    <3>1. i \in Ids \ CloudIds
      BY <1>10, <2>2, FoundHere
    <3>2. "bump" \in PCs \ {"idle"}
      BY DEF PCs
    <3> DEFINE q == [At(p, "bump") EXCEPT !.id = i]
    <3>3. q \in Proc /\ ProcOK(q, rule)
      BY <1>5, <3>1, <3>2, AtRowFits
    <3>4. Go(p, q)
      BY <1>10, <2>2 DEF RungHits
    <3> HIDE DEF q
    <3>5. QED
      BY <1>1, <1>2, <3>3, <3>4, LocalStep
  <2>3. QED
    BY <2>1, <2>2
<1>11. QED
  BY <1>8, <1>9, <1>10

\* The reads of a strengthening and of a promotion, and a crash.
LEMMA ReadStep ==
  ASSUME StoreInv, NEW p \in AllProcs,
         BumpRead(p) \/ Select(p) \/ CheckDuplicate(p) \/ Crash(p)
  PROVE  StoreInv'
<1>1. UNCHANGED <<farVars, rule, rejected, session>>
  BY DEF BumpRead, Select, CheckDuplicate, Crash
<1>2. session \in [Texts \X Repos -> Session]
  BY DEF StoreInv, TypeOK
<1>3. Idle \in Proc /\ ProcOK(Idle, rule)
  BY IdleFits
<1>4. CASE Go(p, Idle)
  BY <1>1, <1>2, <1>3, <1>4, LocalStep
<1>5. ASSUME NEW c \in {"duplicate", "activate", "mark"}, Go(p, At(p, c)),
             proc[p].pc \in {"select", "duplicate"}, c = "mark" => proc[p].op = "session"
      PROVE  StoreInv'
  <2>1. c \in PCs \ {"idle"} /\ c \notin Storing /\ c # "quarantine"
    BY DEF PCs, Storing, Rungs
  <2>2. proc[p].pc \in Naming /\ proc[p].pc \notin Syncing
    BY <1>5 DEF Naming, Syncing
  <2>3. At(p, c) \in Proc /\ ProcOK(At(p, c), rule)
    BY <1>5, <2>1, <2>2, AtFits
  <2>4. QED
    BY <1>1, <1>2, <1>5, <2>3, LocalStep
<1>6. CASE Select(p)
  <2>1. proc[p].pc = "select"
    BY <1>6 DEF Select
  <2>2. \/ Go(p, Idle) \/ Go(p, At(p, "duplicate"))
        \/ Go(p, At(p, "mark")) /\ proc[p].op = "session"
    BY <1>6, Zenon DEF Select, NotPending, AlreadyActive
  <2>3. QED
    BY <1>4, <1>5, <2>1, <2>2
<1>7. CASE CheckDuplicate(p)
  BY <1>4, <1>5, <1>7 DEF CheckDuplicate
<1>8. CASE BumpRead(p)
  <2> DEFINE n == rule[proc[p].id].score
             q == [At(p, "bumpWrite") EXCEPT !.score = n]
  <2>1. proc[p].pc = "bump" /\ (Go(p, Idle) \/ (Stored(proc[p].id) /\ Go(p, q)))
    BY <1>8, Zenon DEF BumpRead
  <2>2. CASE Stored(proc[p].id) /\ Go(p, q)
    <3>1. n \in 0..Cap
      BY <2>2 DEF Stored, StoreInv, TypeOK, Row
    <3>2. "bumpWrite" \in PCs \ {"idle"} /\ "bump" \in Storing \cap Naming /\ "bump" \notin Syncing
      BY DEF PCs, Storing, Naming, Syncing
    <3>3. At(p, "bumpWrite") \in Proc /\ ProcOK(At(p, "bumpWrite"), rule)
      BY <2>1, <3>2, AtFits
    <3> HIDE DEF n
    <3>4. q \in Proc
      BY <3>1, <3>3 DEF Proc
    <3>5. /\ q.pc = At(p, "bumpWrite").pc /\ q.op = At(p, "bumpWrite").op
          /\ q.text = At(p, "bumpWrite").text /\ q.id = At(p, "bumpWrite").id
          /\ q.ids = At(p, "bumpWrite").ids /\ q.sent = At(p, "bumpWrite").sent
          /\ q.got = At(p, "bumpWrite").got /\ q.fresh = At(p, "bumpWrite").fresh
      BY <3>3 DEF Proc
    <3> HIDE DEF q
    <3>6. ProcOK(q, rule)
      BY <3>3, <3>5 DEF ProcOK
    <3>7. QED
      BY <1>1, <1>2, <2>2, <3>4, <3>6, LocalStep
  <2>3. QED
    BY <1>4, <2>1, <2>2
<1>9. CASE Crash(p)
  BY <1>4, <1>9 DEF Crash
<1>10. QED
  BY <1>6, <1>7, <1>8, <1>9

\* The answers of the cloud, and a transaction that fails.
LEMMA AnswerStep ==
  ASSUME StoreInv, NEW p \in AllProcs,
         SyncSkills(p) \/ ApplyFails(p) \/ SyncTeamSkills(p)
  PROVE  StoreInv'
<1>1. UNCHANGED <<farVars, rule, rejected, session>>
  BY DEF SyncSkills, ApplyFails, SyncTeamSkills
<1>2. /\ session \in [Texts \X Repos -> Session] /\ cloud \in [Ids -> Texts \cup {NoText}]
      /\ proc[p] \in Proc /\ ProcOK(proc[p], rule)
      /\ \A i \in Ids : i \notin CloudIds => cloud[i] = NoText
  BY DEF StoreInv, TypeOK
<1>3. ASSUME NEW c \in {"applyPull", "team", "applyTeam"}, NEW b \in BOOLEAN,
             NEW g \in [Ids -> [verb : Verbs, text : Texts \cup {NoText}]],
             \A i \in Ids : i \notin CloudIds => g[i].verb = "none",
             \A i \in Ids : g[i].verb \in {"create", "update"} => g[i].text # NoText,
             Go(p, [proc[p] EXCEPT !.pc = c, !.got = g, !.fresh = b])
      PROVE  StoreInv'
  <2> DEFINE q == [proc[p] EXCEPT !.pc = c, !.got = g, !.fresh = b]
  <2>1. q \in Proc
    BY <1>2 DEF Proc, PCs
  <2>2. q.pc = c /\ q.sent = proc[p].sent /\ q.got = g
    BY <1>2 DEF Proc
  <2>3. Go(p, q)
    BY <1>3
  <2> HIDE DEF q
  <2>4. ProcOK(q, rule)
    BY <1>2, <1>3, <2>2 DEF ProcOK, Storing, Rungs, Naming, Syncing
  <2>5. QED
    BY <1>1, <1>2, <2>1, <2>3, <2>4, LocalStep
<1>4. CASE SyncSkills(p)
  <2> DEFINE g == [i \in Ids |-> [verb |-> Diff(i, proc[p].sent[i]), text |-> cloud[i]]]
  <2>1. \A i \in Ids : Diff(i, proc[p].sent[i]) \in Verbs
    BY DEF Diff, Verbs
  <2>2. g \in [Ids -> [verb : Verbs, text : Texts \cup {NoText}]]
    BY <1>2, <2>1
  <2>3. \A i \in Ids : i \notin CloudIds => g[i].verb = "none"
    BY <1>2 DEF ProcOK, Diff, Visible
  <2>4. \A i \in Ids : g[i].verb \in {"create", "update"} => g[i].text # NoText
    BY DEF Diff, Visible
  <2>5. Go(p, [At(p, "applyPull") EXCEPT !.got = g])
    BY <1>4 DEF SyncSkills
  <2> HIDE DEF g
  <2>6. [At(p, "applyPull") EXCEPT !.got = g]
          = [proc[p] EXCEPT !.pc = "applyPull", !.got = g, !.fresh = proc[p].fresh]
    BY <1>2 DEF At, Proc
  <2>7. proc[p].fresh \in BOOLEAN
    BY <1>2 DEF Proc
  <2>8. Go(p, [proc[p] EXCEPT !.pc = "applyPull", !.got = g, !.fresh = proc[p].fresh])
    BY <2>5, <2>6
  <2>9. QED
    BY <1>3, <2>2, <2>3, <2>4, <2>7, <2>8
<1>5. CASE ApplyFails(p)
  <2>1. Nothing \in [Ids -> [verb : Verbs, text : Texts \cup {NoText}]]
    BY DEF Nothing, Verbs
  <2>2. \A i \in Ids : Nothing[i].verb = "none"
    BY DEF Nothing
  <2>3. Go(p, [At(p, "team") EXCEPT !.got = Nothing, !.fresh = FALSE])
    BY <1>5 DEF ApplyFails
  <2>4. [At(p, "team") EXCEPT !.got = Nothing, !.fresh = FALSE]
          = [proc[p] EXCEPT !.pc = "team", !.got = Nothing, !.fresh = FALSE]
    BY <1>2 DEF At, Proc
  <2>5. Go(p, [proc[p] EXCEPT !.pc = "team", !.got = Nothing, !.fresh = FALSE])
    BY <2>3, <2>4
  <2>6. QED
    BY <1>3, <2>1, <2>2, <2>5
<1>6. CASE SyncTeamSkills(p)
  <2> DEFINE g == [i \in Ids |-> [verb |-> IF Visible(i) THEN "create" ELSE "none",
                                  text |-> cloud[i]]]
  <2>1. g \in [Ids -> [verb : Verbs, text : Texts \cup {NoText}]]
    BY <1>2 DEF Verbs
  <2>2. \A i \in Ids : i \notin CloudIds => g[i].verb = "none"
    BY <1>2 DEF Visible
  <2>3. \A i \in Ids : g[i].verb \in {"create", "update"} => g[i].text # NoText
    BY DEF Visible
  <2>4. Go(p, [At(p, "applyTeam") EXCEPT !.got = g])
    BY <1>6 DEF SyncTeamSkills
  <2> HIDE DEF g
  <2>5. [At(p, "applyTeam") EXCEPT !.got = g]
          = [proc[p] EXCEPT !.pc = "applyTeam", !.got = g, !.fresh = proc[p].fresh]
    BY <1>2 DEF At, Proc
  <2>6. proc[p].fresh \in BOOLEAN
    BY <1>2 DEF Proc
  <2>7. Go(p, [proc[p] EXCEPT !.pc = "applyTeam", !.got = g, !.fresh = proc[p].fresh])
    BY <2>4, <2>5
  <2>8. QED
    BY <1>3, <2>1, <2>2, <2>3, <2>6, <2>7
<1>7. QED
  BY <1>4, <1>5, <1>6

\* Candidates are proposed, approved, rejected and uploaded.
LEMMA SessionStep ==
  ASSUME StoreInv,
         \/ \E p \in AllProcs : Mark(p) \/ DeleteRejected(p)
         \/ \E t \in Texts, r \in Repos : Propose(t, r) \/ Upload(t, r)
  PROVE  StoreInv'
<1>1. session \in [Texts \X Repos -> Session] /\ proc \in [AllProcs -> Proc]
  BY DEF StoreInv, TypeOK
<1>2. UNCHANGED <<farVars, rule, rejected>>
  BY DEF Mark, DeleteRejected, Propose, Upload
<1>3. ASSUME NEW p \in AllProcs, Mark(p) \/ DeleteRejected(p) PROVE StoreInv'
  <2>1. session' \in [Texts \X Repos -> Session]
    <3>1. CASE Mark(p)
      <4>1. [state |-> "approved", rule |-> proc[p].id] \in Session
        BY <1>1 DEF Proc, Session
      <4>2. QED
        BY <1>1, <3>1, <4>1 DEF Mark
    <3>2. CASE DeleteRejected(p)
      BY <1>1, <3>2 DEF DeleteRejected, Session
    <3>3. QED
      BY <1>3, <3>1, <3>2
  <2>2. Go(p, Idle)
    BY <1>3 DEF Mark, DeleteRejected
  <2>3. QED
    BY <1>2, <2>1, <2>2, IdleFits, LocalStep
<1>4. ASSUME NEW t \in Texts, NEW r \in Repos, Propose(t, r) \/ Upload(t, r)
      PROVE  StoreInv'
  <2>1. session' \in [Texts \X Repos -> Session]
    <3>1. PICK x \in {"proposed", "gone"} : session' = [session EXCEPT ![<<t, r>>].state = x]
      BY <1>4 DEF Propose, Upload
    <3>2. [session[<<t, r>>] EXCEPT !.state = x] \in Session
      BY <1>1 DEF Session
    <3>3. QED
      BY <1>1, <3>1, <3>2
  <2>2. /\ setting' = setting /\ cloud' = cloud /\ changes' = changes /\ proc' = proc
        /\ rule' = rule /\ rejected' = rejected
    BY <1>2, <1>4 DEF farVars, Propose, Upload
  <2>3. TypeOK'
    BY <2>1, <2>2 DEF StoreInv, TypeOK
  <2>4. QED
    BY <2>2, <2>3, Assembled DEF StoreInv
<1>5. QED
  BY <1>3, <1>4

-----------------------------------------------------------------------------
(* Steps that change rows                                                  *)

\* A sweep keeps what it knows while the hashes of its rows stay.
LEMMA ProcFrame ==
  ASSUME NEW q \in Proc, NEW a, NEW b, ProcOK(q, a),
         \A i \in Ids : a[i].hash \in Unguided => b[i].hash = a[i].hash
  PROVE  ProcOK(q, b)
<1>1. q.ids \subseteq Ids
  BY DEF Proc
<1>2. QED
  BY <1>1 DEF ProcOK

\* A step that changes rows and processes.
LEMMA TableStep ==
  ASSUME StoreInv, setting' = setting, session' = session,
         cloud' \in [Ids -> Texts \cup {NoText}], changes' \in 0..setting.publications,
         \A i \in Ids : i \notin CloudIds => cloud'[i] = NoText,
         rejected' \subseteq Texts,
         rule' \in [Ids -> Row], \A i \in Ids : RowOK(i, rule'[i]),
         \A i \in Ids : rule[i].hash \in Unguided => rule'[i].hash = rule[i].hash,
         proc' \in [AllProcs -> Proc], \A p \in AllProcs : ProcOK(proc'[p], rule)
  PROVE  StoreInv'
<1>1. TypeOK'
  BY DEF StoreInv, TypeOK
<1>2. ASSUME NEW p \in AllProcs PROVE ProcOK(proc'[p], rule')
  BY ProcFrame
<1>3. QED
  BY <1>1, <1>2, Assembled

\* A step of process p that changes row i.
LEMMA OneRow ==
  ASSUME StoreInv, NEW p \in AllProcs, NEW i \in Ids, NEW r \in Row, RowOK(i, r),
         rule[i].hash \in Unguided => r.hash = rule[i].hash,
         NEW q \in Proc, ProcOK(q, rule),
         rule' = [rule EXCEPT ![i] = r], Go(p, q),
         UNCHANGED <<farVars, session>>, rejected' \subseteq Texts
  PROVE  StoreInv'
<1>1. /\ setting' = setting /\ cloud' = cloud /\ changes' = changes /\ session' = session
      /\ proc' = [proc EXCEPT ![p] = q]
  BY DEF farVars, Go
<1>2. /\ cloud \in [Ids -> Texts \cup {NoText}] /\ changes \in 0..setting.publications
      /\ rule \in [Ids -> Row] /\ proc \in [AllProcs -> Proc]
      /\ \A j \in Ids : j \notin CloudIds => cloud[j] = NoText
      /\ \A j \in Ids : RowOK(j, rule[j])
      /\ \A o \in AllProcs : ProcOK(proc[o], rule)
  BY DEF StoreInv, TypeOK
<1>3. rule' \in [Ids -> Row] /\ rule'[i] = r /\ \A j \in Ids : j # i => rule'[j] = rule[j]
  BY <1>2
<1>4. proc' \in [AllProcs -> Proc] /\ \A o \in AllProcs : ProcOK(proc'[o], rule)
  BY <1>1, <1>2
<1>5. \A j \in Ids : /\ RowOK(j, rule'[j])
                     /\ rule[j].hash \in Unguided => rule'[j].hash = rule[j].hash
  BY <1>2, <1>3
<1>6. QED
  BY <1>1, <1>2, <1>3, <1>4, <1>5, TableStep

\* A row edited in columns the invariant does not restrict.
LEMMA RowEdits ==
  ASSUME StoreInv, NEW i \in Ids \ CloudIds
  PROVE  /\ \A n \in 0..Cap : LET r == [rule[i] EXCEPT !.score = n]
                              IN r \in Row /\ RowOK(i, r) /\ r.hash = rule[i].hash
         /\ \A o \in Repos \cup {NoRepo} : LET r == [rule[i] EXCEPT !.repo = o]
                              IN r \in Row /\ RowOK(i, r) /\ r.hash = rule[i].hash
         /\ \A t \in Texts : LET r == [rule[i] EXCEPT !.text = t]
                             IN r \in Row /\ RowOK(i, r) /\ r.hash = rule[i].hash
         /\ rule[i].status # "absent" => \A x \in Statuses \ {"absent"} :
              LET r == [rule[i] EXCEPT !.status = x]
              IN r \in Row /\ RowOK(i, r) /\ r.hash = rule[i].hash
<1>1. rule[i] \in Row /\ RowOK(i, rule[i])
  BY DEF StoreInv, TypeOK
<1>2. ASSUME NEW n \in 0..Cap
      PROVE  LET r == [rule[i] EXCEPT !.score = n]
             IN r \in Row /\ RowOK(i, r) /\ r.hash = rule[i].hash
  BY <1>1 DEF Row, RowOK
<1>3. ASSUME NEW o \in Repos \cup {NoRepo}
      PROVE  LET r == [rule[i] EXCEPT !.repo = o]
             IN r \in Row /\ RowOK(i, r) /\ r.hash = rule[i].hash
  BY <1>1 DEF Row, RowOK
<1>4. ASSUME NEW t \in Texts
      PROVE  LET r == [rule[i] EXCEPT !.text = t]
             IN r \in Row /\ RowOK(i, r) /\ r.hash = rule[i].hash
  BY <1>1 DEF Row, RowOK
<1>5. ASSUME rule[i].status # "absent", NEW x \in Statuses \ {"absent"}
      PROVE  LET r == [rule[i] EXCEPT !.status = x]
             IN r \in Row /\ RowOK(i, r) /\ r.hash = rule[i].hash
  BY <1>1, <1>5 DEF Row, RowOK
<1>6. QED
  BY <1>2, <1>3, <1>4, <1>5

\* What follows a stored rule.
LEMMA RememberedFits ==
  ASSUME StoreInv, NEW p \in AllProcs, NEW i \in Ids \ CloudIds, NEW b \in BOOLEAN,
         proc[p].pc \in {"bumpWrite", "insert"}
  PROVE  /\ Remembered(p, i, b) \in Proc /\ ProcOK(Remembered(p, i, b), rule)
         /\ Remembered(p, i, b) \in {Idle, [At(p, "attach") EXCEPT !.id = i],
                                     [At(p, "select") EXCEPT !.id = i]}
<1>1. /\ "attach" \in PCs \ {"idle"} /\ "select" \in PCs \ {"idle"}
      /\ proc[p].pc \in Storing /\ proc[p].pc \notin Syncing
      /\ "select" \notin Storing
  BY DEF PCs, Storing, Syncing, Rungs
<1>2. [At(p, "attach") EXCEPT !.id = i] \in Proc /\ ProcOK([At(p, "attach") EXCEPT !.id = i], rule)
  BY <1>1, AtRowFits
<1>3. [At(p, "select") EXCEPT !.id = i] \in Proc /\ ProcOK([At(p, "select") EXCEPT !.id = i], rule)
  BY <1>1, AtRowFits
<1>4. Idle \in Proc /\ ProcOK(Idle, rule)
  BY IdleFits
<1>5. \/ Remembered(p, i, b) = Idle
      \/ Remembered(p, i, b) = [At(p, "attach") EXCEPT !.id = i]
      \/ Remembered(p, i, b) = [At(p, "select") EXCEPT !.id = i]
  BY DEF Remembered
<1>6. QED
  BY <1>2, <1>3, <1>4, <1>5

\* Rules are strengthened and inserted.
LEMMA StoreStep ==
  ASSUME StoreInv, NEW p \in AllProcs, BumpWrite(p) \/ \E i \in Ids : Insert(p, i)
  PROVE  StoreInv'
<1>1. /\ UNCHANGED <<farVars, session>> /\ rejected' \subseteq Texts
      /\ UNCHANGED <<farVars, rejected, session>>
  BY DEF BumpWrite, Insert, StoreInv, TypeOK
<1>2. proc[p] \in Proc /\ ProcOK(proc[p], rule) /\ rule \in [Ids -> Row]
  BY DEF StoreInv, TypeOK
<1>3. CASE BumpWrite(p)
  <2> DEFINE i == proc[p].id
             n == Strengthened(proc[p].score)
             r == [rule[i] EXCEPT !.score = n]
  <2>1. i \in Ids \ CloudIds /\ proc[p].pc = "bumpWrite"
    BY <1>2, <1>3 DEF BumpWrite, ProcOK, Naming
  <2>2. n \in 0..Cap
    BY <1>2, RuleStoreAssumption DEF Strengthened, Proc
  <2>3. CASE Stored(i)
    <3>1. r \in Row /\ RowOK(i, r) /\ r.hash = rule[i].hash
      BY <2>1, <2>2, RowEdits
    <3>2. Remembered(p, i, FALSE) \in Proc /\ ProcOK(Remembered(p, i, FALSE), rule)
      BY <2>1, RememberedFits
    <3>3. rule' = [rule EXCEPT ![i] = r] /\ Go(p, Remembered(p, i, FALSE))
      BY <1>3, <2>3 DEF BumpWrite
    <3> HIDE DEF i, r
    <3>4. QED
      BY <1>1, <2>1, <3>1, <3>2, <3>3, OneRow
  <2>4. CASE ~Stored(i)
    <3>1. rule' = rule /\ Go(p, Idle)
      BY <1>3, <2>4 DEF BumpWrite
    <3>2. session' \in [Texts \X Repos -> Session]
      BY <1>1 DEF StoreInv, TypeOK
    <3>3. QED
      BY <1>1, <3>1, <3>2, IdleFits, LocalStep
  <2>5. QED
    BY <2>3, <2>4
<1>4. ASSUME NEW i \in Ids, Insert(p, i) PROVE StoreInv'
  <2> DEFINE r == [status |-> StatusOf(proc[p].op), hash |-> proc[p].text,
                   text |-> proc[p].text, origin |-> OriginOf(proc[p].op),
                   repo |-> IF proc[p].op \in {"session", "capture"} THEN NoRepo
                            ELSE proc[p].repo,
                   score |-> 0]
  <2>1. i \in Ids \ CloudIds /\ proc[p].pc = "insert" /\ rule[i].status = "absent"
    <3>1. setting.own \cap CloudIds = {}
      BY SettingFacts DEF StoreInv
    <3>2. QED
      BY <1>4, <3>1 DEF Insert
  <2>2. rule[i].hash = NoText
    BY <2>1 DEF StoreInv, RowOK
  <2>3. proc[p].text \in Texts
    BY <1>2, <2>1 DEF ProcOK, Storing
  <2>4. /\ StatusOf(proc[p].op) \in {"active", "pending"}
        /\ OriginOf(proc[p].op) \in {"pr_review", "session_mined", "conversation"}
    BY DEF StatusOf, OriginOf
  <2>5. r \in Row
    BY <1>2, <2>3, <2>4, RuleStoreAssumption DEF Row, Statuses, Proc
  <2>6. RowOK(i, r)
    BY <2>1, <2>3, <2>4 DEF RowOK
  <2>7. Remembered(p, i, TRUE) \in Proc /\ ProcOK(Remembered(p, i, TRUE), rule)
    BY <2>1, RememberedFits
  <2>8. rule' = [rule EXCEPT ![i] = r] /\ Go(p, Remembered(p, i, TRUE))
    BY <1>4 DEF Insert
  <2>9. rule[i].hash \notin Unguided
    BY <2>2, RuleStoreAssumption
  <2> HIDE DEF r
  <2>10. QED
    BY <1>1, <2>1, <2>5, <2>6, <2>7, <2>8, <2>9, OneRow
<1>5. QED
  BY <1>3, <1>4

\* A rule gets its repository, a draft the curator's text or its promotion.
LEMMA PromoteStep ==
  ASSUME StoreInv, NEW p \in AllProcs, Attach(p) \/ Refine(p) \/ Activate(p)
  PROVE  StoreInv'
<1> DEFINE i == proc[p].id
<1>1. /\ UNCHANGED <<farVars, session>> /\ rejected' \subseteq Texts
      /\ UNCHANGED <<farVars, rejected>> /\ session' \in [Texts \X Repos -> Session]
  BY DEF Attach, Refine, Activate, StoreInv, TypeOK
<1>2. proc[p] \in Proc /\ ProcOK(proc[p], rule) /\ rule \in [Ids -> Row]
  BY DEF StoreInv, TypeOK
<1>3. i \in Ids \ CloudIds /\ proc[p].pc \in Naming /\ proc[p].pc \notin Syncing
  BY <1>2 DEF Attach, Refine, Activate, ProcOK, Naming, Syncing
<1>4. Idle \in Proc /\ ProcOK(Idle, rule)
  BY IdleFits
<1>5. At(p, "select") \in Proc /\ ProcOK(At(p, "select"), rule)
  <2>1. "select" \in PCs \ {"idle"} /\ "select" \notin Storing
    BY DEF PCs, Storing, Rungs
  <2>2. QED
    BY <1>3, <2>1, AtFits
<1>6. proc[p].op = "session" => At(p, "mark") \in Proc /\ ProcOK(At(p, "mark"), rule)
  <2>1. "mark" \in PCs \ {"idle"} /\ "mark" \notin Storing
    BY DEF PCs, Storing, Rungs
  <2>2. QED
    BY <1>3, <2>1, AtFits
<1>7. PICK q : /\ q \in Proc /\ ProcOK(q, rule) /\ Go(p, q)
  <2>1. CASE Attach(p)
    BY <1>4, <1>5, <2>1, Zenon DEF Attach
  <2>2. CASE Refine(p)
    BY <1>5, <2>2, Zenon DEF Refine
  <2>3. CASE Activate(p)
    BY <1>4, <1>6, <2>3, Zenon DEF Activate, NotPending, AlreadyActive
  <2>4. QED
    BY <2>1, <2>2, <2>3
<1>8. CASE rule' = rule
  BY <1>1, <1>7, <1>8, LocalStep
<1>9. ASSUME NEW r, r \in Row, RowOK(i, r), r.hash = rule[i].hash, rule' = [rule EXCEPT ![i] = r]
      PROVE  StoreInv'
  <2> HIDE DEF i
  <2>1. QED
    BY <1>1, <1>3, <1>7, <1>9, OneRow
<1>10. CASE Attach(p)
  <2>1. rule' = rule \/ rule' = [rule EXCEPT ![i] = [rule[i] EXCEPT !.repo = proc[p].repo]]
    BY <1>10 DEF Attach
  <2>2. proc[p].repo \in Repos \cup {NoRepo}
    BY <1>2 DEF Proc
  <2>3. QED
    BY <1>3, <1>8, <1>9, <2>1, <2>2, RowEdits, Zenon
<1>11. CASE Refine(p)
  <2>1. rule' = rule \/
        \E t \in setting.texts : rule' = [rule EXCEPT ![i] = [rule[i] EXCEPT !.text = t]]
    BY <1>11 DEF Refine
  <2>2. setting.texts \subseteq Texts
    BY SettingFacts DEF StoreInv
  <2>3. ASSUME NEW t \in setting.texts,
               rule' = [rule EXCEPT ![i] = [rule[i] EXCEPT !.text = t]]
        PROVE  StoreInv'
    <3>1. t \in Texts
      BY <2>2
    <3>2. QED
      BY <1>3, <1>9, <2>3, <3>1, RowEdits, Zenon
  <2>4. QED
    BY <1>8, <2>1, <2>3
<1>12. CASE Activate(p)
  <2>1. rule' = rule \/
        (rule[i].status = "pending" /\
         rule' = [rule EXCEPT ![i] = [rule[i] EXCEPT !.status = "active"]])
    BY <1>12 DEF Activate, StillPending
  <2>2. CASE rule[i].status = "pending" /\
             rule' = [rule EXCEPT ![i] = [rule[i] EXCEPT !.status = "active"]]
    <3>1. rule[i].status # "absent" /\ "active" \in Statuses \ {"absent"}
      BY <2>2 DEF Statuses
    <3>2. QED
      BY <1>3, <1>9, <2>2, <3>1, RowEdits, Zenon
  <2>3. QED
    BY <1>8, <2>1, <2>2
<1>13. QED
  BY <1>10, <1>11, <1>12

\* Forgetting that a sync is fresh changes nothing else.
LEMMA OutdatedFits ==
  ASSUME StoreInv
  PROVE  /\ Outdated \in [AllProcs -> Proc]
         /\ \A p \in AllProcs : /\ ProcOK(Outdated[p], rule)
                                /\ Outdated[p].pc = proc[p].pc /\ ~Outdated[p].fresh
                                /\ Outdated[p].id = proc[p].id /\ Outdated[p].op = proc[p].op
                                /\ Outdated[p].text = proc[p].text
                                /\ Outdated[p].repo = proc[p].repo
<1>1. ASSUME NEW p \in AllProcs
      PROVE  LET q == [proc[p] EXCEPT !.fresh = FALSE]
             IN /\ q \in Proc /\ ProcOK(q, rule)
                /\ q.pc = proc[p].pc /\ ~q.fresh
                /\ q.id = proc[p].id /\ q.op = proc[p].op
                /\ q.text = proc[p].text /\ q.repo = proc[p].repo
  <2> DEFINE q == [proc[p] EXCEPT !.fresh = FALSE]
  <2>1. proc[p] \in Proc /\ ProcOK(proc[p], rule)
    BY DEF StoreInv, TypeOK
  <2>2. q \in Proc
    BY <2>1 DEF Proc
  <2>3. /\ q.pc = proc[p].pc /\ q.op = proc[p].op /\ q.text = proc[p].text
        /\ q.id = proc[p].id /\ q.ids = proc[p].ids /\ q.sent = proc[p].sent
        /\ q.got = proc[p].got /\ q.repo = proc[p].repo /\ ~q.fresh
    BY <2>1 DEF Proc
  <2> HIDE DEF q
  <2>4. ProcOK(q, rule)
    BY <2>1, <2>3 DEF ProcOK
  <2>5. QED
    BY <2>2, <2>3, <2>4 DEF q
<1>2. \A p \in AllProcs : Outdated[p] = [proc[p] EXCEPT !.fresh = FALSE]
  BY DEF Outdated
<1>3. Outdated \in [AllProcs -> Proc]
  BY <1>1, <1>2 DEF Outdated
<1>4. QED
  BY <1>1, <1>2, <1>3

\* A draft is rejected, an active rule disabled, unguided rules quarantined.
LEMMA DemoteStep ==
  ASSUME StoreInv, NEW p \in AllProcs,
         (\E i \in Ids : Reject(p, i) \/ Disable(p, i)) \/ Quarantine(p)
  PROVE  StoreInv'
<1>1. /\ cloud \in [Ids -> Texts \cup {NoText}] /\ changes \in 0..setting.publications
      /\ rule \in [Ids -> Row] /\ proc \in [AllProcs -> Proc] /\ rejected \subseteq Texts
      /\ \A j \in Ids : j \notin CloudIds => cloud[j] = NoText
      /\ \A j \in Ids : RowOK(j, rule[j])
      /\ \A o \in AllProcs : ProcOK(proc[o], rule)
  BY DEF StoreInv, TypeOK
<1>2. /\ setting' = setting /\ cloud' = cloud /\ changes' = changes /\ session' = session
  BY DEF Reject, Disable, Quarantine, farVars
<1>3. ASSUME NEW i \in Ids, Reject(p, i) PROVE StoreInv'
  <2> DEFINE r == [rule[i] EXCEPT !.status = "deleted"]
  <2>1. i \notin CloudIds /\ rule[i].hash \in Texts /\ rule[i].status = "pending"
    BY <1>1, <1>3 DEF Reject, RowOK
  <2>2. r \in Row /\ RowOK(i, r) /\ r.hash = rule[i].hash
    BY <2>1, RowEdits DEF Statuses
  <2>3. /\ rule' = [rule EXCEPT ![i] = r] /\ rejected' = rejected \cup {rule[i].hash}
        /\ proc' = [proc EXCEPT ![p] = proc[p]]
    BY <1>1, <1>3 DEF Reject
  <2>4. Go(p, proc[p]) /\ rejected' \subseteq Texts /\ proc[p] \in Proc /\ ProcOK(proc[p], rule)
    BY <1>1, <2>1, <2>3 DEF Go
  <2> HIDE DEF r
  <2>5. UNCHANGED <<farVars, session>>
    BY <1>2 DEF farVars
  <2>6. QED
    BY <2>2, <2>3, <2>4, <2>5, OneRow
<1>4. ASSUME NEW i \in Ids, Disable(p, i) PROVE StoreInv'
  <2> DEFINE r == [rule[i] EXCEPT !.status = "disabled"]
  <2>1. rule[i].status = "active" /\ rule' = [rule EXCEPT ![i] = r] /\ rejected' = rejected
    BY <1>4 DEF Disable
  <2>2. r \in Row /\ RowOK(i, r) /\ r.hash = rule[i].hash
    BY <1>1, <2>1 DEF Row, RowOK, Statuses
  <2>3. proc' \in [AllProcs -> Proc] /\ \A o \in AllProcs : ProcOK(proc'[o], rule)
    <3>1. proc' = proc \/ proc' = Outdated
      BY <1>4 DEF Disable
    <3>2. QED
      BY <1>1, <3>1, OutdatedFits
  <2> HIDE DEF r
  <2>4. rule' \in [Ids -> Row]
    BY <1>1, <2>1, <2>2
  <2>5. \A j \in Ids : RowOK(j, rule'[j]) /\ rule'[j].hash = rule[j].hash
    BY <1>1, <2>1, <2>2
  <2>6. QED
    BY <1>1, <1>2, <2>1, <2>3, <2>4, <2>5, TableStep
<1>5. CASE Quarantine(p)
  <2>1. proc[p].pc = "quarantine" /\ rejected' = rejected /\ Go(p, Idle)
    BY <1>5 DEF Quarantine
  <2>2. \A j \in Ids : rule'[j] = IF j \in proc[p].ids /\ Stored(j)
                                  THEN [rule[j] EXCEPT !.status = "pending"] ELSE rule[j]
    BY <1>5 DEF Quarantine
  <2>3. ASSUME NEW j \in Ids
        PROVE  rule'[j] \in Row /\ RowOK(j, rule'[j]) /\ rule'[j].hash = rule[j].hash
    <3>1. CASE j \in proc[p].ids /\ Stored(j)
      <4>1. rule[j].hash \in Texts
        BY <1>1, <2>1, <3>1, RuleStoreAssumption DEF ProcOK
      <4>2. j \notin CloudIds /\ rule[j].status # "absent"
        BY <1>1, <3>1, <4>1, RuleStoreAssumption DEF RowOK, Stored
      <4>3. rule[j] \in Row /\ RowOK(j, rule[j])
        BY <1>1
      <4>4. rule'[j] = [rule[j] EXCEPT !.status = "pending"]
        BY <2>2, <3>1
      <4>5. QED
        BY <4>2, <4>3, <4>4 DEF Row, RowOK, Statuses
    <3>2. QED
      BY <1>1, <2>2, <3>1
  <2>4. rule' \in [Ids -> Row]
    <3>1. rule' = [j \in Ids |-> rule'[j]]
      BY <1>5 DEF Quarantine
    <3>2. QED
      BY <2>3, <3>1
  <2>5. proc' \in [AllProcs -> Proc] /\ \A o \in AllProcs : ProcOK(proc'[o], rule)
    BY <1>1, <2>1, IdleFits DEF Go
  <2>6. QED
    BY <1>1, <1>2, <2>1, <2>3, <2>4, <2>5, TableStep
<1>6. QED
  BY <1>3, <1>4, <1>5

\* What a sync makes of a row: rows of the cloud only, and active ones.
LEMMA AppliedFits ==
  ASSUME StoreInv, NEW p \in AllProcs, NEW i \in Ids
  PROVE  LET r == Applied(i, proc[p].got[i])
         IN /\ r \in Row /\ RowOK(i, r)
            /\ i \notin CloudIds => r = rule[i]
            /\ rule[i].hash \in Unguided => r.hash = rule[i].hash
<1> DEFINE g == proc[p].got[i]
           r == Applied(i, g)
<1>1. rule[i] \in Row /\ RowOK(i, rule[i]) /\ proc[p] \in Proc /\ ProcOK(proc[p], rule)
  BY DEF StoreInv, TypeOK
<1>2. g \in [verb : Verbs, text : Texts \cup {NoText}]
  BY <1>1 DEF Proc
<1>3. /\ i \notin CloudIds => g.verb = "none"
      /\ g.verb \in {"create", "update"} => g.text # NoText
  BY <1>1 DEF ProcOK
<1> HIDE DEF g
<1>4. CASE i \notin CloudIds
  <2>1. r = rule[i]
    BY <1>3, <1>4 DEF Applied
  <2>2. QED
    BY <1>1, <2>1 DEF g
<1>5. CASE i \in CloudIds
  <2>1. rule[i].hash = NoText /\ NoText \notin Unguided
    BY <1>1, <1>5, RuleStoreAssumption DEF RowOK
  <2>2. setting.published[i] \in Repos \cup {NoRepo}
    BY <1>5, SettingFacts DEF StoreInv
  <2> DEFINE o == IF rule[i].repo = NoRepo THEN setting.published[i] ELSE rule[i].repo
             w == [rule[i] EXCEPT !.status = "active", !.text = g.text, !.origin = "cloud",
                                  !.repo = o]
  <2>3. o \in Repos \cup {NoRepo}
    BY <1>1, <2>2 DEF Row
  <2>4. \/ g.verb \in {"create", "update"} /\ r = w
        \/ r = NoRow \/ r = rule[i]
    BY DEF Applied
  <2> HIDE DEF o
  <2>5. CASE g.verb \in {"create", "update"} /\ r = w
    <3>1. w \in Row
      BY <1>1, <1>2, <2>3 DEF Row, Statuses
    <3>2. w.hash = NoText /\ w.status = "active" /\ w.origin = "cloud" /\ w.text = g.text
      BY <1>1, <2>1 DEF Row
    <3> HIDE DEF w
    <3>3. RowOK(i, w)
      BY <1>3, <1>5, <2>5, <3>2 DEF RowOK
    <3>4. QED
      BY <1>5, <2>1, <2>5, <3>1, <3>3 DEF g
  <2>6. CASE r = NoRow
    <3>1. NoRow \in Row /\ RowOK(i, NoRow)
      BY <1>5, RuleStoreAssumption DEF NoRow, Row, Statuses, RowOK
    <3>2. QED
      BY <1>5, <2>1, <2>6, <3>1 DEF g
  <2>7. CASE r = rule[i]
    BY <1>1, <1>5, <2>7 DEF g
  <2>8. QED
    BY <2>4, <2>5, <2>6, <2>7
<1>6. QED
  BY <1>4, <1>5

\* The process after it applied an answer.
LEMMA AppliedProc ==
  ASSUME StoreInv, NEW p \in AllProcs, proc[p].pc = "applyPull"
  PROVE  LET q == [At(p, "team") EXCEPT !.got = Nothing]
         IN /\ q \in Proc /\ ProcOK(q, rule) /\ q.pc = "team" /\ q.fresh = proc[p].fresh
<1> DEFINE q == [At(p, "team") EXCEPT !.got = Nothing]
<1>1. proc[p] \in Proc /\ ProcOK(proc[p], rule)
  BY DEF StoreInv, TypeOK
<1>2. Nothing \in [Ids -> [verb : Verbs, text : Texts \cup {NoText}]]
  BY DEF Nothing, Verbs
<1>3. q \in Proc
  BY <1>1, <1>2 DEF At, Proc, PCs
<1>4. /\ q.pc = "team" /\ q.sent = proc[p].sent /\ q.got = Nothing
      /\ q.fresh = proc[p].fresh
  BY <1>1 DEF At, Proc
<1> HIDE DEF q
<1>5. ProcOK(q, rule)
  BY <1>1, <1>4 DEF ProcOK, Nothing, Storing, Rungs, Naming, Syncing
<1>6. QED
  BY <1>3, <1>4, <1>5 DEF q

\* A sync applies an answer, in one transaction.
LEMMA ApplyStep ==
  ASSUME StoreInv, NEW p \in AllProcs, ApplySyncResult(p)
  PROVE  StoreInv'
<1>1. /\ cloud \in [Ids -> Texts \cup {NoText}] /\ changes \in 0..setting.publications
      /\ rule \in [Ids -> Row] /\ proc \in [AllProcs -> Proc] /\ rejected \subseteq Texts
      /\ \A j \in Ids : j \notin CloudIds => cloud[j] = NoText
      /\ \A o \in AllProcs : ProcOK(proc[o], rule)
  BY DEF StoreInv, TypeOK
<1>2. /\ setting' = setting /\ cloud' = cloud /\ changes' = changes /\ session' = session
      /\ rejected' = rejected
  BY DEF ApplySyncResult, farVars
<1>3. rule' = [i \in Ids |-> Applied(i, proc[p].got[i])]
  BY DEF ApplySyncResult
<1>4. /\ rule' \in [Ids -> Row] /\ \A i \in Ids : RowOK(i, rule'[i])
      /\ \A i \in Ids : rule[i].hash \in Unguided => rule'[i].hash = rule[i].hash
  BY <1>3, AppliedFits
<1>5. proc' \in [AllProcs -> Proc] /\ \A o \in AllProcs : ProcOK(proc'[o], rule)
  <2> DEFINE z == IF proc[p].pc = "applyTeam" THEN Idle
                  ELSE [At(p, "team") EXCEPT !.got = Nothing]
  <2>1. proc' = [proc EXCEPT ![p] = z] \/ proc' = [Outdated EXCEPT ![p] = z]
    BY Zenon DEF ApplySyncResult
  <2>2. z \in Proc /\ ProcOK(z, rule)
    BY AppliedProc, IdleFits DEF ApplySyncResult
  <2> HIDE DEF z
  <2>3. /\ Outdated \in [AllProcs -> Proc]
        /\ \A o \in AllProcs : ProcOK(Outdated[o], rule)
    BY OutdatedFits
  <2>4. QED
    BY <1>1, <2>1, <2>2, <2>3
<1>6. QED
  BY <1>1, <1>2, <1>4, <1>5, TableStep

\* The cloud changes.
LEMMA PublishStep ==
  ASSUME StoreInv, NEW i \in CloudIds, NEW t \in setting.texts \cup {NoText}, Publish(i, t)
  PROVE  StoreInv'
<1>1. /\ cloud \in [Ids -> Texts \cup {NoText}] /\ changes \in 0..setting.publications
      /\ rule \in [Ids -> Row] /\ rejected \subseteq Texts
      /\ \A j \in Ids : j \notin CloudIds => cloud[j] = NoText
      /\ \A j \in Ids : RowOK(j, rule[j])
  BY DEF StoreInv, TypeOK
<1>2. /\ setting' = setting /\ cloud' = [cloud EXCEPT ![i] = t] /\ session' = session
      /\ rejected' = rejected /\ rule' = rule /\ proc' = Outdated
  BY DEF Publish
<1>3. setting.texts \subseteq Texts /\ CloudIds \subseteq Ids /\ setting.publications \in Nat
  BY SettingFacts DEF StoreInv
<1>4. changes' \in 0..setting.publications
  BY <1>1, <1>3 DEF Publish
<1>5. /\ cloud' \in [Ids -> Texts \cup {NoText}]
      /\ \A j \in Ids : j \notin CloudIds => cloud'[j] = NoText
  BY <1>1, <1>2, <1>3
<1>6. QED
  BY <1>1, <1>2, <1>4, <1>5, OutdatedFits, TableStep

\* The invariant holds at first,
LEMMA InitStore == Init => StoreInv
<1> SUFFICES ASSUME Init PROVE StoreInv
  OBVIOUS
<1>1. setting \in Setting
  BY RuleStoreAssumption DEF Init
<1>2. setting.publications \in Nat
  BY <1>1 DEF Setting
<1>3. NoRow \in Row
  BY RuleStoreAssumption DEF NoRow, Row, Statuses
<1>4. [state |-> "none", rule |-> 0] \in Session
  BY RuleStoreAssumption DEF Session
<1>5. TypeOK
  BY <1>2, <1>3, <1>4, IdleFits DEF Init, TypeOK
<1>6. \A i \in Ids : RowOK(i, rule[i])
  BY DEF Init, RowOK, NoRow
<1>7. QED
  BY <1>5, <1>6, IdleFits DEF StoreInv, Init

\* and every step keeps it.
LEMMA NextStore == StoreInv /\ [Next]_vars => StoreInv'
<1> SUFFICES ASSUME StoreInv, [Next]_vars PROVE StoreInv'
  OBVIOUS
<1>1. Procs \subseteq AllProcs /\ setting.texts \subseteq Texts
  BY SettingFacts DEF StoreInv
<1>2. CASE UNCHANGED vars
  BY <1>2 DEF vars, StoreInv, TypeOK, CloudIds, RowOK, ProcOK, Ops
<1>3. CASE Next
  <2>1. CASE \E p \in Procs, t \in setting.texts, r \in Repos :
               \/ \E op \in {"import", "distill"} : StartImport(p, op, t, r)
               \/ StartSession(p, t, r) \/ FindRejected(p, t, r)
    BY <1>1, <2>1, StartStep, OtherStart
  <2>2. CASE \E p \in Procs, t \in setting.texts, r \in Repos \cup {NoRepo} :
               StartCapture(p, t, r)
    BY <1>1, <2>2, StartStep
  <2>3. CASE \E p \in Procs, i \in Ids : \/ StartReview(p, i) \/ RungHits(p, i) \/ Insert(p, i)
                                         \/ Reject(p, i) \/ Disable(p, i)
    BY <1>1, <2>3, OtherStart, LadderStep, StoreStep, DemoteStep
  <2>4. ASSUME NEW p \in Procs,
               \/ CheckTombstone(p) \/ RungMisses(p) \/ BumpRead(p) \/ BumpWrite(p)
               \/ Attach(p) \/ Refine(p) \/ Select(p) \/ CheckDuplicate(p)
               \/ Activate(p) \/ Mark(p) \/ DeleteRejected(p)
               \/ SelectUnguided(p) \/ Quarantine(p) \/ StartSync(p) \/ SyncSkills(p)
               \/ ApplySyncResult(p) \/ ApplyFails(p) \/ SyncTeamSkills(p) \/ Crash(p)
        PROVE  StoreInv'
    <3>1. p \in AllProcs
      BY <1>1
    <3>2. CASE CheckTombstone(p) \/ RungMisses(p)
      BY <3>1, <3>2, LadderStep
    <3>3. CASE BumpRead(p) \/ Select(p) \/ CheckDuplicate(p) \/ Crash(p)
      BY <3>1, <3>3, ReadStep
    <3>4. CASE BumpWrite(p)
      BY <3>1, <3>4, StoreStep
    <3>5. CASE Attach(p) \/ Refine(p) \/ Activate(p)
      BY <3>1, <3>5, PromoteStep
    <3>6. CASE Mark(p) \/ DeleteRejected(p)
      BY <3>1, <3>6, SessionStep
    <3>7. CASE SelectUnguided(p) \/ StartSync(p)
      BY <3>1, <3>7, OtherStart
    <3>8. CASE Quarantine(p)
      BY <3>1, <3>8, DemoteStep
    <3>9. CASE SyncSkills(p) \/ ApplyFails(p) \/ SyncTeamSkills(p)
      BY <3>1, <3>9, AnswerStep
    <3>10. CASE ApplySyncResult(p)
      BY <3>1, <3>10, ApplyStep
    <3>11. QED
      BY <2>4, <3>2, <3>3, <3>4, <3>5, <3>6, <3>7, <3>8, <3>9, <3>10
  <2>5. CASE \E t \in setting.texts, r \in Repos : Propose(t, r) \/ Upload(t, r)
    BY <1>1, <2>5, SessionStep
  <2>6. CASE \E i \in CloudIds, t \in setting.texts \cup {NoText} : Publish(i, t)
    BY <2>6, PublishStep
  <2>7. QED
    BY <1>3, <2>1, <2>2, <2>3, <2>4, <2>5, <2>6 DEF Next
<1>4. QED
  BY <1>2, <1>3

\* The rows of the cloud and the rules remembered here stay apart, in whatever
\* way the operations interleave.
THEOREM StoreInvariant == Spec => []StoreInv
BY InitStore, NextStore, PTL DEF Spec

\* The variables keep their types, and no confidence passes its ceiling.
THEOREM RulesTyped == Spec => []TypeOK
<1>1. StoreInv => TypeOK
  BY DEF StoreInv
<1>2. QED
  BY <1>1, StoreInvariant, PTL

-----------------------------------------------------------------------------
(* What a step does to the rows and to the processes.  The other invariants *)
(* need no more of the actions than these lemmas say.                       *)

\* A rule remembered here keeps its hash; it leaves "disabled" only by a sweep.
Moves(a, b) ==
  \/ a.status = "absent"
  \/ /\ b.hash = a.hash
     /\ \/ b.status = a.status
        \/ a.status = "pending"
        \/ a.status = "active" /\ b.status = "disabled"
        \/ "sweep" \in Ops /\ a.hash \in Unguided /\ b.status = "pending"

CloudStill == \A i \in CloudIds : rule'[i] = rule[i]

\* One row remembered here changes, the rest stays.
LEMMA OneMoves ==
  ASSUME StoreInv, NEW i \in Ids \ CloudIds, NEW r, rule' = [rule EXCEPT ![i] = r],
         Moves(rule[i], r)
  PROVE  (\A j \in Ids \ CloudIds : Moves(rule[j], rule'[j])) /\ CloudStill
<1>1. rule \in [Ids -> Row] /\ CloudIds \subseteq Ids
  BY SettingFacts DEF StoreInv, TypeOK
<1>2. rule'[i] = r /\ \A j \in Ids : j # i => rule'[j] = rule[j]
  BY <1>1
<1>3. QED
  BY <1>1, <1>2 DEF Moves, CloudStill

\* Rules remembered here move as said, rules of the cloud only by disabling and
\* by a sync.
LEMMA RowsMove ==
  ASSUME StoreInv, Next
  PROVE  /\ \A j \in Ids \ CloudIds : Moves(rule[j], rule'[j])
         /\ \/ CloudStill
            \/ \E p \in Procs, i \in CloudIds : Disable(p, i)
            \/ \E p \in Procs : ApplySyncResult(p)
<1>1. /\ rule \in [Ids -> Row] /\ Procs \subseteq AllProcs
      /\ CloudIds \subseteq Ids /\ \A i \in Ids : RowOK(i, rule[i])
      /\ setting.own \cap CloudIds = {} /\ setting.own \subseteq Ids
      /\ \A p \in AllProcs : ProcOK(proc[p], rule) /\ proc[p] \in Proc
  BY SettingFacts DEF StoreInv, TypeOK
<1>2. CASE rule' = rule
  BY <1>2 DEF Moves, CloudStill
<1>3. ASSUME NEW p \in Procs, BumpWrite(p), rule' # rule
      PROVE  (\A j \in Ids \ CloudIds : Moves(rule[j], rule'[j])) /\ CloudStill
  <2> DEFINE i == proc[p].id
             r == [rule[i] EXCEPT !.score = Strengthened(proc[p].score)]
  <2>1. i \in Ids \ CloudIds /\ rule' = [rule EXCEPT ![i] = r]
    BY <1>1, <1>3 DEF BumpWrite, ProcOK, Naming
  <2>2. Moves(rule[i], r)
    BY <1>1, <2>1 DEF Moves, Row
  <2> HIDE DEF i, r
  <2>3. QED
    BY <2>1, <2>2, OneMoves
<1>4. ASSUME NEW p \in Procs, NEW i \in Ids, Insert(p, i)
      PROVE  (\A j \in Ids \ CloudIds : Moves(rule[j], rule'[j])) /\ CloudStill
  <2>1. i \in Ids \ CloudIds /\ rule[i].status = "absent"
    BY <1>1, <1>4 DEF Insert
  <2>2. \E r : rule' = [rule EXCEPT ![i] = r]
    BY <1>4 DEF Insert
  <2>3. QED
    BY <2>1, <2>2, OneMoves DEF Moves
<1>5. ASSUME NEW p \in Procs, Attach(p), rule' # rule
      PROVE  (\A j \in Ids \ CloudIds : Moves(rule[j], rule'[j])) /\ CloudStill
  <2> DEFINE i == proc[p].id
             r == [rule[i] EXCEPT !.repo = proc[p].repo]
  <2>1. i \in Ids \ CloudIds /\ rule' = [rule EXCEPT ![i] = r]
    BY <1>1, <1>5 DEF Attach, ProcOK, Naming
  <2>2. Moves(rule[i], r)
    BY <1>1, <2>1 DEF Moves, Row
  <2> HIDE DEF i, r
  <2>3. QED
    BY <2>1, <2>2, OneMoves
<1>6. ASSUME NEW p \in Procs, Refine(p), rule' # rule
      PROVE  (\A j \in Ids \ CloudIds : Moves(rule[j], rule'[j])) /\ CloudStill
  <2> DEFINE i == proc[p].id
  <2>1. PICK t \in setting.texts : rule' = [rule EXCEPT ![i] = [rule[i] EXCEPT !.text = t]]
    BY <1>6 DEF Refine
  <2> DEFINE r == [rule[i] EXCEPT !.text = t]
  <2>2. i \in Ids \ CloudIds /\ rule' = [rule EXCEPT ![i] = r]
    BY <1>1, <1>6, <2>1 DEF Refine, ProcOK, Naming
  <2>3. Moves(rule[i], r)
    BY <1>1, <2>2 DEF Moves, Row
  <2> HIDE DEF i, r
  <2>4. QED
    BY <2>2, <2>3, OneMoves
<1>7. ASSUME NEW p \in Procs, Activate(p), rule' # rule
      PROVE  (\A j \in Ids \ CloudIds : Moves(rule[j], rule'[j])) /\ CloudStill
  <2> DEFINE i == proc[p].id
             r == [rule[i] EXCEPT !.status = "active"]
  <2>1. i \in Ids \ CloudIds /\ rule' = [rule EXCEPT ![i] = r] /\ rule[i].status = "pending"
    BY <1>1, <1>7 DEF Activate, ProcOK, Naming, StillPending
  <2>2. Moves(rule[i], r)
    BY <1>1, <2>1 DEF Moves, Row
  <2> HIDE DEF i, r
  <2>3. QED
    BY <2>1, <2>2, OneMoves
<1>8. ASSUME NEW p \in Procs, NEW i \in Ids, Reject(p, i)
      PROVE  (\A j \in Ids \ CloudIds : Moves(rule[j], rule'[j])) /\ CloudStill
  <2> DEFINE r == [rule[i] EXCEPT !.status = "deleted"]
  <2>1. rule' = [rule EXCEPT ![i] = r] /\ rule[i].status = "pending"
    BY <1>8 DEF Reject
  <2>2. i \in Ids \ CloudIds
    BY <1>1, <2>1 DEF RowOK
  <2>3. Moves(rule[i], r)
    BY <1>1, <2>1, <2>2 DEF Moves, Row
  <2> HIDE DEF r
  <2>4. QED
    BY <2>1, <2>2, <2>3, OneMoves
<1>9. ASSUME NEW p \in Procs, NEW i \in Ids, Disable(p, i)
      PROVE  /\ \A j \in Ids \ CloudIds : Moves(rule[j], rule'[j])
             /\ i \notin CloudIds => CloudStill
  <2> DEFINE r == [rule[i] EXCEPT !.status = "disabled"]
  <2>1. rule' = [rule EXCEPT ![i] = r] /\ rule[i].status = "active"
    BY <1>9 DEF Disable
  <2>2. Moves(rule[i], r)
    BY <1>1, <2>1 DEF Moves, Row
  <2> HIDE DEF r
  <2>3. CASE i \notin CloudIds
    BY <2>1, <2>2, <2>3, OneMoves
  <2>4. CASE i \in CloudIds
    BY <1>1, <2>1, <2>4 DEF Moves
  <2>5. QED
    BY <2>3, <2>4
<1>10. ASSUME NEW p \in Procs, Quarantine(p)
       PROVE  (\A j \in Ids \ CloudIds : Moves(rule[j], rule'[j])) /\ CloudStill
  <2>1. \A j \in Ids : rule'[j] = IF j \in proc[p].ids /\ Stored(j)
                                  THEN [rule[j] EXCEPT !.status = "pending"] ELSE rule[j]
    BY <1>10 DEF Quarantine
  <2>2. "sweep" \in Ops /\ \A j \in proc[p].ids : rule[j].hash \in Unguided
    BY <1>1, <1>10 DEF Quarantine, ProcOK
  <2>3. ASSUME NEW j \in Ids PROVE Moves(rule[j], rule'[j])
    <3>1. CASE j \in proc[p].ids /\ Stored(j)
      <4>1. rule'[j] = [rule[j] EXCEPT !.status = "pending"] /\ rule[j] \in Row
        BY <1>1, <2>1, <3>1
      <4>2. QED
        BY <2>2, <3>1, <4>1 DEF Moves, Row
    <3>2. CASE ~(j \in proc[p].ids /\ Stored(j))
      BY <2>1, <3>2 DEF Moves
    <3>3. QED
      BY <3>1, <3>2
  <2>4. ASSUME NEW j \in CloudIds PROVE rule'[j] = rule[j]
    <3>1. j \in Ids /\ rule[j].hash = NoText /\ NoText \notin Unguided
      BY <1>1, RuleStoreAssumption DEF RowOK
    <3>2. QED
      BY <2>1, <2>2, <3>1
  <2>5. QED
    BY <2>3, <2>4 DEF CloudStill
<1>11. ASSUME NEW p \in Procs, ApplySyncResult(p)
       PROVE  \A j \in Ids \ CloudIds : Moves(rule[j], rule'[j])
  <2>1. \A j \in Ids : rule'[j] = Applied(j, proc[p].got[j])
    BY <1>11 DEF ApplySyncResult
  <2>2. \A j \in Ids \ CloudIds : rule'[j] = rule[j]
    BY <1>1, <2>1, AppliedFits
  <2>3. QED
    BY <2>2 DEF Moves
<1>12. \/ rule' = rule
       \/ \E p \in Procs : \/ BumpWrite(p) \/ Attach(p) \/ Refine(p) \/ Activate(p)
                           \/ Quarantine(p) \/ ApplySyncResult(p)
       \/ \E p \in Procs, i \in Ids : Insert(p, i) \/ Reject(p, i) \/ Disable(p, i)
  BY DEF Next, StartImport, StartSession, FindRejected, StartCapture, StartReview, RungHits,
     CheckTombstone, RungMisses, BumpRead, Select, CheckDuplicate, Mark, DeleteRejected,
     SelectUnguided, StartSync, SyncSkills, ApplyFails, SyncTeamSkills, Crash, Propose,
     Upload, Publish
<1>13. QED
  BY <1>2, <1>3, <1>4, <1>5, <1>6, <1>7, <1>8, <1>9, <1>10, <1>11, <1>12

\* A rule that was disabled is not active after any step: a promotion finds it no
\* longer pending, and a sync leaves rules remembered here alone.
THEOREM DisabledIsOff == Spec => DisabledStaysOff
<1>1. ASSUME StoreInv, [Next]_vars
      PROVE  [\A i \in Ids \ CloudIds :
                rule[i].status = "disabled" => rule'[i].status # "active"]_vars
  <2>1. CASE UNCHANGED vars
    BY <2>1
  <2>2. CASE Next
    <3>1. \A i \in Ids \ CloudIds : Moves(rule[i], rule'[i])
      BY <1>1, <2>2, RowsMove
    <3>2. QED
      BY <3>1 DEF Moves
  <2>3. QED
    BY <1>1, <2>1, <2>2
<1>2. QED
  BY <1>1, StoreInvariant, PTL DEF Spec, DisabledStaysOff

\* The points of an operation at which no invariant below says anything.
Quiet == {"idle", "tombstone", "attach", "refine", "select", "duplicate", "activate",
          "drop", "quarantine"}

Stays(o) == proc'[o] = proc[o] \/ proc'[o] = Outdated[o]

\* A step moves one process at most.
LEMMA GoMoves ==
  ASSUME StoreInv, NEW p \in AllProcs, NEW q, Go(p, q)
  PROVE  proc'[p] = q /\ \A o \in AllProcs : o # p => Stays(o)
BY DEF StoreInv, TypeOK, Go, Stays

\* A process that is told where to go on.
LEMMA PcOf ==
  ASSUME StoreInv, NEW p \in AllProcs, NEW c
  PROVE  /\ At(p, c).pc = c /\ At(p, c).id = proc[p].id /\ At(p, c).op = proc[p].op
         /\ At(p, c).text = proc[p].text /\ At(p, c).repo = proc[p].repo
         /\ At(p, c).fresh = proc[p].fresh
         /\ At(p, c).sent = proc[p].sent /\ At(p, c).got = proc[p].got
         /\ \A i : /\ [At(p, c) EXCEPT !.id = i].pc = c
                   /\ [At(p, c) EXCEPT !.id = i].id = i
                   /\ [At(p, c) EXCEPT !.id = i].op = proc[p].op
         /\ \A n : /\ [At(p, c) EXCEPT !.score = n].pc = c
                   /\ [At(p, c) EXCEPT !.score = n].id = proc[p].id
                   /\ [At(p, c) EXCEPT !.score = n].op = proc[p].op
         /\ \A g : /\ [At(p, c) EXCEPT !.got = g].pc = c
                   /\ [At(p, c) EXCEPT !.got = g].got = g
                   /\ [At(p, c) EXCEPT !.got = g].fresh = proc[p].fresh
<1>1. proc[p] \in Proc
  BY DEF StoreInv, TypeOK
<1>2. QED
  BY <1>1 DEF At, Proc

\* Once a rule is stored nothing is known of the process.
LEMMA RememberedQuiet ==
  ASSUME StoreInv, NEW p \in AllProcs, NEW i \in Ids \ CloudIds, NEW b \in BOOLEAN,
         proc[p].pc \in {"bumpWrite", "insert"}
  PROVE  Remembered(p, i, b).pc \in Quiet
<1>1. Remembered(p, i, b) \in {Idle, [At(p, "attach") EXCEPT !.id = i],
                               [At(p, "select") EXCEPT !.id = i]}
  BY RememberedFits
<1>2. /\ [At(p, "attach") EXCEPT !.id = i].pc = "attach"
      /\ [At(p, "select") EXCEPT !.id = i].pc = "select"
  BY PcOf
<1>3. Idle.pc = "idle"
  BY IdleFits
<1>4. QED
  BY <1>1, <1>2, <1>3, Zenon DEF Quiet

\* What a step does to each process: nothing, it ends up where nothing is known
\* of it, or the process climbs the ladder, ends a promotion, or syncs.
LEMMA Locals ==
  ASSUME StoreInv, Next, NEW o \in AllProcs
  PROVE  \/ Stays(o)
         \/ proc'[o].pc \in Quiet
         \/ proc'[o].pc = "team" /\ ~proc'[o].fresh
         \/ \E t \in Texts, r \in Repos \cup {NoRepo} : StartSession(o, t, r) \/ StartCapture(o, t, r)
         \/ CheckTombstone(o) \/ RungMisses(o) \/ (\E i \in Ids : RungHits(o, i)) \/ BumpRead(o)
         \/ Select(o) \/ Activate(o)
         \/ StartSync(o) \/ SyncSkills(o) \/ SyncTeamSkills(o) \/ ApplySyncResult(o)
<1>1. Procs \subseteq AllProcs /\ setting.texts \subseteq Texts /\ CloudIds \subseteq Ids
  BY SettingFacts DEF StoreInv
<1>2. proc \in [AllProcs -> Proc]
  BY DEF StoreInv, TypeOK
<1>3. ASSUME NEW p \in AllProcs, NEW q, Go(p, q), q.pc \in Quiet \/ (q.pc = "team" /\ ~q.fresh)
      PROVE  Stays(o) \/ proc'[o].pc \in Quiet \/ (proc'[o].pc = "team" /\ ~proc'[o].fresh)
  BY <1>3, GoMoves
<1>4. Idle.pc \in Quiet
  BY IdleFits DEF Quiet
<1>5. CASE \E p \in Procs, t \in setting.texts, r \in Repos :
             \/ \E op \in {"import", "distill"} : StartImport(p, op, t, r)
             \/ StartSession(p, t, r) \/ FindRejected(p, t, r)
  <2>1. PICK p \in Procs, t \in setting.texts, r \in Repos :
             \/ \E op \in {"import", "distill"} : StartImport(p, op, t, r)
             \/ StartSession(p, t, r) \/ FindRejected(p, t, r)
    BY <1>5
  <2>2. p \in AllProcs /\ t \in Texts /\ r \in Repos \cup {NoRepo}
    BY <1>1
  <2>3. ASSUME NEW op \in {"import", "distill"}, StartImport(p, op, t, r)
        PROVE  Stays(o) \/ proc'[o].pc \in Quiet \/ (proc'[o].pc = "team" /\ ~proc'[o].fresh)
    <3> DEFINE q == [Idle EXCEPT !.pc = "tombstone", !.op = op, !.text = t, !.repo = r]
    <3>1. Go(p, q) /\ q.pc \in Quiet
      BY <2>3 DEF StartImport, Idle, Quiet
    <3> HIDE DEF q
    <3>2. QED
      BY <1>3, <2>2, <3>1
  <2>4. CASE FindRejected(p, t, r)
    <3> DEFINE q == [Idle EXCEPT !.pc = "drop", !.text = t, !.repo = r]
    <3>1. Go(p, q) /\ q.pc \in Quiet
      BY <2>4 DEF FindRejected, Idle, Quiet
    <3> HIDE DEF q
    <3>2. QED
      BY <1>3, <2>2, <3>1
  <2>5. CASE StartSession(p, t, r)
    <3>1. o # p => Stays(o)
      BY <2>2, <2>5, GoMoves DEF StartSession
    <3>2. QED
      BY <2>2, <2>5, <3>1
  <2>6. QED
    BY <2>1, <2>3, <2>4, <2>5
<1>6. CASE \E p \in Procs, t \in setting.texts, r \in Repos \cup {NoRepo} :
             StartCapture(p, t, r)
  <2>1. PICK p \in Procs, t \in setting.texts, r \in Repos \cup {NoRepo} : StartCapture(p, t, r)
    BY <1>6
  <2>2. p \in AllProcs /\ t \in Texts
    BY <1>1
  <2>3. o # p => Stays(o)
    BY <2>1, <2>2, GoMoves DEF StartCapture
  <2>4. QED
    BY <2>1, <2>2, <2>3
<1>7. CASE \E p \in Procs, i \in Ids : \/ StartReview(p, i) \/ RungHits(p, i) \/ Insert(p, i)
                                       \/ Reject(p, i) \/ Disable(p, i)
  <2>1. PICK p \in Procs, i \in Ids : \/ StartReview(p, i) \/ RungHits(p, i) \/ Insert(p, i)
                                      \/ Reject(p, i) \/ Disable(p, i)
    BY <1>7
  <2>2. p \in AllProcs
    BY <1>1
  <2>3. CASE StartReview(p, i)
    <3> DEFINE q == [Idle EXCEPT !.pc = "refine", !.id = i]
    <3>1. Go(p, q) /\ q.pc \in Quiet
      BY <2>3 DEF StartReview, Idle, Quiet
    <3> HIDE DEF q
    <3>2. QED
      BY <1>3, <2>2, <3>1
  <2>4. CASE RungHits(p, i)
    <3>1. o # p => Stays(o)
      BY <2>2, <2>4, GoMoves DEF RungHits
    <3>2. QED
      BY <2>4, <3>1
  <2>5. CASE Insert(p, i)
    <3>1. i \in Ids \ CloudIds /\ proc[p].pc = "insert"
      BY <2>5, SettingFacts DEF Insert, StoreInv
    <3>2. Remembered(p, i, TRUE).pc \in Quiet
      BY <2>2, <3>1, RememberedQuiet
    <3>3. Go(p, Remembered(p, i, TRUE))
      BY <2>5 DEF Insert
    <3>4. QED
      BY <1>3, <2>2, <3>2, <3>3
  <2>6. CASE Reject(p, i) \/ Disable(p, i)
    BY <2>6 DEF Reject, Disable, Stays
  <2>7. QED
    BY <2>1, <2>3, <2>4, <2>5, <2>6
<1>8. ASSUME NEW p \in Procs,
             \/ BumpWrite(p) \/ Attach(p) \/ Refine(p) \/ CheckDuplicate(p) \/ Mark(p)
             \/ DeleteRejected(p) \/ SelectUnguided(p) \/ Quarantine(p) \/ ApplyFails(p)
             \/ Crash(p)
      PROVE  Stays(o) \/ proc'[o].pc \in Quiet \/ (proc'[o].pc = "team" /\ ~proc'[o].fresh)
  <2>1. p \in AllProcs
    BY <1>1
  <2>2. \A c : At(p, c).pc = c
    BY <2>1, PcOf
  <2>3. CASE Go(p, Idle)
    BY <1>3, <1>4, <2>1, <2>3
  <2>4. ASSUME NEW c \in Quiet, Go(p, At(p, c))
        PROVE  Stays(o) \/ proc'[o].pc \in Quiet \/ (proc'[o].pc = "team" /\ ~proc'[o].fresh)
    BY <1>3, <2>1, <2>2, <2>4
  <2>5. CASE Mark(p) \/ DeleteRejected(p) \/ Quarantine(p) \/ Crash(p)
    BY <2>3, <2>5 DEF Mark, DeleteRejected, Quarantine, Crash
  <2>6. CASE Attach(p) \/ Refine(p) \/ CheckDuplicate(p)
    <3>1. \/ Go(p, Idle) \/ Go(p, At(p, "select")) \/ Go(p, At(p, "activate"))
      BY <2>6 DEF Attach, Refine, CheckDuplicate
    <3>2. "select" \in Quiet /\ "activate" \in Quiet
      BY DEF Quiet
    <3>3. QED
      BY <2>3, <2>4, <3>1, <3>2
  <2>7. CASE BumpWrite(p)
    <3>1. Go(p, Idle) \/ Go(p, Remembered(p, proc[p].id, FALSE))
      BY <2>7 DEF BumpWrite
    <3>2. proc[p].pc = "bumpWrite" /\ proc[p].id \in Ids \ CloudIds
      BY <2>1, <2>7 DEF BumpWrite, StoreInv, ProcOK, Naming
    <3>3. Remembered(p, proc[p].id, FALSE).pc \in Quiet
      BY <2>1, <3>2, RememberedQuiet
    <3>4. QED
      BY <1>3, <2>1, <2>3, <3>1, <3>3
  <2>8. CASE SelectUnguided(p)
    <3>1. PICK S : Go(p, [Idle EXCEPT !.pc = "quarantine", !.op = "sweep", !.ids = S])
      BY <2>8 DEF SelectUnguided
    <3> DEFINE q == [Idle EXCEPT !.pc = "quarantine", !.op = "sweep", !.ids = S]
    <3>2. Go(p, q) /\ q.pc \in Quiet
      BY <3>1 DEF Idle, Quiet
    <3> HIDE DEF q
    <3>3. QED
      BY <1>3, <2>1, <3>2
  <2>9. CASE ApplyFails(p)
    <3> DEFINE q == [At(p, "team") EXCEPT !.got = Nothing, !.fresh = FALSE]
    <3>1. Go(p, q)
      BY <2>9 DEF ApplyFails
    <3>2. proc[p] \in Proc
      BY <1>2, <2>1
    <3>3. q.pc = "team" /\ ~q.fresh
      BY <3>2 DEF At, Proc
    <3> HIDE DEF q
    <3>4. QED
      BY <1>3, <2>1, <3>1, <3>3
  <2>10. QED
    BY <1>8, <2>5, <2>6, <2>7, <2>8, <2>9
<1>9. ASSUME NEW p \in Procs,
             \/ CheckTombstone(p) \/ RungMisses(p) \/ BumpRead(p) \/ Select(p) \/ Activate(p)
             \/ StartSync(p) \/ SyncSkills(p) \/ SyncTeamSkills(p)
      PROVE  p # o => Stays(o)
  <2>1. p \in AllProcs
    BY <1>1
  <2>2. \E q : Go(p, q)
    BY <1>9 DEF CheckTombstone, RungMisses, BumpRead, Select, Activate, NotPending, StartSync,
       SyncSkills, SyncTeamSkills
  <2>3. QED
    BY <2>1, <2>2, GoMoves
<1>10. ASSUME NEW p \in Procs, ApplySyncResult(p)
       PROVE  p # o => Stays(o)
  <2>1. PICK z : proc' = [proc EXCEPT ![p] = z] \/ proc' = [Outdated EXCEPT ![p] = z]
    BY <1>10, Zenon DEF ApplySyncResult
  <2>2. Outdated \in [AllProcs -> Proc]
    BY OutdatedFits
  <2>3. QED
    BY <1>2, <2>1, <2>2 DEF Stays
<1>11. CASE \/ \E t \in setting.texts, r \in Repos : Propose(t, r) \/ Upload(t, r)
            \/ \E i \in CloudIds, t \in setting.texts \cup {NoText} : Publish(i, t)
  BY <1>11 DEF Propose, Upload, Publish, Stays
<1>12. QED
  BY <1>5, <1>6, <1>7, <1>8, <1>9, <1>10, <1>11 DEF Next

-----------------------------------------------------------------------------
(* Approvals                                                               *)

\* An activated rule stays one.
LEMMA ActivatedStays ==
  ASSUME StoreInv, Next, NEW i \in Ids \ CloudIds, Activated(rule[i])
  PROVE  Activated(rule'[i])
<1>1. Moves(rule[i], rule'[i])
  BY RowsMove
<1>2. rule[i].status = "absent" => rule[i].hash \notin Unguided
  BY RuleStoreAssumption DEF StoreInv, RowOK
<1>3. QED
  BY <1>1, <1>2 DEF Moves, Activated

\* The setting of a behaviour never changes.
LEMMA SettingStays ==
  ASSUME [Next]_vars
  PROVE  /\ setting' = setting /\ CloudIds' = CloudIds /\ Ops' = Ops /\ Procs' = Procs
         /\ \A r : Activated(r)' = Activated(r)
<1>1. setting' = setting
  <2>1. CASE UNCHANGED vars
    BY <2>1 DEF vars
  <2>2. CASE Next
    BY <2>2, ZenonT(60) DEF Next, StartImport, StartSession, FindRejected, StartCapture, StartReview,
       RungHits, Insert, Reject, Disable, CheckTombstone, RungMisses, BumpRead, BumpWrite,
       Attach, Refine, Select, CheckDuplicate, Activate, Mark, DeleteRejected,
       SelectUnguided, Quarantine, StartSync, SyncSkills, ApplySyncResult, ApplyFails,
       SyncTeamSkills, Crash, Propose, Upload, Publish, farVars
  <2>3. QED
    BY <2>1, <2>2
<1>2. QED
  BY <1>1 DEF CloudIds, Ops, Procs, Activated

\* Where the ladder and the sync lead.
LEMMA LadderLeads ==
  ASSUME StoreInv, NEW o \in AllProcs,
         \/ \E t \in Texts, r \in Repos \cup {NoRepo} : StartSession(o, t, r) \/ StartCapture(o, t, r)
         \/ CheckTombstone(o) \/ RungMisses(o) \/ (\E i \in Ids : RungHits(o, i)) \/ BumpRead(o)
  PROVE  rule' = rule /\ proc'[o].pc \in Rungs \cup {"idle", "insert", "bump", "bumpWrite"}
<1>1. \A c : /\ At(o, c).pc = c /\ \A i : [At(o, c) EXCEPT !.id = i].pc = c
             /\ \A n : [At(o, c) EXCEPT !.score = n].pc = c
  BY PcOf
<1>2. Idle.pc = "idle"
  BY IdleFits
<1>3. ASSUME NEW q, Go(o, q) PROVE proc'[o] = q
  BY <1>3, GoMoves
<1>4. ASSUME NEW t \in Texts, NEW r \in Repos \cup {NoRepo}, StartSession(o, t, r)
      PROVE  rule' = rule /\ proc'[o].pc \in Rungs
  <2> DEFINE q == [Idle EXCEPT !.pc = "pendingSame", !.op = "session", !.text = t, !.repo = r]
  <2>1. Go(o, q) /\ rule' = rule
    BY <1>4 DEF StartSession
  <2>2. q.pc = "pendingSame"
    BY DEF Idle
  <2> HIDE DEF q
  <2>3. QED
    BY <1>3, <2>1, <2>2 DEF Rungs
<1>5. ASSUME NEW t \in Texts, NEW r \in Repos \cup {NoRepo}, StartCapture(o, t, r)
      PROVE  rule' = rule /\ proc'[o].pc \in Rungs
  <2> DEFINE q == [Idle EXCEPT !.pc = "conversation", !.op = "capture", !.text = t, !.repo = r]
  <2>1. Go(o, q) /\ rule' = rule
    BY <1>5 DEF StartCapture
  <2>2. q.pc = "conversation"
    BY DEF Idle
  <2> HIDE DEF q
  <2>3. QED
    BY <1>3, <2>1, <2>2 DEF Rungs
<1>6. CASE CheckTombstone(o)
  <2>1. (Go(o, Idle) \/ Go(o, At(o, "activeSame"))) /\ rule' = rule
    BY <1>6, Zenon DEF CheckTombstone
  <2>2. QED
    BY <1>1, <1>2, <1>3, <2>1 DEF Rungs
<1>7. CASE RungMisses(o)
  <2>1. /\ Go(o, At(o, NextRung(proc[o].op, proc[o].pc))) /\ rule' = rule
        /\ NextRung(proc[o].op, proc[o].pc) \in Rungs \cup {"insert"}
    BY <1>7 DEF RungMisses, NextRung, Rungs
  <2>2. QED
    BY <1>1, <1>3, <2>1
<1>8. ASSUME NEW i \in Ids, RungHits(o, i)
      PROVE  rule' = rule /\ proc'[o].pc \in {"idle", "bump"}
  <2> DEFINE q == [At(o, "bump") EXCEPT !.id = i]
  <2>1. (Go(o, Idle) \/ Go(o, q)) /\ rule' = rule
    BY <1>8, Zenon DEF RungHits
  <2>2. q.pc = "bump"
    BY <1>1
  <2> HIDE DEF q
  <2>3. QED
    BY <1>2, <1>3, <2>1, <2>2
<1>9. CASE BumpRead(o)
  <2> DEFINE q == [At(o, "bumpWrite") EXCEPT !.score = rule[proc[o].id].score]
  <2>1. rule' = rule /\ (Go(o, Idle) \/ Go(o, q))
    BY <1>9, Zenon DEF BumpRead
  <2>2. q.pc = "bumpWrite"
    BY <1>1
  <2> HIDE DEF q
  <2>3. QED
    BY <1>2, <1>3, <2>1, <2>2
<1>10. QED
  BY <1>4, <1>5, <1>6, <1>7, <1>8, <1>9

\* A sync goes on, or ends.
LEMMA SyncLeads ==
  ASSUME StoreInv, NEW o \in AllProcs,
         StartSync(o) \/ SyncSkills(o) \/ SyncTeamSkills(o) \/ ApplySyncResult(o)
  PROVE  proc'[o].pc \in Syncing \cup {"idle"}
<1>1. ASSUME NEW q, Go(o, q) PROVE proc'[o] = q
  BY <1>1, GoMoves
<1>2. CASE StartSync(o)
  <2>1. PICK z : Go(o, [Idle EXCEPT !.pc = "pull", !.op = "sync", !.fresh = TRUE, !.sent = z])
    BY <1>2 DEF StartSync
  <2>2. [Idle EXCEPT !.pc = "pull", !.op = "sync", !.fresh = TRUE, !.sent = z].pc = "pull"
    BY DEF Idle
  <2>3. proc'[o].pc = "pull"
    BY <1>1, <2>1, <2>2
  <2>4. QED
    BY <2>3 DEF Syncing
<1>3. CASE SyncSkills(o) \/ SyncTeamSkills(o)
  <2>1. PICK c \in Syncing : \E g : Go(o, [At(o, c) EXCEPT !.got = g])
    BY <1>3, Zenon DEF SyncSkills, SyncTeamSkills, Syncing
  <2>2. PICK g : Go(o, [At(o, c) EXCEPT !.got = g])
    BY <2>1
  <2>3. [At(o, c) EXCEPT !.got = g].pc = c
    BY PcOf
  <2>4. QED
    BY <1>1, <2>2, <2>3
<1>4. CASE ApplySyncResult(o)
  <2> DEFINE z == IF proc[o].pc = "applyTeam" THEN Idle
                  ELSE [At(o, "team") EXCEPT !.got = Nothing]
  <2>1. proc' = [proc EXCEPT ![o] = z] \/ proc' = [Outdated EXCEPT ![o] = z]
    BY <1>4, Zenon DEF ApplySyncResult
  <2>2. z.pc \in {"team", "idle"}
    BY IdleFits, PcOf
  <2> HIDE DEF z
  <2>3. proc'[o] = z
    BY <2>1, OutdatedFits DEF StoreInv, TypeOK
  <2>4. QED
    BY <2>2, <2>3 DEF Syncing
<1>5. QED
  BY <1>2, <1>3, <1>4

\* No approval at first,
LEMMA InitApproval == Init => ApprovalInv
BY DEF Init, ApprovalInv, Idle

\* and every approval is one of an activated rule.
LEMMA NextApproval == StoreInv /\ ApprovalInv /\ [Next]_vars => ApprovalInv'
<1> SUFFICES ASSUME StoreInv, ApprovalInv, [Next]_vars PROVE ApprovalInv'
  OBVIOUS
<1>1. CASE UNCHANGED vars
  BY <1>1 DEF vars, ApprovalInv, Activated, CloudIds, Ops
<1>2. CASE Next
  <2>1. /\ CloudIds' = CloudIds /\ \A r : Activated(r)' = Activated(r)
    BY SettingStays
  <2>2. /\ \A o \in AllProcs : proc[o] \in Proc /\ ProcOK(proc[o], rule)
        /\ rule \in [Ids -> Row] /\ session \in [Texts \X Repos -> Session]
        /\ proc \in [AllProcs -> Proc] /\ Procs \subseteq AllProcs
    BY SettingFacts DEF StoreInv, TypeOK
  <2>3. ASSUME NEW o \in AllProcs, proc'[o].pc = "mark"
        PROVE  Activated(rule'[proc'[o].id])
    <3>1. CASE Stays(o)
      <4>1. proc'[o].pc = proc[o].pc /\ proc'[o].id = proc[o].id
        BY <3>1, OutdatedFits DEF Stays
      <4>2. proc[o].id \in Ids \ CloudIds /\ Activated(rule[proc[o].id])
        BY <2>2, <2>3, <4>1 DEF ApprovalInv, ProcOK, Naming
      <4>3. QED
        BY <1>2, <4>1, <4>2, ActivatedStays
    <3>2. CASE Select(o)
      <4>1. /\ rule' = rule
            /\ \/ Go(o, At(o, "mark")) /\ rule[proc[o].id].status = "active"
               \/ Go(o, At(o, "duplicate")) \/ Go(o, Idle)
        BY <3>2, Zenon DEF Select, NotPending, AlreadyActive
      <4>2. \A q : Go(o, q) => proc'[o] = q
        BY GoMoves
      <4>3. At(o, "mark").id = proc[o].id /\ At(o, "duplicate").pc = "duplicate" /\ Idle.pc = "idle"
        BY PcOf, IdleFits
      <4>4. proc'[o].id = proc[o].id /\ rule[proc[o].id].status = "active"
        BY <2>3, <4>1, <4>2, <4>3
      <4>5. QED
        BY <4>1, <4>4 DEF Activated
    <3>3. CASE Activate(o)
      <4>1. proc[o].id \in Ids
        BY <2>2, <3>3 DEF Activate, ProcOK, Naming
      <4>2. \/ /\ rule' = [rule EXCEPT ![proc[o].id].status = "active"]
               /\ Go(o, At(o, "mark")) \/ Go(o, Idle)
            \/ /\ rule' = rule
               /\ \/ Go(o, At(o, "mark")) /\ rule[proc[o].id].status = "active"
                  \/ Go(o, Idle)
        BY <3>3, Zenon DEF Activate, NotPending, AlreadyActive
      <4>3. \A q : Go(o, q) => proc'[o] = q
        BY GoMoves
      <4>4. At(o, "mark").id = proc[o].id /\ Idle.pc = "idle"
        BY PcOf, IdleFits
      <4>5. proc'[o].id = proc[o].id
        BY <2>3, <4>2, <4>3, <4>4
      <4>6. rule'[proc[o].id].status = "active"
        BY <2>2, <2>3, <4>1, <4>2, <4>3, <4>4 DEF Row
      <4>7. QED
        BY <4>5, <4>6 DEF Activated
    <3>4. CASE \/ \E t \in Texts, r \in Repos \cup {NoRepo} : StartSession(o, t, r) \/ StartCapture(o, t, r)
               \/ CheckTombstone(o) \/ RungMisses(o) \/ (\E i \in Ids : RungHits(o, i)) \/ BumpRead(o)
      BY <2>3, <3>4, LadderLeads DEF Rungs
    <3>5. CASE StartSync(o) \/ SyncSkills(o) \/ SyncTeamSkills(o) \/ ApplySyncResult(o)
      BY <2>3, <3>5, SyncLeads DEF Syncing
    <3>6. CASE proc'[o].pc \in Quiet \/ (proc'[o].pc = "team" /\ ~proc'[o].fresh)
      BY <2>3, <3>6 DEF Quiet
    <3>7. QED
      BY <1>2, <3>1, <3>2, <3>3, <3>4, <3>5, <3>6, Locals
  <2>4. ASSUME NEW s \in Texts \X Repos, session'[s].state = "approved"
        PROVE  session'[s].rule \in Ids \ CloudIds /\ Activated(rule'[session'[s].rule])
    <3>1. CASE session'[s] = session[s]
      <4>1. session[s].rule \in Ids \ CloudIds /\ Activated(rule[session[s].rule])
        BY <2>4, <3>1 DEF ApprovalInv
      <4>2. QED
        BY <1>2, <3>1, <4>1, ActivatedStays
    <3>2. ASSUME NEW p \in Procs, Mark(p), session'[s] # session[s]
          PROVE  session'[s].rule \in Ids \ CloudIds /\ Activated(rule'[session'[s].rule])
      <4>1. p \in AllProcs
        BY <2>2
      <4>2. rule' = rule /\ proc[p].pc = "mark"
        BY <3>2 DEF Mark
      <4>3. session'[s] = [state |-> "approved", rule |-> proc[p].id]
        BY <2>2, <3>2 DEF Mark
      <4>4. proc[p].id \in Ids \ CloudIds /\ Activated(rule[proc[p].id])
        BY <2>2, <4>1, <4>2 DEF ApprovalInv, ProcOK, Naming
      <4>5. QED
        BY <4>2, <4>3, <4>4
    <3>3. CASE \/ \E p \in Procs : DeleteRejected(p)
               \/ \E t \in setting.texts, r \in Repos : Propose(t, r) \/ Upload(t, r)
      <4>1. PICK x \in {"gone", "proposed"} : \E k : session' = [session EXCEPT ![k].state = x]
        <5>1. ASSUME NEW p \in Procs, DeleteRejected(p)
              PROVE  \E x \in {"gone", "proposed"} : \E k : session' = [session EXCEPT ![k].state = x]
          BY <5>1 DEF DeleteRejected
        <5>2. ASSUME NEW t \in setting.texts, NEW r \in Repos, Propose(t, r) \/ Upload(t, r)
              PROVE  \E x \in {"gone", "proposed"} : \E k : session' = [session EXCEPT ![k].state = x]
          BY <5>2 DEF Propose, Upload
        <5>3. QED
          BY <3>3, <5>1, <5>2
      <4>2. session'[s] = session[s] \/ session'[s].state = x
        BY <2>2, <4>1 DEF Session
      <4>3. QED
        BY <2>4, <3>1, <4>2
    <3>4. \/ session' = session
          \/ \E p \in Procs : Mark(p) \/ DeleteRejected(p)
          \/ \E t \in setting.texts, r \in Repos : Propose(t, r) \/ Upload(t, r)
      BY <1>2, ZenonT(60) DEF Next, StartImport, StartSession, FindRejected, StartCapture, StartReview,
         RungHits, Insert, Reject, Disable, CheckTombstone, RungMisses, BumpRead, BumpWrite,
         Attach, Refine, Select, CheckDuplicate, Activate, SelectUnguided, Quarantine,
         StartSync, SyncSkills, ApplySyncResult, ApplyFails, SyncTeamSkills, Crash, Publish
    <3>5. QED
      BY <3>1, <3>2, <3>3, <3>4
  <2>5. QED
    BY <2>1, <2>3, <2>4 DEF ApprovalInv
<1>3. QED
  BY <1>1, <1>2

\* A candidate is marked approved only with a rule that was activated, and that is
\* still active or disabled unless a sweep quarantined it.
THEOREM ApprovalsNameRules == Spec => []ApprovedIsActivated
<1>1. ApprovalInv => ApprovedIsActivated
  BY DEF ApprovalInv, ApprovedIsActivated, Activated
<1>2. QED
  BY <1>1, InitApproval, NextApproval, StoreInvariant, PTL DEF Spec

-----------------------------------------------------------------------------
(* The sync                                                                *)

\* What a sync knows stays true while the cloud and its rows here do not change.
LEMMA InformedStays ==
  ASSUME StoreInv, CloudStill, cloud' = cloud, setting' = setting, NEW q, Informed(q)
  PROVE  Informed(q)'
<1>1. CloudIds' = CloudIds
  BY DEF CloudIds
<1>2. \A i \in CloudIds : rule'[i] = rule[i] /\ cloud'[i] = cloud[i]
  BY DEF CloudStill
<1>3. \A i \in CloudIds : Hashed(i)' = Hashed(i) /\ Visible(i)' = Visible(i)
  BY <1>1, <1>2 DEF Hashed, Listed, LacksRepo, Visible
<1>4. \A i \in CloudIds : Diff(i, Hashed(i))' = Diff(i, Hashed(i))
  BY <1>2, <1>3 DEF Diff
<1>5. CaughtUp' = CaughtUp
  BY <1>1, <1>2, <1>3 DEF CaughtUp, LacksRepo
<1>6. QED
  BY <1>1, <1>2, <1>3, <1>4, <1>5 DEF Informed

\* Whatever changes the cloud or its rows here tells every other sync.
LEMMA FreshStill ==
  ASSUME StoreInv, Next, NEW o \in AllProcs, Stays(o), proc'[o].fresh, ~ApplySyncResult(o)
  PROVE  proc'[o] = proc[o] /\ CloudStill /\ cloud' = cloud
<1>1. /\ proc \in [AllProcs -> Proc] /\ Outdated \in [AllProcs -> Proc] /\ ~Outdated[o].fresh
      /\ Procs \subseteq AllProcs
  BY OutdatedFits, SettingFacts DEF StoreInv, TypeOK
<1>2. proc'[o] = proc[o]
  BY <1>1 DEF Stays
<1>3. ASSUME NEW p \in Procs, NEW i \in CloudIds, Disable(p, i) PROVE FALSE
  <2>1. proc' = Outdated
    BY <1>3 DEF Disable
  <2>2. QED
    BY <1>1, <2>1
<1>4. ASSUME NEW p \in Procs, ApplySyncResult(p) PROVE CloudStill
  <2>1. PICK z : \/ rule' = rule
                 \/ proc' = [Outdated EXCEPT ![p] = z]
    BY <1>4, Zenon DEF ApplySyncResult
  <2>2. p # o
    BY <1>4
  <2>3. rule' = rule
    BY <1>1, <2>1, <2>2
  <2>4. QED
    BY <2>3 DEF CloudStill
<1>5. CloudStill
  BY <1>3, <1>4, RowsMove
<1>6. cloud' = cloud \/ proc' = Outdated
  BY ZenonT(60) DEF Next, StartImport, StartSession, FindRejected, StartCapture, StartReview,
     RungHits, Insert, Reject, Disable, CheckTombstone, RungMisses, BumpRead, BumpWrite,
     Attach, Refine, Select, CheckDuplicate, Activate, Mark, DeleteRejected,
     SelectUnguided, Quarantine, StartSync, SyncSkills, ApplySyncResult, ApplyFails,
     SyncTeamSkills, Crash, Propose, Upload, Publish, farVars
<1>7. QED
  BY <1>1, <1>2, <1>5, <1>6

\* The first round of a fresh sync leaves the table as the cloud has it.
LEMMA RoundCatchesUp ==
  ASSUME StoreInv, NEW o \in AllProcs, ApplySyncResult(o), Informed(proc[o]),
         proc[o].fresh, proc[o].pc = "applyPull"
  PROVE  \A i \in CloudIds :
           /\ Visible(i) => rule'[i].status = "active" /\ rule'[i].text = cloud[i]
           /\ ~Visible(i) /\ rule'[i].status = "active" =>
                i \in setting.extracted /\ rule'[i].repo = NoRepo
<1> SUFFICES ASSUME NEW i \in CloudIds
             PROVE  /\ Visible(i) => rule'[i].status = "active" /\ rule'[i].text = cloud[i]
                    /\ ~Visible(i) /\ rule'[i].status = "active" =>
                         i \in setting.extracted /\ rule'[i].repo = NoRepo
  OBVIOUS
<1> DEFINE g == proc[o].got[i]
<1>1. i \in Ids /\ rule[i] \in Row /\ RowOK(i, rule[i])
  BY SettingFacts DEF StoreInv, TypeOK
<1>2. rule'[i] = Applied(i, g)
  BY <1>1 DEF ApplySyncResult
<1>3. g.verb = Diff(i, Hashed(i)) /\ g.text = cloud[i]
  BY DEF Informed
<1> HIDE DEF g
<1> DEFINE scoped == IF rule[i].repo = NoRepo THEN setting.published[i] ELSE rule[i].repo
           w == [rule[i] EXCEPT !.status = "active", !.text = g.text, !.origin = "cloud",
                                !.repo = scoped]
<1>4. /\ g.verb = "create" => rule'[i] = w
      /\ g.verb = "update" /\ Stored(i) => rule'[i] = w
      /\ g.verb = "delete" => rule'[i] = NoRow
      /\ g.verb = "none" => rule'[i] = rule[i]
  BY <1>2 DEF Applied
<1>5. w.status = "active" /\ w.text = g.text
  BY <1>1 DEF Row
<1> HIDE DEF w
<1>6. CASE Listed(i)
  <2>1. rule[i].status = "active" /\ rule[i].text # NoText /\ Stored(i) /\ Hashed(i) = rule[i].text
    BY <1>1, <1>6 DEF RowOK, Listed, Stored, Hashed
  <2>2. CASE Visible(i)
    <3>1. CASE rule[i].text = cloud[i]
      <4>1. g.verb = "none"
        BY <1>3, <2>1, <2>2, <3>1 DEF Diff
      <4>2. QED
        BY <1>4, <2>1, <2>2, <3>1, <4>1
    <3>2. CASE rule[i].text # cloud[i]
      <4>1. g.verb = "update"
        BY <1>3, <2>1, <2>2, <3>2 DEF Diff
      <4>2. QED
        BY <1>3, <1>4, <1>5, <2>1, <2>2, <4>1
    <3>3. QED
      BY <3>1, <3>2
  <2>3. CASE ~Visible(i)
    <3>1. g.verb = "delete"
      BY <1>3, <2>1, <2>3 DEF Diff
    <3>2. QED
      BY <1>4, <2>3, <3>1 DEF NoRow
  <2>4. QED
    BY <2>2, <2>3
<1>7. CASE ~Listed(i)
  <2>1. Hashed(i) = NoText
    BY <1>7 DEF Hashed
  <2>2. CASE Visible(i)
    <3>1. g.verb = "create"
      BY <1>3, <2>1, <2>2 DEF Diff
    <3>2. QED
      BY <1>3, <1>4, <1>5, <2>2, <3>1
  <2>3. CASE ~Visible(i)
    <3>1. g.verb = "none"
      BY <1>3, <2>1, <2>3 DEF Diff
    <3>2. QED
      BY <1>4, <1>7, <2>3, <3>1 DEF Listed, LacksRepo
  <2>4. QED
    BY <2>2, <2>3
<1>8. QED
  BY <1>6, <1>7

\* Nothing is fresh at first,
LEMMA InitFresh == Init => FreshInv
BY DEF Init, FreshInv, Informed, Idle

\* and every step keeps what a fresh sync knows.
LEMMA NextFresh == StoreInv /\ StoreInv' /\ FreshInv /\ [Next]_vars => FreshInv'
<1> SUFFICES ASSUME StoreInv, StoreInv', FreshInv, [Next]_vars, NEW o \in AllProcs
             PROVE  Informed(proc[o])'
  BY DEF FreshInv
<1>1. setting' = setting /\ CloudIds' = CloudIds /\ Informed(proc[o]) /\ CloudIds \subseteq Ids
  BY SettingStays, SettingFacts DEF FreshInv, StoreInv
<1>2. CASE UNCHANGED vars
  <2>1. CloudStill /\ cloud' = cloud /\ proc' = proc
    BY <1>2 DEF vars, CloudStill
  <2>2. Informed(proc[o])' = Informed(proc[o])
    BY <1>1, <1>2 DEF vars, Informed, Hashed, Listed, LacksRepo, Visible, Diff, CaughtUp
  <2>3. QED
    BY <1>1, <2>2
<1>3. CASE Next
  <2>1. CASE ~proc'[o].fresh
    BY <2>1 DEF Informed
  <2>2. CASE proc'[o].pc \notin Syncing
    BY <2>1, <2>2 DEF StoreInv, ProcOK
  <2>3. ASSUME Stays(o), proc'[o].fresh, ~ApplySyncResult(o) PROVE Informed(proc[o])'
    <3>1. proc'[o] = proc[o] /\ CloudStill /\ cloud' = cloud
      BY <1>3, <2>3, FreshStill
    <3>2. Informed(proc'[o])
      BY <1>1, <3>1
    <3>3. QED
      BY <1>1, <3>1, <3>2, InformedStays
  <2>4. CASE \/ proc'[o].pc \in Quiet \/ (proc'[o].pc = "team" /\ ~proc'[o].fresh)
             \/ Select(o) \/ Activate(o)
             \/ \E t \in Texts, r \in Repos \cup {NoRepo} : StartSession(o, t, r) \/ StartCapture(o, t, r)
             \/ CheckTombstone(o) \/ RungMisses(o) \/ (\E i \in Ids : RungHits(o, i)) \/ BumpRead(o)
    <3>1. CASE proc'[o].pc \in Quiet \/ (proc'[o].pc = "team" /\ ~proc'[o].fresh)
      BY <2>1, <2>2, <3>1 DEF Quiet, Syncing
    <3>2. CASE Select(o) \/ Activate(o)
      <4>1. Go(o, Idle) \/ Go(o, At(o, "duplicate")) \/ Go(o, At(o, "mark"))
        BY <3>2, Zenon DEF Select, Activate, NotPending
      <4>2. \A q : Go(o, q) => proc'[o] = q
        BY GoMoves
      <4>3. Idle.pc = "idle" /\ At(o, "duplicate").pc = "duplicate" /\ At(o, "mark").pc = "mark"
        BY PcOf, IdleFits
      <4>4. QED
        BY <2>2, <4>1, <4>2, <4>3 DEF Syncing
    <3>3. CASE \/ \E t \in Texts, r \in Repos \cup {NoRepo} : StartSession(o, t, r) \/ StartCapture(o, t, r)
               \/ CheckTombstone(o) \/ RungMisses(o) \/ (\E i \in Ids : RungHits(o, i)) \/ BumpRead(o)
      BY <2>2, <3>3, LadderLeads DEF Rungs, Syncing
    <3>4. QED
      BY <2>4, <3>1, <3>2, <3>3
  <2>5. CASE StartSync(o)
    <3> DEFINE z == [i \in Ids |-> IF Listed(i) THEN rule[i].text ELSE NoText]
               q == [Idle EXCEPT !.pc = "pull", !.op = "sync", !.fresh = TRUE, !.sent = z]
    <3>1. Go(o, q) /\ CloudStill /\ cloud' = cloud
      BY <2>5 DEF StartSync, CloudStill, farVars
    <3>2. \A i \in CloudIds : z[i] = Hashed(i)
      BY <1>1 DEF Hashed
    <3> HIDE DEF z
    <3>3. q.pc = "pull" /\ q.sent = z
      BY DEF Idle
    <3> HIDE DEF q
    <3>4. Informed(q)
      BY <3>2, <3>3 DEF Informed
    <3>5. proc'[o] = q
      BY <3>1, GoMoves
    <3>6. QED
      BY <1>1, <3>1, <3>4, <3>5, InformedStays
  <2>6. CASE SyncSkills(o)
    <3> DEFINE g == [i \in Ids |-> [verb |-> Diff(i, proc[o].sent[i]), text |-> cloud[i]]]
               q == [At(o, "applyPull") EXCEPT !.got = g]
    <3>1. Go(o, q) /\ CloudStill /\ cloud' = cloud /\ proc[o].pc = "pull"
      BY <2>6 DEF SyncSkills, CloudStill, farVars
    <3>2. \A i \in CloudIds : g[i].verb = Diff(i, proc[o].sent[i]) /\ g[i].text = cloud[i]
      BY <1>1
    <3> HIDE DEF g
    <3>3. q.pc = "applyPull" /\ q.got = g /\ q.fresh = proc[o].fresh
      BY PcOf
    <3> HIDE DEF q
    <3>4. Informed(q)
      BY <1>1, <3>1, <3>2, <3>3 DEF Informed
    <3>5. proc'[o] = q
      BY <3>1, GoMoves
    <3>6. QED
      BY <1>1, <3>1, <3>4, <3>5, InformedStays
  <2>7. CASE SyncTeamSkills(o)
    <3>1. PICK g : Go(o, [At(o, "applyTeam") EXCEPT !.got = g])
      BY <2>7 DEF SyncTeamSkills
    <3> DEFINE q == [At(o, "applyTeam") EXCEPT !.got = g]
    <3>2. CloudStill /\ cloud' = cloud /\ proc[o].pc = "team"
      BY <2>7 DEF SyncTeamSkills, CloudStill, farVars
    <3>3. q.pc = "applyTeam" /\ q.fresh = proc[o].fresh
      BY PcOf
    <3>4. proc'[o] = q
      BY <3>1, GoMoves
    <3> HIDE DEF q
    <3>5. Informed(q)
      BY <1>1, <3>2, <3>3 DEF Informed
    <3>6. QED
      BY <1>1, <3>2, <3>4, <3>5, InformedStays
  <2>8. CASE ApplySyncResult(o)
    <3> DEFINE z == IF proc[o].pc = "applyTeam" THEN Idle
                    ELSE [At(o, "team") EXCEPT !.got = Nothing]
    <3>1. proc' = [proc EXCEPT ![o] = z] \/ proc' = [Outdated EXCEPT ![o] = z]
      BY <2>8, Zenon DEF ApplySyncResult
    <3>2. proc[o].pc \in {"applyPull", "applyTeam"} /\ cloud' = cloud
      BY <2>8 DEF ApplySyncResult, farVars
    <3>3. /\ proc[o].pc = "applyTeam" => z.fresh = FALSE
          /\ proc[o].pc = "applyPull" => z.pc = "team" /\ z.fresh = proc[o].fresh
      BY IdleFits, AppliedProc
    <3> HIDE DEF z
    <3>4. proc'[o] = z
      BY <3>1, OutdatedFits DEF StoreInv, TypeOK
    <3>5. CASE proc[o].pc = "applyPull" /\ proc[o].fresh
      <4>1. \A i \in CloudIds :
              /\ Visible(i) => rule'[i].status = "active" /\ rule'[i].text = cloud[i]
              /\ ~Visible(i) /\ rule'[i].status = "active" =>
                   i \in setting.extracted /\ rule'[i].repo = NoRepo
        BY <1>1, <2>8, <3>5, RoundCatchesUp
      <4>2. \A i \in CloudIds : Visible(i)' = Visible(i) /\ cloud'[i] = cloud[i]
        BY <3>2 DEF Visible
      <4>3. CaughtUp'
        BY <1>1, <4>1, <4>2 DEF CaughtUp, LacksRepo
      <4>4. QED
        BY <3>3, <3>4, <3>5, <4>3 DEF Informed
    <3>6. CASE proc[o].pc = "applyTeam" \/ ~proc[o].fresh
      BY <2>1, <3>2, <3>3, <3>4, <3>6
    <3>7. QED
      BY <3>2, <3>5, <3>6
  <2>9. QED
    BY <1>3, <2>1, <2>3, <2>4, <2>5, <2>6, <2>7, <2>8, Locals
<1>4. QED
  BY <1>2, <1>3

\* After its first round, a sync that nothing disturbed leaves the published rules
\* active, with their texts, and of the others only those prepare_excluded_ids
\* leaves out: extracted, and without repository.
THEOREM SyncIsComplete == Spec => []SyncCatchesUp
<1>1. StoreInv /\ FreshInv => SyncCatchesUp
  <2> SUFFICES ASSUME StoreInv, FreshInv, NEW p \in Procs,
                      proc[p].pc \in {"team", "applyTeam"}, proc[p].fresh
               PROVE  CaughtUp
    BY DEF SyncCatchesUp, CaughtUp
  <2>1. Informed(proc[p])
    BY SettingFacts DEF FreshInv, StoreInv
  <2>2. QED
    BY <2>1 DEF Informed
<1>2. QED
  BY <1>1, InitFresh, NextFresh, StoreInvariant, PTL DEF Spec

-----------------------------------------------------------------------------
(* The ladder, climbed by a single process                                 *)

Climbing == {"pendingSame", "activeAlike", "pendingAlike", "conversation", "insert", "bump",
             "bumpWrite"}

\* Who changes rows.
LEMMA RuleWriters ==
  ASSUME StoreInv, Next, rule' # rule
  PROVE  \E p \in Procs :
           \/ proc[p].pc \in {"idle", "attach", "refine", "activate", "quarantine",
                              "applyPull", "applyTeam"}
           \/ BumpWrite(p) \/ \E i \in Ids : Insert(p, i)
<1>1. \/ \E p \in Procs : \/ BumpWrite(p) \/ Attach(p) \/ Refine(p) \/ Activate(p)
                          \/ Quarantine(p) \/ ApplySyncResult(p)
      \/ \E p \in Procs, i \in Ids : Insert(p, i) \/ Reject(p, i) \/ Disable(p, i)
  BY DEF Next, StartImport, StartSession, FindRejected, StartCapture, StartReview, RungHits,
     CheckTombstone, RungMisses, BumpRead, Select, CheckDuplicate, Mark, DeleteRejected,
     SelectUnguided, StartSync, SyncSkills, ApplyFails, SyncTeamSkills, Crash, Propose,
     Upload, Publish
<1>2. QED
  BY <1>1 DEF Attach, Refine, Activate, Quarantine, ApplySyncResult, Reject, Disable

\* A process that has stored its rule has left the ladder.
LEMMA StoredQuiet ==
  ASSUME StoreInv, NEW p \in AllProcs, BumpWrite(p) \/ \E i \in Ids : Insert(p, i)
  PROVE  proc'[p].pc \in Quiet
<1>1. \A q : Go(p, q) => proc'[p] = q
  BY GoMoves
<1>2. CASE BumpWrite(p)
  <2>1. Go(p, Idle) \/ Go(p, Remembered(p, proc[p].id, FALSE))
    BY <1>2 DEF BumpWrite
  <2>2. proc[p].pc = "bumpWrite" /\ proc[p].id \in Ids \ CloudIds
    BY <1>2 DEF BumpWrite, StoreInv, ProcOK, Naming
  <2>3. Remembered(p, proc[p].id, FALSE).pc \in Quiet /\ Idle.pc \in Quiet
    BY <2>2, RememberedQuiet, IdleFits DEF Quiet
  <2>4. QED
    BY <1>1, <2>1, <2>3
<1>3. ASSUME NEW i \in Ids, Insert(p, i) PROVE proc'[p].pc \in Quiet
  <2>1. i \in Ids \ CloudIds /\ proc[p].pc = "insert" /\ Go(p, Remembered(p, i, TRUE))
    BY <1>3, SettingFacts DEF Insert, StoreInv
  <2>2. Remembered(p, i, TRUE).pc \in Quiet
    BY <2>1, RememberedQuiet
  <2>3. QED
    BY <1>1, <2>1, <2>2
<1>4. QED
  BY <1>2, <1>3

\* Each rung adds what it found out to what the process knows.
LEMMA RungClimbs ==
  ASSUME StoreInv, NEW o \in AllProcs, Climbed(proc[o]),
         \/ \E t \in Texts, r \in Repos \cup {NoRepo} : StartSession(o, t, r) \/ StartCapture(o, t, r)
         \/ CheckTombstone(o) \/ RungMisses(o) \/ (\E i \in Ids : RungHits(o, i)) \/ BumpRead(o)
  PROVE  Climbed(proc'[o])
<1>1. \A q : Go(o, q) => proc'[o] = q
  BY GoMoves
<1>2. CASE proc'[o].pc \notin Climbing
  BY <1>2 DEF Climbed, Climbing
<1>3. ASSUME NEW t \in Texts, NEW r \in Repos \cup {NoRepo},
             StartSession(o, t, r) \/ StartCapture(o, t, r)
      PROVE  Climbed(proc'[o])
  <2>1. PICK c \in {"pendingSame", "conversation"}, x \in {"session", "capture"} :
          Go(o, [Idle EXCEPT !.pc = c, !.op = x, !.text = t, !.repo = r])
    BY <1>3, Zenon DEF StartSession, StartCapture
  <2> DEFINE q == [Idle EXCEPT !.pc = c, !.op = x, !.text = t, !.repo = r]
  <2>2. q.pc = c /\ q.op = x
    BY DEF Idle
  <2>3. proc'[o] = q
    BY <1>1, <2>1
  <2> HIDE DEF q
  <2>4. QED
    BY <2>2, <2>3 DEF Climbed
<1>4. CASE CheckTombstone(o)
  <2>1. Go(o, Idle) \/ Go(o, At(o, "activeSame"))
    BY <1>4, Zenon DEF CheckTombstone
  <2>2. Idle.pc = "idle" /\ At(o, "activeSame").pc = "activeSame"
    BY PcOf, IdleFits
  <2>3. QED
    BY <1>1, <1>2, <2>1, <2>2 DEF Climbing
<1>5. CASE RungMisses(o)
  <2> DEFINE c == NextRung(proc[o].op, proc[o].pc)
             q == At(o, c)
  <2>1. /\ Go(o, q) /\ proc[o].pc \in Rungs
        /\ \A i \in Ids : ~Matches(rule[i], proc[o].pc, proc[o])
    BY <1>5 DEF RungMisses, Rungs
  <2>2. c \in Rungs \cup {"insert"}
    BY <2>1 DEF NextRung, Rungs
  <2> HIDE DEF c
  <2>3. /\ q.pc = c /\ q.op = proc[o].op /\ q.text = proc[o].text /\ q.repo = proc[o].repo
    BY PcOf
  <2>4. proc'[o] = q
    BY <1>1, <2>1
  <2> HIDE DEF q
  <2>5. ASSUME proc[o].op \in {"import", "distill"}
        PROVE  \A i \in Ids : ~(/\ rule[i].status = "active" /\ rule[i].hash = proc[o].text
                                /\ rule[i].repo = proc[o].repo)
    <3>1. CASE proc[o].pc = "activeSame"
      BY <2>1, <3>1 DEF Matches
    <3>2. CASE proc[o].pc # "activeSame"
      BY <2>1, <2>5, <3>2 DEF Climbed, Rungs
    <3>3. QED
      BY <3>1, <3>2
  <2>6. QED
    BY <2>2, <2>3, <2>4, <2>5 DEF Climbed, Rungs
<1>6. ASSUME NEW i \in Ids, RungHits(o, i) PROVE Climbed(proc'[o])
  <2>1. CASE proc[o].pc \in {"activeSame", "activeAlike"}
    <3>1. Go(o, Idle) /\ Idle.pc = "idle"
      BY <1>6, <2>1, IdleFits DEF RungHits
    <3>2. QED
      BY <1>1, <1>2, <3>1 DEF Climbing
  <2>2. CASE proc[o].pc \notin {"activeSame", "activeAlike"}
    <3> DEFINE q == [At(o, "bump") EXCEPT !.id = i]
    <3>1. Go(o, q) /\ Matches(rule[i], proc[o].pc, proc[o])
          /\ proc[o].pc \in {"pendingSame", "pendingAlike", "conversation"}
      BY <1>6, <2>2 DEF RungHits
    <3>2. q.pc = "bump" /\ q.id = i /\ q.op = proc[o].op
      BY PcOf
    <3>3. proc'[o] = q
      BY <1>1, <3>1
    <3> HIDE DEF q
    <3>4. proc[o].op # "capture" => rule[i].status = "pending"
      BY <3>1 DEF Matches, StatusOf
    <3>5. QED
      BY <3>2, <3>3, <3>4 DEF Climbed
  <2>3. QED
    BY <2>1, <2>2
<1>7. CASE BumpRead(o)
  <2> DEFINE q == [At(o, "bumpWrite") EXCEPT !.score = rule[proc[o].id].score]
  <2>1. proc[o].pc = "bump" /\ (Go(o, Idle) \/ Go(o, q))
    BY <1>7, Zenon DEF BumpRead
  <2>2. q.pc = "bumpWrite" /\ q.id = proc[o].id /\ q.op = proc[o].op /\ Idle.pc = "idle"
    BY PcOf, IdleFits
  <2> HIDE DEF q
  <2>3. CASE Go(o, Idle)
    BY <1>1, <1>2, <2>2, <2>3 DEF Climbing
  <2>4. CASE Go(o, q)
    <3>1. proc'[o] = q
      BY <1>1, <2>4
    <3>2. QED
      BY <2>1, <2>2, <3>1 DEF Climbed
  <2>5. QED
    BY <2>1, <2>3, <2>4
<1>8. QED
  BY <1>3, <1>4, <1>5, <1>6, <1>7

\* Nobody is on the ladder at first,
LEMMA InitLadder == Init => LadderInv
<1> SUFFICES ASSUME Init, NEW p \in Procs, p \in AllProcs PROVE Climbed(proc[p])
  <2>1. ASSUME Init PROVE Procs \subseteq AllProcs
    BY <2>1, InitStore, SettingFacts DEF StoreInv
  <2>2. QED
    BY <2>1 DEF LadderInv
<1>1. proc[p].pc = "idle"
  BY DEF Init, Idle
<1>2. QED
  BY <1>1 DEF Climbed

\* and what a single process has learnt stays true until it has stored its rule.
LEMMA NextLadder == StoreInv /\ LadderInv /\ [Next]_vars => LadderInv'
<1> SUFFICES ASSUME StoreInv, LadderInv, [Next]_vars, Alone, NEW o \in Procs
             PROVE  Climbed(proc[o])'
  <2>1. ASSUME [Next]_vars PROVE Procs' = Procs
    BY <2>1, SettingStays
  <2>2. QED
    BY <2>1 DEF LadderInv, Alone
<1>1. o \in AllProcs /\ Climbed(proc[o]) /\ \A p \in Procs : p = o
  BY SettingFacts DEF StoreInv, LadderInv, Alone
<1>2. CASE UNCHANGED vars
  BY <1>1, <1>2 DEF vars, Climbed
<1>3. CASE Next
  <2>1. CASE proc'[o].pc \notin Climbing
    BY <2>1 DEF Climbed, Climbing
  <2>2. CASE Stays(o) /\ proc'[o].pc \in Climbing
    <3>1. /\ proc'[o].pc = proc[o].pc /\ proc'[o].id = proc[o].id /\ proc'[o].op = proc[o].op
          /\ proc'[o].text = proc[o].text /\ proc'[o].repo = proc[o].repo
      BY <1>1, <2>2, OutdatedFits DEF Stays
    <3>2. rule' = rule
      <4> SUFFICES ASSUME rule' # rule PROVE FALSE
        OBVIOUS
      <4>1. \/ proc[o].pc \in {"idle", "attach", "refine", "activate", "quarantine",
                               "applyPull", "applyTeam"}
            \/ BumpWrite(o) \/ \E i \in Ids : Insert(o, i)
        BY <1>1, <1>3, RuleWriters
      <4>2. proc'[o].pc \notin Quiet
        BY <2>2 DEF Climbing, Quiet
      <4>3. QED
        BY <1>1, <2>2, <3>1, <4>1, <4>2, StoredQuiet DEF Climbing
    <3>3. QED
      BY <1>1, <3>1, <3>2 DEF Climbed
  <2>3. CASE \/ \E t \in Texts, r \in Repos \cup {NoRepo} : StartSession(o, t, r) \/ StartCapture(o, t, r)
             \/ CheckTombstone(o) \/ RungMisses(o) \/ (\E i \in Ids : RungHits(o, i)) \/ BumpRead(o)
    <3>1. Climbed(proc'[o]) /\ rule' = rule
      BY <1>1, <2>3, RungClimbs, LadderLeads
    <3>2. QED
      BY <3>1 DEF Climbed
  <2>4. CASE Select(o) \/ Activate(o)
    <3>1. Go(o, Idle) \/ Go(o, At(o, "duplicate")) \/ Go(o, At(o, "mark"))
      BY <2>4, Zenon DEF Select, Activate, NotPending
    <3>2. \A q : Go(o, q) => proc'[o] = q
      BY <1>1, GoMoves
    <3>3. Idle.pc = "idle" /\ At(o, "duplicate").pc = "duplicate" /\ At(o, "mark").pc = "mark"
      BY <1>1, PcOf, IdleFits
    <3>4. QED
      BY <2>1, <3>1, <3>2, <3>3 DEF Climbing
  <2>5. CASE StartSync(o) \/ SyncSkills(o) \/ SyncTeamSkills(o) \/ ApplySyncResult(o)
    BY <1>1, <2>1, <2>5, SyncLeads DEF Climbing, Syncing
  <2>6. CASE proc'[o].pc \in Quiet \/ (proc'[o].pc = "team" /\ ~proc'[o].fresh)
    BY <2>1, <2>6 DEF Climbing, Quiet
  <2>7. QED
    BY <1>1, <1>3, <2>1, <2>2, <2>3, <2>4, <2>5, <2>6, Locals
<1>4. QED
  BY <1>2, <1>3

\* The ladder invariant, in every reachable state.
LEMMA LadderInvariant == Spec => []LadderInv
BY InitLadder, NextLadder, StoreInvariant, PTL DEF Spec

\* Run by one process, an import never inserts a draft of content that is active
\* in its repository.
THEOREM ImportForksNoDraft == Spec => NoForkedDraft
<1>1. ASSUME LadderInv, [Next]_vars
      PROVE  [\A p \in Procs : Alone /\ Inserts(p) /\ proc[p].op \in {"import", "distill"} =>
                \A i \in Ids : ~(/\ rule[i].status = "active" /\ rule[i].hash = proc[p].text
                                 /\ rule[i].repo = proc[p].repo)]_vars
  BY <1>1 DEF LadderInv, Climbed, Inserts
<1>2. QED
  BY <1>1, LadderInvariant, PTL DEF Spec, NoForkedDraft

\* Run by one process, only an agent's own capture strengthens an active rule.
THEOREM DraftsStrengthenDrafts == Spec => TrustTiersApart
<1>1. ASSUME StoreInv, LadderInv, [Next]_vars
      PROVE  [\A p \in Procs, i \in Ids :
                /\ Alone /\ proc[p].pc = "bumpWrite" /\ proc[p].op # "capture" /\ proc'[p] # proc[p]
                /\ rule'[i].score > rule[i].score
                => rule[i].status = "pending"]_vars
  <2> SUFFICES ASSUME Next, NEW p \in Procs, NEW i \in Ids, Alone, proc[p].pc = "bumpWrite",
                      proc[p].op # "capture", rule'[i].score > rule[i].score
               PROVE  rule[i].status = "pending"
    BY <1>1
  <2>1. rule \in [Ids -> Row] /\ p \in AllProcs /\ Climbed(proc[p]) /\ \A q \in Procs : q = p
    BY <1>1, SettingFacts DEF StoreInv, TypeOK, LadderInv, Alone
  <2>2. rule[i].score \in Nat
    BY <2>1 DEF Row
  <2>3. rule'[i] # rule[i] /\ rule' # rule
    BY <2>2
  <2>4. BumpWrite(p)
    BY <1>1, <2>1, <2>3, RuleWriters DEF Insert
  <2>5. rule' = [rule EXCEPT ![proc[p].id].score = Strengthened(proc[p].score)]
    BY <2>3, <2>4 DEF BumpWrite
  <2>6. i = proc[p].id
    BY <2>1, <2>3, <2>5
  <2>7. QED
    BY <2>1, <2>6 DEF Climbed
<1>2. QED
  BY <1>1, LadderInvariant, StoreInvariant, PTL DEF Spec, TrustTiersApart

=============================================================================
