------------------------- MODULE MemoryTriageProofs -------------------------
(***************************************************************************)
(* Proofs about MemoryTriage, for any number of processes, lessons, rows   *)
(* and sessions and any answer of the language model.                      *)
(***************************************************************************)
EXTENDS MemoryTriage, TLAPS, FiniteSetTheorems, WellFoundedInduction

\* The jobs that wait behind another one, and those that work on loaded rows.
Queued == {"evidence", "triage", "delete", "clear", "fold", "gather", "also"}
OnRows == {"evidence", "triage", "delete", "purge"}

\* A process that has loaded rows has some left to write, and no other has any; only
\* jobs on groups and lessons wait behind its job; its plan has a candidate once.
Formed(q) ==
  /\ q.loaded => q.jobs # <<>> /\ Head(q.jobs).job \in OnRows /\ q.todo # {}
  /\ q.todo # {} => q.loaded
  /\ \A k \in 2..Len(q.jobs) : q.jobs[k].job \in Queued
  /\ \A c, d \in q.plan : c.id = d.id => c = d

\* A lesson that is in the table, or lost a row of its topic to a judgement.
Backed(l, table, gone) ==
  Topic[l] \in gone \/ \E i \in Ids : table[i] # NoRow /\ Topic[table[i].lesson] = Topic[l]

\* Two payloads of one lesson, both or neither dropped by an earlier version.
SameMemory(r, s) == r.lesson = s.lesson /\ (r.triage = "dropped" <=> s.triage = "dropped")

\* What a job j with rows S still to write knows of the table: the rows it loaded,
\* and the payload it read, are still of the same lesson; the rows it deletes were
\* not approved when it chose them, and those it purges were dropped; the lesson it
\* counts is backed.
Knows(j, S, table, n, late, gone) ==
  /\ \A i \in S : i < n
  /\ j.job \in {"evidence", "triage", "delete"} =>
       \A i \in S : table[i] # NoRow => table[i].lesson = j.lesson
  /\ j.job \in {"delete", "purge"} =>
       \A i \in S : table[i] # NoRow /\ table[i].approved => i \in late
  /\ j.job = "triage" => \A i \in S : table[i] # NoRow => table[i].triage # "dropped"
  /\ j.job = "purge" => \A i \in S : table[i] # NoRow => table[i].triage = "dropped"
  /\ j.job = "remove" => (table[j.id] # NoRow /\ table[j.id].approved => j.id \in late)
  /\ j.job = "mark" =>
       j.id < n /\ (table[j.id] # NoRow => SameMemory(table[j.id], j.payload))
  /\ j.job = "count" => Backed(j.lesson, table, gone)

\* The inductive invariant behind all others.
TriageInv ==
  /\ TypeOK
  /\ \A p \in Procs : Formed(proc[p])
  /\ \A p \in Procs : Busy(p) =>
       Knows(Current(p), proc[p].todo, row, next, overtaken, judged)

\* What a process with the jobs js, outside the triage, knows of the rules: a row whose
\* approval is under way is of a topic with an active rule; so is one that is approved
\* along with another, or that other one is approved first.
Promises(js, table, n, rules) ==
  /\ js # <<>> /\ Head(js).job \in {"read", "mark"} =>
       LET i == Head(js).id
       IN i \in Ids /\ i < n /\ (table[i] # NoRow => Topic[table[i].lesson] \in rules)
  /\ \A k \in 1..Len(js) : js[k].job = "also" =>
       \/ Topic[js[k].lesson] \in rules
       \/ Head(js).job = "approve" /\ Topic[Head(js).lesson] = Topic[js[k].lesson]

\* What is approved has an active rule.
Promoted ==
  /\ \A i \in Rows : row[i].approved => Topic[row[i].lesson] \in active
  /\ \A p \in Procs : proc[p].stage \notin {"clean", "fold"} =>
       Promises(proc[p].jobs, row, next, active)

-----------------------------------------------------------------------------
(* Finite sets                                                             *)

\* R compares any two members of S, and is transitive.
Orders(R, S) ==
  /\ \A x, y \in S : x # y => <<x, y>> \in R \/ <<y, x>> \in R
  /\ \A x, y, z \in S : <<x, y>> \in R /\ <<y, z>> \in R => <<x, z>> \in R

\* x is the strongest member of S.
Tops(x, R, S) == x \in S /\ \A y \in S \ {x} : <<x, y>> \in R

\* A finite set has a strongest member by any such order: a smallest subset without
\* one would have one as soon as a member is taken out.
LEMMA FiniteTop ==
  ASSUME NEW S, IsFiniteSet(S), S # {}, NEW R, Orders(R, S)
  PROVE  \E x : Tops(x, R, S)
<1> DEFINE Top(T) == \E x \in T : \A y \in T \ {x} : <<x, y>> \in R
           Bad == {T \in FiniteSubsetsOf(S) : T # {} /\ ~Top(T)}
<1>1. SUFFICES ASSUME ~Top(S) PROVE FALSE
  BY DEF Tops
<1>2. S \in Bad
  BY <1>1 DEF FiniteSubsetsOf
<1>3. PICK T \in Bad : \A U \in Bad : ~(<<U, T>> \in StrictSubsetOrdering(S))
  <2>1. Bad \subseteq FiniteSubsetsOf(S) /\ Bad # {}
    BY <1>2
  <2>2. IsWellFoundedOn(StrictSubsetOrdering(S), FiniteSubsetsOf(S))
    BY FS_StrictSubsetOrderingWellFounded
  <2> HIDE DEF Bad
  <2>3. QED
    BY <2>1, <2>2, WFMin
<1>4. T \in SUBSET S /\ IsFiniteSet(T) /\ T # {} /\ ~Top(T)
  BY DEF FiniteSubsetsOf
<1>5. PICK x \in T : TRUE
  BY <1>4
<1>6. T \ {x} \in FiniteSubsetsOf(S) /\ <<T \ {x}, T>> \in StrictSubsetOrdering(S)
  BY <1>4, <1>5, FS_RemoveElement DEF FiniteSubsetsOf, StrictSubsetOrdering
<1>7. T \ {x} = {} \/ Top(T \ {x})
  BY <1>3, <1>6
<1>8. CASE T \ {x} = {}
  BY <1>4, <1>5, <1>8
<1>9. ASSUME NEW y \in T \ {x}, \A z \in (T \ {x}) \ {y} : <<y, z>> \in R PROVE FALSE
  <2>1. CASE <<x, y>> \in R
    <3>1. \A z \in T \ {x} : <<x, z>> \in R
      BY <1>4, <1>9, <2>1 DEF Orders
    <3>2. QED
      BY <1>4, <1>5, <3>1
  <2>2. CASE <<y, x>> \in R
    <3>1. \A z \in T \ {y} : <<y, z>> \in R
      BY <1>9, <2>2
    <3>2. QED
      BY <1>4, <1>9, <3>1
  <2>3. QED
    BY <1>4, <1>9, <2>1, <2>2 DEF Orders
<1>10. QED
  BY <1>7, <1>8, <1>9

\* Max finds the largest of finitely many numbers.
LEMMA MaxIn ==
  ASSUME NEW S \in SUBSET Nat, IsFiniteSet(S), S # {}
  PROVE  Max(S) \in S /\ \A x \in S : Max(S) >= x
<1>1. PICK R : \A x, y \in S : <<x, y>> \in R <=> x > y
  <2> WITNESS {r \in S \X S : r[1] > r[2]}
  <2> QED
    OBVIOUS
<1>2. Orders(R, S)
  BY <1>1 DEF Orders
<1>3. PICK x : Tops(x, R, S)
  BY <1>2, FiniteTop
<1>4. ASSUME NEW y \in S PROVE x >= y
  <2>1. x \in Nat /\ y \in Nat /\ (x = y \/ x > y)
    BY <1>1, <1>3 DEF Tops
  <2>2. QED
    BY <2>1
<1>5. QED
  BY <1>3, <1>4 DEF Max, Tops

\* The newest of some rows is one of them.
LEMMA NewestIn == ASSUME NEW S \in SUBSET Ids, S # {} PROVE Max(S) \in S
<1>1. S \in SUBSET Nat /\ IsFiniteSet(S)
  <2>1. NumRows \in Int /\ 1 \in Int /\ Ids \subseteq Nat
    BY MemoryTriageAssumption DEF Ids
  <2>2. IsFiniteSet(Ids)
    BY <2>1, FS_Interval DEF Ids
  <2>3. QED
    BY <2>1, <2>2, FS_Subset
<1>2. QED
  BY <1>1, MaxIn

\* The range of a function on a finite set is finite.
LEMMA RangeFinite ==
  ASSUME NEW S, IsFiniteSet(S), NEW f, f = [x \in S |-> f[x]]
  PROVE  IsFiniteSet({f[x] : x \in S})
<1> DEFINE T == {f[x] : x \in S}
<1>1. f \in Surjection(S, T)
  BY DEF Surjection
<1>2. QED
  BY <1>1, FS_Surjection

\* SetToSeq lists the members of a finite set.
LEMMA Listed ==
  ASSUME NEW S, IsFiniteSet(S)
  PROVE  /\ Cardinality(S) \in Nat
         /\ SetToSeq(S) \in [1..Cardinality(S) -> S]
         /\ IsInjective(SetToSeq(S))
<1>1. Cardinality(S) \in Nat /\ ExistsBijection(1..Cardinality(S), S)
  BY FS_CardinalityType
<1>2. PICK f \in Bijection(1..Cardinality(S), S) : TRUE
  BY <1>1 DEF ExistsBijection
<1>3. f \in [1..Cardinality(S) -> S] /\ IsInjective(f)
  BY <1>2 DEF Bijection, Injection, IsInjective
<1>4. QED
  BY <1>1, <1>3 DEF SetToSeq

\* A finite set of jobs that may wait, as a sequence.
LEMMA ListedJobs ==
  ASSUME NEW S \in SUBSET Job, IsFiniteSet(S), \A j \in S : j.job \in Queued
  PROVE  /\ SetToSeq(S) \in Seq(Job)
         /\ \A k \in 1..Len(SetToSeq(S)) : SetToSeq(S)[k].job \in Queued
<1>1. Cardinality(S) \in Nat /\ SetToSeq(S) \in [1..Cardinality(S) -> S]
  BY Listed
<1> DEFINE s == SetToSeq(S)
<1> HIDE DEF s
<1>2. s \in [1..Cardinality(S) -> S]
  BY <1>1 DEF s
<1>3. s \in Seq(S) /\ Len(s) = Cardinality(S)
  BY <1>1, <1>2
<1>4. s \in Seq(Job) /\ \A k \in 1..Len(s) : s[k].job \in Queued
  BY <1>1, <1>2, <1>3
<1>5. QED
  BY <1>4 DEF s

-----------------------------------------------------------------------------
(* Plans                                                                   *)

\* The ids are finitely many.
LEMMA IdsFinite == IsFiniteSet(Ids) /\ Ids \subseteq Nat
<1>1. NumRows \in Int /\ 1 \in Int /\ Ids \subseteq Nat
  BY MemoryTriageAssumption DEF Ids
<1>2. QED
  BY <1>1, FS_Interval DEF Ids

\* A plan names each row once, so it is finite.
LEMMA PlanFinite ==
  ASSUME NEW P \in SUBSET Candidate, \A c, d \in P : c.id = d.id => c = d
  PROVE  IsFiniteSet(P)
<1> DEFINE f == [c \in P |-> c.id]
<1>1. f \in [P -> Ids] /\ \A c, d \in P : f[c] = f[d] => c = d
  BY DEF Candidate
<1>2. f \in Injection(P, Ids)
  BY <1>1 DEF Injection, IsInjective
<1>3. QED
  BY <1>2, IdsFinite, FS_Injection

\* The plan of a process, as a set that is finite.
Planned(P) == P \in SUBSET Candidate /\ IsFiniteSet(P) /\ \A c, d \in P : c.id = d.id => c = d

\* The groups of a plan are finitely many, of topics that exist.
LEMMA GroupsFinite ==
  ASSUME NEW q, Planned(q.plan)
  PROVE  IsFiniteSet(GroupsOf(q)) /\ GroupsOf(q) \subseteq Topics
<1> DEFINE P == q.plan
           f == [c \in P |-> Topic[c.lesson]]
<1>0. IsFiniteSet(P)
  BY DEF Planned
<1>1. IsFiniteSet({f[c] : c \in P})
  <2> HIDE DEF P
  <2> QED
    BY <1>0, RangeFinite
<1>2. GroupsOf(q) = {f[c] : c \in q.plan}
  BY DEF GroupsOf
<1>3. GroupsOf(q) \subseteq Topics
  BY DEF GroupsOf, Topics, Planned, Candidate
<1>4. QED
  BY <1>1, <1>2, <1>3

\* The members of a group are some of the plan, and at least one.
LEMMA MembersIn ==
  ASSUME NEW q, Planned(q.plan), NEW t
  PROVE  /\ Members(q, t) \subseteq q.plan /\ IsFiniteSet(Members(q, t))
         /\ t \in GroupsOf(q) => Members(q, t) # {}
<1>1. Members(q, t) \in SUBSET q.plan
  BY DEF Members
<1>2. IsFiniteSet(Members(q, t))
  BY <1>1, FS_Subset DEF Planned
<1>3. QED
  BY <1>1, <1>2 DEF Members, GroupsOf

\* The lessons of a group are finitely many.
LEMMA LessonsAreGroup == ASSUME NEW q, Planned(q.plan), NEW t PROVE LessonsOf(q, t) \in Group
<1> DEFINE M == Members(q, t)
           f == [c \in M |-> c.lesson]
<1>1. M \subseteq q.plan /\ IsFiniteSet(M)
  BY MembersIn
<1> HIDE DEF M
<1>2. IsFiniteSet({f[c] : c \in M})
  BY <1>1, RangeFinite
<1>3. LessonsOf(q, t) = {f[c] : c \in M}
  BY DEF LessonsOf, M
<1>4. LessonsOf(q, t) \subseteq Lessons
  BY <1>1 DEF LessonsOf, M, Planned, Candidate
<1>5. QED
  BY <1>2, <1>3, <1>4 DEF Group

\* What is compared of a candidate is numbers.
LEMMA Comparable ==
  ASSUME NEW c \in Candidate
  PROVE  /\ Length[c.lesson] \in Nat /\ EvidenceOf(c.evidence) \in Nat /\ c.id \in Nat
         /\ c.lesson \in Lessons
BY MemoryTriageAssumption, IdsFinite DEF Candidate, EvidenceOf

\* elect_canonical finds a strongest candidate of a group.
LEMMA CanonicalIn ==
  ASSUME NEW q, Planned(q.plan), NEW t \in GroupsOf(q)
  PROVE  Canonical(q, t) \in LessonsOf(q, t)
<1> DEFINE M == Members(q, t)
<1>1. M \subseteq q.plan /\ IsFiniteSet(M) /\ M # {} /\ M \subseteq Candidate
  BY MembersIn DEF Planned
<1>2. PICK R : \A c, d \in M : <<c, d>> \in R <=> Stronger(c, d)
  <2> WITNESS {r \in M \X M : Stronger(r[1], r[2])}
  <2> QED
    OBVIOUS
<1>3. Orders(R, M)
  <2>1. ASSUME NEW c \in M, NEW d \in M, c # d PROVE Stronger(c, d) \/ Stronger(d, c)
    <3>1. c.id # d.id
      BY <1>1, <2>1 DEF Planned
    <3>2. QED
      BY <1>1, <3>1, Comparable DEF Stronger
  <2>2. ASSUME NEW c \in M, NEW d \in M, NEW e \in M, Stronger(c, d), Stronger(d, e)
        PROVE  Stronger(c, e)
    BY <1>1, <2>2, Comparable DEF Stronger
  <2> HIDE DEF M
  <2>3. QED
    BY <1>2, <2>1, <2>2 DEF Orders
<1>4. PICK c : Tops(c, R, M)
  <2> HIDE DEF M
  <2> QED
    BY <1>1, <1>3, FiniteTop
<1>5. c \in M /\ \A d \in M \ {c} : Stronger(c, d)
  BY <1>2, <1>4 DEF Tops
<1>6. QED
  BY <1>5 DEF Canonical, LessonsOf

\* The evidence of a group is a number.
LEMMA EvidenceIsNat ==
  ASSUME NEW q, Planned(q.plan), NEW t \in GroupsOf(q)
  PROVE  DistinctEvidence(q, t) \in Nat
<1> DEFINE M == Members(q, t)
           f == [c \in M |-> c.session]
           g == [c \in M |-> EvidenceOf(c.evidence)]
           A == {f[c] : c \in M}
           B == {g[c] : c \in M}
<1>1. M \subseteq q.plan /\ IsFiniteSet(M) /\ M \subseteq Candidate
  BY MembersIn DEF Planned
<1> HIDE DEF M
<1>2. IsFiniteSet(A) /\ IsFiniteSet(B)
  BY <1>1, RangeFinite
<1>3. Cardinality(A) \in Nat
  BY <1>2, FS_CardinalityType
<1>4. B \subseteq Nat
  BY <1>1, Comparable
<1>5. A = {c.session : c \in M} /\ B = {EvidenceOf(c.evidence) : c \in M}
  OBVIOUS
<1> DEFINE C == {Cardinality(A)} \cup B
<1>6. IsFiniteSet(C)
  <2>1. C = B \cup {Cardinality(A)}
    OBVIOUS
  <2> HIDE DEF A, B, C
  <2>2. QED
    BY <1>2, <2>1, FS_AddElement
<1>7. C \in SUBSET Nat /\ C # {}
  BY <1>3, <1>4
<1>8. DistinctEvidence(q, t) = Max(C)
  BY <1>5 DEF DistinctEvidence, M
<1>9. QED
  <2> HIDE DEF C
  <2> QED
    BY <1>6, <1>7, <1>8, MaxIn

-----------------------------------------------------------------------------
(* Jobs                                                                    *)

\* What is made of lessons, sessions and ids is a job.
LEMMA JobForms ==
  /\ \A l \in Lessons, s \in Sessions : Mine(l, s) \in Job /\ Store(l, s) \in Job
  /\ \A l, m \in Lessons, b \in BOOLEAN : Count(l, m, b) \in Job
  /\ \A l \in Lessons, n \in Nat : SetEvidence(l, n) \in Job
  /\ \A l, m \in Lessons : l # m => SetTriage(l, m) \in Job
  /\ \A l \in Lessons : {Delete(l), Approve(l), AlsoApprove(l), Reject(l)} \subseteq Job
  /\ Purge \in Job
  /\ \A S \in Group : Clear(S) \in Job
  /\ \A S \in Group, l \in Lessons : Fold(S, l) \in Job
  /\ \A S \in Group, l \in Lessons, n \in Nat : Gather(S, l, n) \in Job
  /\ \A i \in Ids : Read(i) \in Job /\ RemoveId(i) \in Job
  /\ \A i \in Ids, r \in Row : Mark(i, r) \in Job
<1>1. \A l \in Lessons, s \in Sessions : Mine(l, s) \in Job /\ Store(l, s) \in Job
  BY DEF Mine, Store, Job
<1>2. \A l, m \in Lessons, b \in BOOLEAN : Count(l, m, b) \in Job
  BY DEF Count, Job
<1>3. \A l \in Lessons, n \in Nat : SetEvidence(l, n) \in Job
  BY DEF SetEvidence, Job
<1>4. \A l, m \in Lessons : l # m => SetTriage(l, m) \in Job
  BY DEF SetTriage, Job
<1>5. \A l \in Lessons : {Delete(l), Approve(l), AlsoApprove(l), Reject(l)} \subseteq Job
  BY DEF Delete, Approve, AlsoApprove, Reject, Job
<1>6. Purge \in Job
  BY DEF Purge, Job
<1>7. \A S \in Group : Clear(S) \in Job
  BY DEF Clear, Job
<1>8. \A S \in Group, l \in Lessons : Fold(S, l) \in Job
  BY DEF Fold, Job
<1>9. \A S \in Group, l \in Lessons, n \in Nat : Gather(S, l, n) \in Job
  BY DEF Gather, Job
<1>10. \A i \in Ids : Read(i) \in Job /\ RemoveId(i) \in Job
  BY DEF Read, RemoveId, Job
<1>11. \A i \in Ids, r \in Row : Mark(i, r) \in Job
  BY DEF Mark, Job
<1>12. QED
  BY <1>1, <1>2, <1>3, <1>4, <1>5, <1>6, <1>7, <1>8, <1>9, <1>10, <1>11

\* The fields of a job, by its kind.
LEMMA JobFields ==
  ASSUME NEW j \in Job
  PROVE  /\ j.job \in {"mine", "store"} => j.lesson \in Lessons /\ j.session \in Sessions
         /\ j.job = "count" => j.lesson \in Lessons /\ j.to \in Lessons /\ j.again \in BOOLEAN
         /\ j.job = "evidence" => j.lesson \in Lessons /\ j.count \in Nat
         /\ j.job = "triage" => j.lesson \in Lessons /\ j.to \in Lessons /\ j.lesson # j.to
         /\ j.job \in {"delete", "approve", "also", "reject"} => j.lesson \in Lessons
         /\ j.job = "clear" => j.from \in Group
         /\ j.job = "fold" => j.from \in Group /\ j.to \in Lessons
         /\ j.job = "gather" => j.from \in Group /\ j.to \in Lessons /\ j.count \in Nat
         /\ j.job \in {"read", "remove"} => j.id \in Ids
         /\ j.job = "mark" => j.id \in Ids /\ j.payload \in Row
BY DEF Job

\* A process in a state it can be in.
Fine(q) == q \in Process /\ Formed(q) /\ (q.stage = "idle" => q = Idle)

\* A process that does nothing is one.
LEMMA IdleFine == Fine(Idle)
<1>1. Idle \in Process
  BY DEF Idle, Process
<1>2. Formed(Idle)
  BY DEF Idle, Formed
<1>3. QED
  BY <1>1, <1>2 DEF Fine

\* So is one that has replaced its job by others.
LEMMA ThenFine ==
  ASSUME NEW q, Fine(q), q.jobs # <<>>, NEW js \in Seq(Job),
         \A k \in 2..Len(js) : js[k].job \in Queued
  PROVE  /\ Fine(Then(q, js))
         /\ Then(q, js).jobs = js \o Tail(q.jobs)
         /\ Then(q, js).todo = {} /\ Then(q, js).loaded = FALSE
         /\ Then(q, js).plan = q.plan /\ Then(q, js).stage = q.stage
         /\ Then(q, js).covered = q.covered /\ Then(q, js).circular = q.circular
<1> DEFINE z == Then(q, js)
           old == q.jobs
           new == js \o Tail(old)
<1>1. q \in Process /\ old \in Seq(Job) /\ old # <<>>
  BY DEF Fine, Process
<1>2. Tail(old) \in Seq(Job) /\ Len(Tail(old)) = Len(old) - 1
      /\ \A k \in 1..Len(Tail(old)) : Tail(old)[k] = old[k + 1]
  BY <1>1
<1>3. new \in Seq(Job) /\ Len(new) = Len(js) + Len(Tail(old))
      /\ \A k \in 1..Len(new) : new[k] = IF k <= Len(js) THEN js[k] ELSE Tail(old)[k - Len(js)]
  BY <1>2
<1>4. /\ z.jobs = new /\ z.todo = {} /\ z.loaded = FALSE /\ z.plan = q.plan
      /\ z.stage = q.stage /\ z.covered = q.covered /\ z.circular = q.circular
      /\ z \in Process
  BY <1>1, <1>3 DEF Then, Process
<1>5. \A k \in 2..Len(old) : old[k].job \in Queued
  BY DEF Fine, Formed
<1>6. \A k \in 2..Len(new) : new[k].job \in Queued
  <2> SUFFICES ASSUME NEW k \in 2..Len(new) PROVE new[k].job \in Queued
    OBVIOUS
  <2>1. Len(js) \in Nat /\ Len(old) \in Nat /\ Len(old) > 0
    BY <1>1
  <2>2. CASE k <= Len(js)
    BY <1>3, <2>1, <2>2
  <2>3. CASE k > Len(js)
    <3>1. new[k] = Tail(old)[k - Len(js)] /\ k - Len(js) \in 1..Len(Tail(old))
      BY <1>2, <1>3, <2>1, <2>3
    <3>2. new[k] = old[k - Len(js) + 1] /\ k - Len(js) + 1 \in 2..Len(old)
      <4> DEFINE m == k - Len(js)
      <4>1. m \in 1..Len(Tail(old)) /\ new[k] = Tail(old)[m]
        BY <3>1
      <4> HIDE DEF m
      <4>2. Tail(old)[m] = old[m + 1]
        BY <1>2, <2>1, <4>1
      <4>3. m + 1 \in 2..Len(old)
        BY <1>2, <2>1, <4>1
      <4>4. QED
        BY <4>1, <4>2, <4>3 DEF m
    <3>3. QED
      BY <1>5, <3>2
  <2>4. QED
    BY <2>1, <2>2, <2>3
<1>7. Formed(z)
  <2>1. \A c, d \in q.plan : c.id = d.id => c = d
    BY DEF Fine, Formed
  <2> HIDE DEF z, new
  <2>2. QED
    BY <1>4, <1>6, <2>1 DEF Formed
<1>8. z.stage # "idle"
  BY <1>1, <1>4 DEF Fine, Idle
<1>9. QED
  BY <1>4, <1>7, <1>8 DEF Fine

-----------------------------------------------------------------------------
(* Steps                                                                   *)

\* What no step does to the table: give a row another lesson, drop one, bring one back, or,
\* without recording it, approve one that somebody has chosen to delete, or delete one.
Mild ==
  /\ next' \in Nat /\ next' >= next /\ overtaken \subseteq overtaken'
  /\ \A i \in Ids : i < next =>
       row'[i] = NoRow \/ (row[i] # NoRow /\ SameMemory(row'[i], row[i]))
  /\ \A i \in Ids : row'[i] # NoRow /\ row'[i].approved =>
       (row[i] # NoRow /\ row[i].approved) \/ i \notin Doomed \/ i \in overtaken'
  /\ judged \subseteq judged'
  /\ \A i \in Ids : row[i] # NoRow =>
       row'[i] # NoRow \/ Topic[row[i].lesson] \in judged'

\* The variables other than the processes keep their types.
TableTyped ==
  /\ started' \in [{"mines", "reviews", "runs"} -> Nat]
  /\ row' \in [Ids -> Row \cup {NoRow}]
  /\ next' \in 1..NumRows + 1
  /\ \A i \in Ids : row'[i] # NoRow => i < next'
  /\ active' \subseteq Topics
  /\ kept' \subseteq Lessons /\ judged' \subseteq Topics /\ reviewed' \subseteq Lessons
  /\ overtaken' \subseteq Ids

\* The processes of the behaviour, in a state they can be in.
LEMMA ProcFine ==
  ASSUME TriageInv
  PROVE  /\ Procs \subseteq AllProcs /\ setting \in Setting
         /\ \A p \in Procs : Fine(proc[p])
<1>1. setting \in Setting
  BY MemoryTriageAssumption DEF TriageInv, TypeOK
<1>2. Procs \subseteq AllProcs
  BY <1>1 DEF Procs, Setting
<1>3. QED
  BY <1>1, <1>2 DEF TriageInv, TypeOK, Fine

\* The current job of a busy process is a job.
LEMMA CurrentIsJob ==
  ASSUME TriageInv, NEW p \in Procs, Busy(p)
  PROVE  Current(p) \in Job /\ proc[p].todo \subseteq Ids /\ proc[p].jobs \in Seq(Job)
<1>1. proc[p] \in Process /\ proc[p].jobs # <<>>
  BY ProcFine DEF Fine, Busy
<1>2. proc[p].jobs \in Seq(Job) /\ proc[p].todo \subseteq Ids
  BY <1>1 DEF Process
<1>3. QED
  BY <1>1, <1>2 DEF Current

\* A lesson that is backed stays so.
LEMMA BackedStays ==
  ASSUME TriageInv, Mild, NEW l, Backed(l, row, judged) PROVE Backed(l, row', judged')
<1>1. \A i \in Ids : row[i] # NoRow => i < next
  BY DEF TriageInv, TypeOK
<1>2. QED
  BY <1>1 DEF Backed, Mild, SameMemory

\* Others keep what they know, whatever one process does to the table.
LEMMA KnowsStays ==
  ASSUME TriageInv, Mild, NEW o \in Procs, Busy(o)
  PROVE  Knows(Current(o), proc[o].todo, row', next', overtaken', judged')
<1> DEFINE j == Current(o)
           S == proc[o].todo
<1>1. Knows(j, S, row, next, overtaken, judged)
  BY DEF TriageInv
<1>2. j \in Job /\ S \subseteq Ids
  BY CurrentIsJob
<1>3. j.job \in {"delete", "purge"} => S \subseteq Doomed
  BY DEF Doomed
<1>4. j.job = "remove" => j.id \in Doomed
  BY DEF Doomed
<1>5. next \in Nat /\ Ids \subseteq Nat
  BY IdsFinite, MemoryTriageAssumption DEF TriageInv, TypeOK
<1>6. j.job \in {"remove", "mark"} => j.id \in Ids
  BY <1>2, JobFields
<1> HIDE DEF j, S
<1>n. next' \in Nat /\ next' >= next
  BY DEF Mild
<1>7. \A i \in S : i < next'
  <2>1. \A i \in S : i \in Nat /\ i < next
    BY <1>1, <1>2, <1>5 DEF Knows
  <2>2. QED
    BY <1>5, <1>n, <2>1
<1>8. j.job \in {"evidence", "triage", "delete"} =>
        \A i \in S : row'[i] # NoRow => row'[i].lesson = j.lesson
  BY <1>1, <1>2 DEF Knows, Mild, SameMemory
<1>9. j.job \in {"delete", "purge"} =>
        \A i \in S : row'[i] # NoRow /\ row'[i].approved => i \in overtaken'
  BY <1>1, <1>2, <1>3 DEF Knows, Mild
<1>10. j.job = "remove" =>
         (row'[j.id] # NoRow /\ row'[j.id].approved => j.id \in overtaken')
  BY <1>1, <1>4, <1>6 DEF Knows, Mild
<1>11. j.job = "mark" =>
         j.id < next' /\ (row'[j.id] # NoRow => SameMemory(row'[j.id], j.payload))
  <2> SUFFICES ASSUME j.job = "mark"
               PROVE  j.id < next' /\ (row'[j.id] # NoRow => SameMemory(row'[j.id], j.payload))
    OBVIOUS
  <2>1. j.id \in Ids /\ j.id \in Nat /\ j.id < next
    BY <1>1, <1>5, <1>6 DEF Knows
  <2>2. row'[j.id] # NoRow => SameMemory(row'[j.id], j.payload)
    BY <1>1, <2>1 DEF Knows, Mild, SameMemory
  <2>3. QED
    BY <1>5, <1>n, <2>1, <2>2
<1>12. j.job = "count" => Backed(j.lesson, row', judged')
  BY <1>1, BackedStays DEF Knows
<1>13. /\ j.job = "triage" => \A i \in S : row'[i] # NoRow => row'[i].triage # "dropped"
       /\ j.job = "purge" => \A i \in S : row'[i] # NoRow => row'[i].triage = "dropped"
  BY <1>1, <1>2 DEF Knows, Mild, SameMemory
<1>14. Knows(j, S, row', next', overtaken', judged')
  BY <1>7, <1>8, <1>9, <1>10, <1>11, <1>12, <1>13 DEF Knows
<1>15. QED
  BY <1>14 DEF j, S

\* A mild step of a process keeps the invariant if the process stays fine and
\* knows what its next job needs.
LEMMA StepKeeps ==
  ASSUME TriageInv, NEW p \in Procs, NEW z, Fine(z),
         proc' = [proc EXCEPT ![p] = z], setting' = setting, Mild, TableTyped,
         z.jobs # <<>> => Knows(Head(z.jobs), z.todo, row', next', overtaken', judged')
  PROVE  TriageInv'
<1>1. Procs' = Procs /\ Procs \subseteq AllProcs
  BY ProcFine DEF Procs
<1>2. proc \in [AllProcs -> Process] /\ z \in Process
  BY DEF TriageInv, TypeOK, Fine
<1>3. \A o \in AllProcs : proc'[o] = IF o = p THEN z ELSE proc[o]
  BY <1>1, <1>2
<1>4. proc' \in [AllProcs -> Process]
  BY <1>1, <1>2
<1>5. \A o \in AllProcs : proc'[o].stage = "idle" => proc'[o] = Idle
  BY <1>3 DEF TriageInv, TypeOK, Fine
<1>6. TypeOK'
  BY <1>4, <1>5 DEF TriageInv, TypeOK, TableTyped
<1>7. \A o \in Procs : Formed(proc'[o])
  BY <1>1, <1>3 DEF TriageInv, Fine
<1>8. ASSUME NEW o \in Procs, Busy(o)'
      PROVE  Knows(Head(proc'[o].jobs), proc'[o].todo, row', next', overtaken', judged')
  <2>1. CASE o = p
    BY <1>1, <1>3, <1>8, <2>1 DEF Busy
  <2>2. CASE o # p
    <3>1. proc'[o] = proc[o] /\ Busy(o)
      BY <1>1, <1>3, <1>8, <2>2 DEF Busy
    <3>2. QED
      BY <3>1, KnowsStays DEF Current
  <2>3. QED
    BY <2>1, <2>2
<1>9. QED
  BY <1>1, <1>6, <1>7, <1>8 DEF TriageInv, Busy, Current

\* A step that leaves the table alone is mild.
LEMMA QuietIsMild == ASSUME TriageInv, UNCHANGED <<row, next, judged, overtaken>> PROVE Mild
<1>1. next \in Nat
  BY MemoryTriageAssumption DEF TriageInv, TypeOK
<1>2. QED
  BY <1>1 DEF Mild, SameMemory

\* The next job of a process that has finished one is not tied to a row.
LEMMA QueuedKnows ==
  ASSUME NEW j, j.job \notin {"remove", "mark", "count"}, NEW table, NEW n, NEW late, NEW gone
  PROVE  Knows(j, {}, table, n, late, gone)
BY DEF Knows

\* So a process that has replaced its job by jobs that may wait keeps the invariant.
LEMMA ThenKeeps ==
  ASSUME TriageInv, NEW p \in Procs, NEW q, Fine(q), q.jobs # <<>>,
         NEW js \in Seq(Job), \A k \in 2..Len(js) : js[k].job \in Queued,
         proc' = [proc EXCEPT ![p] = Then(q, js)], setting' = setting, Mild, TableTyped,
         js # <<>> => Knows(js[1], {}, row', next', overtaken', judged')
  PROVE  TriageInv'
<1> DEFINE z == Then(q, js)
<1>1. /\ Fine(z) /\ z.jobs = js \o Tail(q.jobs) /\ z.todo = {}
  BY ThenFine
<1>2. q.jobs \in Seq(Job) /\ \A k \in 2..Len(q.jobs) : q.jobs[k].job \in Queued
  BY DEF Fine, Process, Formed
<1>3. ASSUME z.jobs # <<>> PROVE Knows(Head(z.jobs), {}, row', next', overtaken', judged')
  <2>1. CASE js # <<>>
    <3>1. Head(z.jobs) = js[1]
      BY <1>1, <1>2, <2>1
    <3>2. QED
      BY <2>1, <3>1
  <2>2. CASE js = <<>>
    <3>1. z.jobs = Tail(q.jobs)
      BY <1>1, <1>2, <2>2
    <3>2. Head(z.jobs) = q.jobs[2] /\ 2 \in 2..Len(q.jobs)
      BY <1>2, <1>3, <3>1
    <3>3. Head(z.jobs).job \notin {"remove", "mark", "count"}
      BY <1>2, <3>2 DEF Queued
    <3>4. QED
      BY <3>3, QueuedKnows
  <2>3. QED
    BY <2>1, <2>2
<1> HIDE DEF z
<1>4. proc' = [proc EXCEPT ![p] = z]
  BY DEF z
<1>5. QED
  BY <1>1, <1>3, <1>4, StepKeeps

-----------------------------------------------------------------------------
(* The invariant, action by action                                         *)

\* A step that leaves the table and the judgements alone keeps their types.
LEMMA QuietTyped ==
  ASSUME TriageInv, UNCHANGED <<row, next, judged, reviewed, overtaken>>,
         started' = started \/ \E k \in {"mines", "reviews", "runs"} : Started(k),
         active' \subseteq Topics, kept' \subseteq Lessons
  PROVE  TableTyped
<1>1. started' \in [{"mines", "reviews", "runs"} -> Nat]
  BY DEF TriageInv, TypeOK, Started
<1>2. QED
  BY <1>1 DEF TriageInv, TypeOK, TableTyped

\* An operation that begins.
LEMMA BeginKeeps ==
  ASSUME TriageInv, NEW p \in Procs, proc[p].stage = "idle", NEW st \in {"mine", "review"},
         NEW j \in Job, j.job \notin {"remove", "mark", "count"}, Begin(p, st, <<j>>),
         \E k \in {"mines", "reviews", "runs"} : Started(k),
         UNCHANGED <<row, next, active, history>>
  PROVE  TriageInv'
<1> DEFINE z == [Idle EXCEPT !.stage = st, !.jobs = <<j>>]
<1>1. p \in AllProcs /\ proc \in [AllProcs -> Process] /\ proc[p] = Idle
  BY ProcFine DEF TriageInv, TypeOK
<1>2. /\ z.stage = st /\ z.jobs = <<j>> /\ z.todo = {} /\ z.loaded = FALSE /\ z.plan = {}
      /\ z \in Process
  <2> DEFINE one == <<j>>
             y == [Idle EXCEPT !.stage = st, !.jobs = one]
  <2>1. one \in Seq(Job)
    OBVIOUS
  <2> HIDE DEF one
  <2>2. y.stage = st /\ y.jobs = one /\ y.todo = {} /\ y.loaded = FALSE /\ y.plan = {}
    BY DEF Idle
  <2>3. Idle \in Process
    BY IdleFine DEF Fine
  <2>4. y \in Process
    BY <2>1, <2>3 DEF Process
  <2>5. QED
    BY <2>2, <2>4 DEF one
<1>3. proc' = [proc EXCEPT ![p] = z]
  BY <1>1 DEF Begin
<1> HIDE DEF z
<1>4. Fine(z)
  BY <1>2 DEF Fine, Formed
<1>5. Mild /\ TableTyped
  BY QuietIsMild, QuietTyped DEF history, TriageInv, TypeOK
<1>6. Head(z.jobs) = j
  BY <1>2
<1>7. Knows(Head(z.jobs), z.todo, row', next', overtaken', judged')
  BY <1>2, <1>6, QueuedKnows
<1>8. setting' = setting
  BY DEF Started
<1>9. QED
  BY <1>3, <1>4, <1>5, <1>7, <1>8, StepKeeps

\* A miner starts.
LEMMA StartMiningKeeps == ASSUME TriageInv, NEW p \in Procs, StartMining(p) PROVE TriageInv'
<1>1. PICK l \in Lessons, s \in setting.sessions : Begin(p, "mine", <<Mine(l, s)>>)
  BY DEF StartMining
<1>2. s \in Sessions
  BY ProcFine DEF Setting
<1>3. Mine(l, s) \in Job /\ Mine(l, s).job = "mine"
  BY <1>2, JobForms DEF Mine
<1>4. QED
  BY <1>1, <1>3, BeginKeeps DEF StartMining

\* A review starts.
LEMMA StartReviewKeeps == ASSUME TriageInv, NEW p \in Procs, StartReview(p) PROVE TriageInv'
<1>0. PICK l \in Lessons : \E j \in {Approve(l), Reject(l)} : Begin(p, "review", <<j>>)
  BY DEF StartReview
<1>1. PICK j \in {Approve(l), Reject(l)} : Begin(p, "review", <<j>>)
  BY <1>0
<1>2. j \in Job /\ j.job \in {"approve", "reject"}
  <2>1. Approve(l) \in Job /\ Reject(l) \in Job
    BY JobForms
  <2>2. Approve(l).job = "approve" /\ Reject(l).job = "reject"
    BY DEF Approve, Reject
  <2>3. j = Approve(l) \/ j = Reject(l)
    BY <1>1
  <2>4. QED
    BY <2>1, <2>2, <2>3
<1>3. QED
  BY <1>1, <1>2, BeginKeeps DEF StartReview

\* What a busy process becomes when it replaces its job by at most one other.
LEMMA OneJobKeeps ==
  ASSUME TriageInv, NEW p \in Procs, Busy(p), NEW js,
         js = <<>> \/ \E j \in Job : js = <<j>> /\ Knows(j, {}, row', next', overtaken', judged'),
         proc' = [proc EXCEPT ![p] = Then(proc[p], js)], setting' = setting, Mild, TableTyped
  PROVE  TriageInv'
<1>1. Fine(proc[p]) /\ proc[p].jobs # <<>>
  BY ProcFine DEF Busy
<1>2. js \in Seq(Job) /\ \A k \in 2..Len(js) : js[k].job \in Queued
  <2>1. js \in Seq(Job) /\ Len(js) \in {0, 1}
    <3>1. CASE js = <<>>
      BY <3>1
    <3>2. ASSUME NEW j \in Job, js = <<j>> PROVE js \in Seq(Job) /\ Len(js) \in {0, 1}
      BY <3>2
    <3>3. QED
      BY <3>1, <3>2
  <2>2. \A n \in {0, 1} : \A k \in 2..n : FALSE
    OBVIOUS
  <2>3. QED
    BY <2>1, <2>2
<1>3. js # <<>> => Knows(js[1], {}, row', next', overtaken', judged')
  OBVIOUS
<1>4. QED
  BY <1>1, <1>2, <1>3, ThenKeeps

\* The rows of a topic or of a lesson are rows, with their types.
LEMMA RowsTyped ==
  ASSUME TriageInv, NEW i \in Rows
  PROVE  i \in Ids /\ row[i] \in Row /\ row[i].lesson \in Lessons /\ i < next
BY DEF TriageInv, TypeOK, Rows, Row

\* The miner compares its lesson with the candidates.
LEMMA ScanKeeps == ASSUME TriageInv, NEW p \in Procs, Scan(p) PROVE TriageInv'
<1> DEFINE j == Current(p)
           m == Matching(j.lesson)
           i == Max(m)
<1>1. j \in Job /\ j.job = "mine" /\ Busy(p)
  BY CurrentIsJob DEF Scan, Doing
<1>2. j.lesson \in Lessons /\ j.session \in Sessions
  BY <1>1, JobFields
<1>3. Mild /\ setting' = setting
  BY QuietIsMild DEF Scan
<1>4. kept' \subseteq Lessons
  BY <1>2 DEF Scan, TriageInv, TypeOK
<1>5. TableTyped
  BY <1>4, QuietTyped DEF Scan, TriageInv, TypeOK
<1>6. CASE m = {}
  <2>1. proc' = [proc EXCEPT ![p] = Then(proc[p], <<Store(j.lesson, j.session)>>)]
    BY <1>6 DEF Scan
  <2>2. Store(j.lesson, j.session) \in Job /\ Store(j.lesson, j.session).job = "store"
    BY <1>2, JobForms DEF Store
  <2>3. QED
    BY <1>1, <1>3, <1>5, <2>1, <2>2, QueuedKnows, OneJobKeeps
<1>7. CASE m # {} /\ row[i].triage = "dropped"
  <2>1. proc' = [proc EXCEPT ![p] = Then(proc[p], <<>>)]
    BY <1>7 DEF Scan
  <2>2. QED
    BY <1>1, <1>3, <1>5, <2>1, OneJobKeeps
<1>8. CASE m # {} /\ row[i].triage # "dropped"
  <2> DEFINE c == Count(j.lesson, Behind(i), row[i].session = j.session)
  <2>1. proc' = [proc EXCEPT ![p] = Then(proc[p], <<c>>)]
    BY <1>8 DEF Scan
  <2>2. i \in Rows
    <3>1. m \in SUBSET Ids /\ m \subseteq Rows
      BY DEF Matching, Rows
    <3>2. QED
      BY <1>8, <3>1, NewestIn
  <2>3. row[i] \in Row
    BY <2>2, RowsTyped
  <2>4. Behind(i) \in Lessons
    BY <2>3 DEF Behind, Row
  <2>5. c \in Job /\ c.job = "count"
    BY <1>2, <2>4, JobForms DEF Count
  <2>6. c.lesson = j.lesson /\ Backed(j.lesson, row, judged)
    <3>1. Topic[row[i].lesson] = Topic[j.lesson]
      <4>1. m \in SUBSET Ids
        BY DEF Matching, Rows
      <4>2. i \in m
        <5> HIDE DEF m
        <5> QED
          BY <1>8, <4>1, NewestIn
      <4>3. QED
        BY <4>2 DEF Matching
    <3>2. QED
      BY <2>2, <3>1 DEF Backed, Rows, Count
  <2>7. UNCHANGED <<row, judged>>
    BY DEF Scan
  <2> HIDE DEF c
  <2>8. Knows(c, {}, row', next', overtaken', judged')
    BY <2>5, <2>6, <2>7 DEF Knows
  <2>9. QED
    BY <1>1, <1>3, <1>5, <2>1, <2>5, <2>8, OneJobKeeps
<1>9. QED
  BY <1>6, <1>7, <1>8

\* The miner reads a count.
LEMMA ReadCountKeeps == ASSUME TriageInv, NEW p \in Procs, ReadCount(p) PROVE TriageInv'
<1> DEFINE j == Current(p)
<1>1. j \in Job /\ j.job = "count" /\ Busy(p)
  BY CurrentIsJob DEF ReadCount, Doing
<1>2. j.lesson \in Lessons /\ j.to \in Lessons
  BY <1>1, JobFields
<1>3. Mild /\ setting' = setting
  BY QuietIsMild DEF ReadCount
<1>4. kept' \subseteq Lessons
  BY <1>2 DEF ReadCount, TriageInv, TypeOK
<1>5. TableTyped
  BY <1>4, QuietTyped DEF ReadCount, TriageInv, TypeOK
<1>6. CASE proc' = [proc EXCEPT ![p] = Then(proc[p], <<>>)]
  BY <1>1, <1>3, <1>5, <1>6, OneJobKeeps
<1>7. ASSUME NEW i \in Of(j.to),
             proc' = [proc EXCEPT ![p] = Then(proc[p], <<SetEvidence(j.to, NextCount(i, j.again))>>)]
      PROVE  TriageInv'
  <2> DEFINE c == SetEvidence(j.to, NextCount(i, j.again))
  <2>1. i \in Rows
    BY DEF Of
  <2>2. row[i] \in Row
    BY <2>1, RowsTyped
  <2>3. NextCount(i, j.again) \in Nat
    BY <2>2 DEF NextCount, EvidenceOf, Row
  <2>4. c \in Job /\ c.job = "evidence"
    BY <1>2, <2>3, JobForms DEF SetEvidence
  <2> HIDE DEF c
  <2>5. proc' = [proc EXCEPT ![p] = Then(proc[p], <<c>>)]
    BY <1>7 DEF c
  <2>6. QED
    BY <1>1, <1>3, <1>5, <2>4, <2>5, QueuedKnows, OneJobKeeps
<1>8. QED
  BY <1>6, <1>7 DEF ReadCount


\* No payload of a candidate is the absence of one.
LEMMA RowIsRow == \A r \in Row : r # NoRow
BY MemoryTriageAssumption DEF Row, NoRow

\* The miner stores a candidate, under an id nobody has seen.
LEMMA StoreCandidateKeeps ==
  ASSUME TriageInv, NEW p \in Procs, StoreCandidate(p) PROVE TriageInv' /\ Mild
<1> DEFINE j == Current(p)
           r == [lesson |-> j.lesson, session |-> j.session, evidence |-> 0,
                 triage |-> "none", ref |-> NoLesson, approved |-> FALSE]
<1>1. j \in Job /\ j.job = "store" /\ Busy(p)
  BY CurrentIsJob DEF StoreCandidate, Doing
<1>2. j.lesson \in Lessons /\ j.session \in Sessions
  BY <1>1, JobFields
<1>3. r \in Row /\ r.approved = FALSE
  BY <1>2, MemoryTriageAssumption DEF Row
<1>4. /\ row' = [row EXCEPT ![next] = r] /\ next' = next + 1 /\ next <= NumRows
      /\ kept' = kept \cup {j.lesson} /\ setting' = setting
      /\ proc' = [proc EXCEPT ![p] = Then(proc[p], <<>>)]
      /\ UNCHANGED <<started, active, judged, reviewed, overtaken>>
  BY DEF StoreCandidate
<1> HIDE DEF r
<1>5. NumRows \in Nat /\ next \in Nat /\ next \in Ids /\ next' \in 1..NumRows + 1
  BY <1>4, MemoryTriageAssumption DEF TriageInv, TypeOK, Ids
<1>6. row \in [Ids -> Row \cup {NoRow}] /\ \A i \in Ids : row[i] # NoRow => i < next
  BY DEF TriageInv, TypeOK
<1>7. \A i \in Ids : row'[i] = IF i = next THEN r ELSE row[i]
  BY <1>4, <1>5, <1>6
<1>8. \A i \in Ids : i \in Nat
  BY IdsFinite
<1>9. Mild
  <2>1. next' \in Nat /\ next' >= next /\ \A i \in Ids : i < next => i # next
    BY <1>4, <1>5, <1>8
  <2>2. QED
    BY <1>3, <1>4, <1>7, <2>1, RowIsRow DEF Mild, SameMemory
<1>10. \A i \in Ids : row'[i] # NoRow => i < next'
  <2> SUFFICES ASSUME NEW i \in Ids, row'[i] # NoRow PROVE i < next'
    OBVIOUS
  <2>1. i = next \/ i < next
    BY <1>6, <1>7
  <2>2. QED
    BY <1>4, <1>5, <1>8, <2>1
<1>11. TableTyped
  <2>1. row' \in [Ids -> Row \cup {NoRow}]
    BY <1>3, <1>4, <1>6
  <2>2. kept' \subseteq Lessons
    BY <1>2, <1>4 DEF TriageInv, TypeOK
  <2>3. QED
    BY <1>4, <1>5, <1>10, <2>1, <2>2 DEF TriageInv, TypeOK, TableTyped
<1>12. QED
  BY <1>1, <1>4, <1>9, <1>11, OneJobKeeps

\* A job loads the rows it selects.
LEMMA LoadKeeps == ASSUME TriageInv, NEW p \in Procs, Load(p) PROVE TriageInv'
<1> DEFINE j == Current(p)
           S == Chosen(j)
<1>1. Busy(p) /\ j \in Job /\ j.job \in OnRows /\ ~proc[p].loaded /\ setting' = setting
  BY CurrentIsJob DEF Load, OnRows
<1>2. Mild /\ TableTyped /\ UNCHANGED <<row, next, judged, overtaken>>
  BY QuietIsMild, QuietTyped DEF Load, history, TriageInv, TypeOK
<1>3. CASE S = {}
  <2>1. proc' = [proc EXCEPT ![p] = Then(proc[p], <<>>)]
    BY <1>3 DEF Load
  <2>2. QED
    BY <1>1, <1>2, <2>1, OneJobKeeps
<1>4. CASE S # {}
  <2> DEFINE q == proc[p]
             z == [q EXCEPT !.todo = S, !.loaded = TRUE]
  <2>1. proc' = [proc EXCEPT ![p] = z]
    BY <1>4 DEF Load
  <2>2. /\ S \subseteq Rows
        /\ j.job \in {"evidence", "triage", "delete"} => \A i \in S : row[i].lesson = j.lesson
        /\ j.job \in {"delete", "purge"} => \A i \in S : ~row[i].approved
        /\ j.job = "triage" => \A i \in S : row[i].triage # "dropped"
        /\ j.job = "purge" => \A i \in S : row[i].triage = "dropped"
    BY <1>1 DEF Chosen, OnRows, Of, Hidden
  <2>3. S \subseteq Ids /\ \A i \in S : i < next
    BY <2>2, RowsTyped
  <2>4. Fine(q) /\ q \in Process /\ q.jobs # <<>> /\ Head(q.jobs) = j
    BY <1>1, ProcFine DEF Fine, Busy, Current
  <2> HIDE DEF S, q
  <2>5. /\ z.todo = S /\ z.loaded = TRUE /\ z.jobs = q.jobs /\ z.plan = q.plan
        /\ z.stage = q.stage /\ z \in Process
    BY <2>3, <2>4 DEF Process
  <2> HIDE DEF z, j
  <2>6. Formed(z)
    BY <1>1, <1>4, <2>4, <2>5 DEF Formed, Fine
  <2>7. z.stage # "idle"
    BY <2>4, <2>5 DEF Fine, Idle
  <2>8. Fine(z)
    BY <2>5, <2>6, <2>7 DEF Fine
  <2>9. Knows(j, S, row, next, overtaken, judged)
    <3>1. j.job \notin {"remove", "mark", "count"}
      BY <1>1 DEF OnRows
    <3>2. QED
      BY <2>2, <2>3, <3>1 DEF Knows
  <2>10. Knows(Head(z.jobs), z.todo, row', next', overtaken', judged')
    BY <1>2, <2>4, <2>5, <2>9
  <2>11. QED
    BY <1>1, <1>2, <2>1, <2>8, <2>10, StepKeeps
<1>5. QED
  BY <1>3, <1>4

\* What a statement makes of a row of its lesson is a row of it, or none.
LEMMA WrittenTyped ==
  ASSUME NEW j \in Job, NEW r \in Row \cup {NoRow},
         j.job \in {"evidence", "triage"} => (r # NoRow => r.lesson = j.lesson),
         j.job = "triage" => (r # NoRow => r.triage # "dropped")
  PROVE  /\ Written(j, r) \in Row \cup {NoRow}
         /\ Written(j, r) # NoRow => /\ r # NoRow /\ SameMemory(Written(j, r), r)
                                     /\ Written(j, r).approved = r.approved
                                     /\ j.job \in {"evidence", "triage"}
         /\ r # NoRow /\ j.job \in {"evidence", "triage"} => Written(j, r) # NoRow
<1>1. CASE r = NoRow
  BY <1>1 DEF Written
<1>2. CASE r # NoRow /\ j.job = "evidence"
  <2>1. Written(j, r) = [r EXCEPT !.evidence = j.count] /\ r \in Row /\ j.count \in Nat
    BY <1>2, JobFields DEF Written
  <2>2. QED
    BY <1>2, <2>1, RowIsRow DEF Row, SameMemory
<1>3. CASE r # NoRow /\ j.job = "triage"
  <2>1. /\ Written(j, r) = [r EXCEPT !.triage = "superseded", !.ref = j.to] /\ r \in Row
        /\ j.to \in Lessons /\ j.to # r.lesson
    BY <1>3, JobFields DEF Written
  <2>2. QED
    <3> DEFINE w == [r EXCEPT !.triage = "superseded", !.ref = j.to]
    <3>1. /\ w.lesson = r.lesson /\ w.triage = "superseded" /\ w.ref = j.to
          /\ w.approved = r.approved
      BY <2>1 DEF Row
    <3>2. w \in Row
      BY <2>1, MemoryTriageAssumption DEF Row
    <3> HIDE DEF w
    <3>3. w # NoRow /\ SameMemory(w, r)
      BY <1>3, <3>1, <3>2, RowIsRow DEF SameMemory
    <3>4. Written(j, r) = w
      BY <2>1 DEF w
    <3>5. QED
      BY <1>3, <3>1, <3>2, <3>3, <3>4
<1>4. CASE r # NoRow /\ j.job \notin {"evidence", "triage"}
  BY <1>4 DEF Written
<1>5. QED
  BY <1>1, <1>2, <1>3, <1>4

\* One row is written, as its job has it.
LEMMA WriteKeeps == ASSUME TriageInv, NEW p \in Procs, Write(p) PROVE TriageInv' /\ Mild
<1> DEFINE j == Current(p)
           S == proc[p].todo
           i == Max(S)
           q == [proc[p] EXCEPT !.changed = Running(p)]
           w == Written(j, row[i])
<1>1. Busy(p) /\ proc[p].loaded /\ j \in Job /\ S \subseteq Ids
  BY CurrentIsJob DEF Write
<1>2. Fine(proc[p]) /\ proc[p] \in Process /\ proc[p].jobs # <<>> /\ Head(proc[p].jobs) = j
  BY <1>1, ProcFine DEF Fine, Busy, Current
<1>3. S # {} /\ j.job \in OnRows
  BY <1>1, <1>2 DEF Fine, Formed
<1>4. i \in S /\ i \in Ids
  <2> HIDE DEF S
  <2> QED
    BY <1>1, <1>3, NewestIn
<1>5. Knows(j, S, row, next, overtaken, judged)
  BY <1>1 DEF TriageInv
<1>6. /\ row' = [row EXCEPT ![i] = w] /\ setting' = setting
      /\ proc' = [proc EXCEPT ![p] =
           IF q.todo = {i} THEN Then(q, <<>>) ELSE [q EXCEPT !.todo = q.todo \ {i}]]
      /\ judged' = IF j.job \in {"delete", "purge"} /\ row[i] # NoRow
                   THEN judged \cup {Topic[row[i].lesson]} ELSE judged
      /\ UNCHANGED <<started, next, active, kept, reviewed, overtaken>>
  BY DEF Write
<1>7. row \in [Ids -> Row \cup {NoRow}] /\ \A k \in Ids : row[k] # NoRow => k < next
  BY DEF TriageInv, TypeOK
<1>8. /\ w \in Row \cup {NoRow}
      /\ w # NoRow => /\ row[i] # NoRow /\ SameMemory(w, row[i])
                      /\ w.approved = row[i].approved /\ j.job \in {"evidence", "triage"}
      /\ row[i] # NoRow /\ j.job \in {"evidence", "triage"} => w # NoRow
  <2>1. row[i] \in Row \cup {NoRow}
    BY <1>4, <1>7
  <2>2. /\ j.job \in {"evidence", "triage"} => (row[i] # NoRow => row[i].lesson = j.lesson)
        /\ j.job = "triage" => (row[i] # NoRow => row[i].triage # "dropped")
    BY <1>4, <1>5 DEF Knows
  <2> HIDE DEF j, i
  <2>3. QED
    BY <1>1, <2>1, <2>2, WrittenTyped
<1>9. judged' \subseteq Topics
  <2>1. row[i] # NoRow => Topic[row[i].lesson] \in Topics
    BY <1>4, <1>7 DEF Row, Topics
  <2>2. judged \subseteq Topics
    BY DEF TriageInv, TypeOK
  <2>3. QED
    BY <1>6, <2>1, <2>2
<1> HIDE DEF w, S, i, j
<1>10. \A k \in Ids : row'[k] = IF k = i THEN w ELSE row[k]
  BY <1>4, <1>6, <1>7
<1>11. Mild
  <2>1. next \in Nat
    BY MemoryTriageAssumption DEF TriageInv, TypeOK
  <2>2. next' \in Nat /\ next' >= next /\ overtaken' = overtaken
    BY <1>6, <2>1
  <2>3. QED
    <3>1. judged \subseteq judged'
      BY <1>6
    <3>2. row[i] # NoRow /\ w = NoRow => Topic[row[i].lesson] \in judged'
      BY <1>3, <1>6, <1>8 DEF OnRows
    <3>3. QED
      BY <1>4, <1>8, <1>10, <2>2, <3>1, <3>2 DEF Mild, SameMemory
<1>12. TableTyped
  <2>1. row' \in [Ids -> Row \cup {NoRow}]
    BY <1>4, <1>6, <1>7, <1>8
  <2>2. \A k \in Ids : row'[k] # NoRow => k < next'
    BY <1>4, <1>6, <1>7, <1>8, <1>10
  <2>3. QED
    BY <1>6, <1>9, <2>1, <2>2 DEF TriageInv, TypeOK, TableTyped
<1>13. /\ q \in Process /\ q.jobs = proc[p].jobs /\ q.todo = S /\ q.loaded = proc[p].loaded
       /\ q.plan = proc[p].plan /\ q.stage = proc[p].stage
  <2> DEFINE b == Running(p)
             r == proc[p]
  <2>1. b \in BOOLEAN /\ r \in Process /\ r.todo = S
    BY <1>2 DEF Running, S
  <2> HIDE DEF b, r
  <2>2. [r EXCEPT !.changed = b] \in Process
    BY <2>1 DEF Process
  <2>3. \A x \in {[r EXCEPT !.changed = b]} :
          x.jobs = r.jobs /\ x.todo = r.todo /\ x.loaded = r.loaded /\ x.plan = r.plan
          /\ x.stage = r.stage
    BY <2>1 DEF Process
  <2>4. QED
    BY <2>1, <2>2, <2>3 DEF b, r
<1> HIDE DEF q
<1>14. Fine(q) /\ q.jobs # <<>>
  <2>1. q.stage # "idle"
    BY <1>2, <1>13 DEF Fine, Idle
  <2>2. Formed(q)
    BY <1>2, <1>13 DEF Fine, Formed, S
  <2>3. QED
    BY <1>2, <1>13, <2>1, <2>2 DEF Fine
<1>15. CASE S = {i}
  <2>1. proc' = [proc EXCEPT ![p] = Then(q, <<>>)]
    BY <1>6, <1>13, <1>15
  <2> DEFINE js == <<>>
  <2>2. js \in Seq(Job) /\ js = <<>> /\ \A k \in 2..Len(js) : js[k].job \in Queued
    OBVIOUS
  <2>3. proc' = [proc EXCEPT ![p] = Then(q, js)] /\ setting' = setting
    BY <1>6, <2>1
  <2> HIDE DEF js
  <2>4. TriageInv'
    BY <1>11, <1>12, <1>14, <2>2, <2>3, ThenKeeps
  <2>5. QED
    BY <1>11, <2>4
<1>16. CASE S # {i}
  <2> DEFINE z == [q EXCEPT !.todo = q.todo \ {i}]
  <2>1. proc' = [proc EXCEPT ![p] = z]
    BY <1>6, <1>13, <1>16
  <2>2. /\ z.todo = S \ {i} /\ z.loaded = q.loaded /\ z.jobs = q.jobs /\ z.plan = q.plan
        /\ z.stage = q.stage /\ z \in Process
    BY <1>1, <1>13 DEF Process
  <2> HIDE DEF z
  <2>3. Formed(z) /\ z.stage # "idle"
    <3>1. S \ {i} # {}
      BY <1>4, <1>16
    <3>2. q.stage # "idle"
      BY <1>2, <1>13 DEF Fine, Idle
    <3>3. QED
      BY <1>1, <1>13, <1>14, <2>2, <3>1, <3>2 DEF Fine, Formed
  <2>4. Fine(z) /\ Head(z.jobs) = j
    BY <1>2, <1>13, <2>2, <2>3 DEF Fine
  <2>5. Knows(j, S, row', next', overtaken', judged')
    BY <1>1, <1>11, KnowsStays DEF j, S
  <2>6. Knows(j, S \ {i}, row', next', overtaken', judged')
    BY <2>5 DEF Knows
  <2>7. QED
    <3>1. setting' = setting
      BY <1>6
    <3>2. Knows(Head(z.jobs), z.todo, row', next', overtaken', judged')
      BY <2>2, <2>4, <2>6
    <3>3. TriageInv'
      BY <1>11, <1>12, <2>1, <2>4, <3>1, <3>2, StepKeeps
    <3>4. QED
      BY <1>11, <3>3
<1>17. QED
  BY <1>11, <1>15, <1>16

\* A process that drops its jobs keeps the invariant, when none works on rows.
LEMMA StopKeeps ==
  ASSUME TriageInv, NEW p \in Procs, Busy(p), Current(p).job \notin OnRows,
         proc' = [proc EXCEPT ![p] = [proc[p] EXCEPT !.jobs = <<>>]], setting' = setting,
         Mild, TableTyped
  PROVE  TriageInv'
<1> DEFINE q == proc[p]
           none == <<>>
           z == [q EXCEPT !.jobs = none]
<1>1. Fine(q) /\ q \in Process /\ q.jobs # <<>> /\ q.loaded = FALSE
  <2>1. Fine(q) /\ q \in Process /\ q.jobs # <<>> /\ Formed(q)
    BY ProcFine DEF Fine, Busy
  <2>2. q.loaded \in BOOLEAN
    BY <2>1 DEF Process
  <2>3. QED
    BY <2>1, <2>2 DEF Formed, Current
<1>2. q.stage # "idle"
  BY <1>1 DEF Fine, Idle
<1>3. none \in Seq(Job) /\ Len(none) = 0
  OBVIOUS
<1> HIDE DEF q, none
<1>4. /\ z \in Process /\ z.jobs = none /\ z.loaded = FALSE /\ z.todo = q.todo
      /\ z.plan = q.plan /\ z.stage = q.stage
  BY <1>1, <1>3 DEF Process
<1> HIDE DEF z
<1>5. Fine(z)
  <2>1. \A k \in 2..Len(none) : FALSE
    BY <1>3
  <2>2. QED
    BY <1>1, <1>2, <1>4, <2>1 DEF Fine, Formed
<1>6. proc' = [proc EXCEPT ![p] = z] /\ z.jobs = <<>>
  BY <1>4 DEF z, q, none
<1>7. QED
  BY <1>5, <1>6, StepKeeps

\* A review looks for the newest visible row.
LEMMA FindKeeps == ASSUME TriageInv, NEW p \in Procs, Find(p) PROVE TriageInv'
<1> DEFINE j == Current(p)
           f == Of(j.lesson) \cap Visible
<1>1. Busy(p) /\ j \in Job /\ j.job \in {"approve", "also", "reject"} /\ setting' = setting
  BY CurrentIsJob DEF Find
<1>2. j.lesson \in Lessons
  BY <1>1, JobFields
<1>3. active' \subseteq Topics
  BY <1>2 DEF Find, Topics, TriageInv, TypeOK
<1>4. Mild /\ TableTyped /\ UNCHANGED <<row, next, judged, overtaken>>
  BY <1>3, QuietIsMild, QuietTyped DEF Find, history, TriageInv, TypeOK
<1>5. CASE f = {} /\ j.job = "also"
  <2>1. proc' = [proc EXCEPT ![p] = Then(proc[p], <<>>)]
    BY <1>5 DEF Find
  <2>2. QED
    BY <1>1, <1>4, <2>1, OneJobKeeps
<1>6. CASE f = {} /\ j.job # "also"
  <2>1. proc' = [proc EXCEPT ![p] = [proc[p] EXCEPT !.jobs = <<>>]]
    BY <1>6 DEF Find
  <2>2. j.job \notin OnRows
    BY <1>1 DEF OnRows
  <2>3. QED
    BY <1>1, <1>4, <2>1, <2>2, StopKeeps
<1>7. CASE f # {}
  <2> DEFINE i == Max(f)
             c == IF j.job = "reject" THEN RemoveId(i) ELSE Read(i)
  <2>1. proc' = [proc EXCEPT ![p] = Then(proc[p], <<c>>)]
    BY <1>7 DEF Find
  <2>2. f \in SUBSET Ids /\ f \subseteq Visible
    BY DEF Visible, Rows
  <2>3. i \in f
    <3> HIDE DEF f
    <3> QED
      BY <1>7, <2>2, NewestIn
  <2>4. i \in Ids /\ row[i] # NoRow /\ ~row[i].approved
    BY <2>2, <2>3 DEF Visible, Rows
  <2> HIDE DEF i
  <2>5. /\ Read(i) \in Job /\ RemoveId(i) \in Job /\ Read(i).job = "read"
        /\ RemoveId(i).job = "remove" /\ RemoveId(i).id = i
    BY <2>4, JobForms DEF Read, RemoveId
  <2>6. CASE j.job = "reject"
    <3>1. c = RemoveId(i)
      BY <2>6
    <3> HIDE DEF c
    <3>2. Knows(c, {}, row', next', overtaken', judged')
      BY <1>4, <2>4, <2>5, <3>1 DEF Knows
    <3>3. QED
      BY <1>1, <1>4, <2>1, <2>5, <3>1, <3>2, OneJobKeeps
  <2>7. CASE j.job # "reject"
    <3>1. c = Read(i)
      BY <2>7
    <3> HIDE DEF c
    <3>2. Knows(c, {}, row', next', overtaken', judged')
      BY <2>5, <3>1, QueuedKnows
    <3>3. QED
      BY <1>1, <1>4, <2>1, <2>5, <3>1, <3>2, OneJobKeeps
  <2>8. QED
    BY <2>6, <2>7
<1>8. QED
  BY <1>5, <1>6, <1>7

\* An approval reads the payload.
LEMMA ReadPayloadKeeps == ASSUME TriageInv, NEW p \in Procs, ReadPayload(p) PROVE TriageInv'
<1> DEFINE j == Current(p)
           i == j.id
<1>1. Busy(p) /\ j \in Job /\ j.job = "read" /\ setting' = setting
  BY CurrentIsJob DEF ReadPayload, Doing
<1>2. i \in Ids
  BY <1>1, JobFields
<1>3. Mild /\ TableTyped /\ UNCHANGED <<row, next, judged, overtaken>>
  BY QuietIsMild, QuietTyped DEF ReadPayload, history, TriageInv, TypeOK
<1>4. CASE row[i] = NoRow
  <2>1. proc' = [proc EXCEPT ![p] = [proc[p] EXCEPT !.jobs = <<>>]]
    BY <1>4 DEF ReadPayload
  <2>2. j.job \notin OnRows
    BY <1>1 DEF OnRows
  <2>3. QED
    BY <1>1, <1>3, <2>1, <2>2, StopKeeps
<1>5. CASE row[i] # NoRow
  <2> DEFINE c == Mark(i, row[i])
  <2>1. proc' = [proc EXCEPT ![p] = Then(proc[p], <<c>>)]
    BY <1>5 DEF ReadPayload
  <2>2. row[i] \in Row /\ i < next
    BY <1>2, <1>5 DEF TriageInv, TypeOK
  <2>3. c \in Job /\ c.job = "mark" /\ c.id = i /\ c.payload = row[i]
    BY <1>2, <2>2, JobForms DEF Mark
  <2> HIDE DEF c, i
  <2>4. Knows(c, {}, row', next', overtaken', judged')
    BY <1>3, <2>2, <2>3 DEF Knows, SameMemory
  <2>5. QED
    BY <1>1, <1>3, <2>1, <2>3, <2>4, OneJobKeeps
<1>6. QED
  BY <1>4, <1>5

\* An approval writes the payload back; if somebody has chosen the row, it is noted.
LEMMA MarkApprovedKeeps ==
  ASSUME TriageInv, NEW p \in Procs, MarkApproved(p) PROVE TriageInv' /\ Mild
<1> DEFINE j == Current(p)
           i == j.id
           w == IF row[i] = NoRow THEN NoRow ELSE [j.payload EXCEPT !.approved = TRUE]
<1>1. Busy(p) /\ j \in Job /\ j.job = "mark"
  BY CurrentIsJob DEF MarkApproved, Doing
<1>2. i \in Ids /\ j.payload \in Row
  BY <1>1, JobFields
<1>3. /\ row' = [row EXCEPT ![i] = w] /\ overtaken' = overtaken \cup ({i} \cap Doomed)
      /\ proc' = [proc EXCEPT ![p] = Then(proc[p], <<>>)] /\ setting' = setting
      /\ UNCHANGED <<started, next, active, kept, judged, reviewed>>
  BY DEF MarkApproved
<1>4. row \in [Ids -> Row \cup {NoRow}] /\ \A k \in Ids : row[k] # NoRow => k < next
  BY DEF TriageInv, TypeOK
<1>5. Knows(j, proc[p].todo, row, next, overtaken, judged)
  BY <1>1 DEF TriageInv
<1>6. /\ w \in Row \cup {NoRow} /\ (w = NoRow <=> row[i] = NoRow)
      /\ w # NoRow => SameMemory(w, row[i])
  <2>1. row[i] # NoRow => SameMemory(row[i], j.payload)
    BY <1>1, <1>5 DEF Knows
  <2>2. [j.payload EXCEPT !.approved = TRUE] \in Row
        /\ SameMemory([j.payload EXCEPT !.approved = TRUE], j.payload)
    BY <1>2 DEF Row, SameMemory
  <2>3. QED
    BY <2>1, <2>2, RowIsRow DEF SameMemory
<1> HIDE DEF w, i, j
<1>7. \A k \in Ids : row'[k] = IF k = i THEN w ELSE row[k]
  BY <1>2, <1>3, <1>4
<1>8. Mild
  <2>1. next \in Nat
    BY MemoryTriageAssumption DEF TriageInv, TypeOK
  <2>2. next' \in Nat /\ next' >= next /\ overtaken \subseteq overtaken'
        /\ (i \in Doomed => i \in overtaken') /\ judged' = judged
    BY <1>3, <2>1
  <2>3. QED
    BY <1>2, <1>6, <1>7, <2>2 DEF Mild, SameMemory
<1>9. TableTyped
  <2>1. row' \in [Ids -> Row \cup {NoRow}]
    BY <1>2, <1>3, <1>4, <1>6
  <2>2. \A k \in Ids : row'[k] # NoRow => k < next'
    BY <1>2, <1>3, <1>4, <1>6, <1>7
  <2>3. overtaken' \subseteq Ids
    BY <1>2, <1>3 DEF TriageInv, TypeOK
  <2>4. QED
    BY <1>3, <2>1, <2>2, <2>3 DEF TriageInv, TypeOK, TableTyped
<1>10. QED
  BY <1>1, <1>3, <1>8, <1>9, OneJobKeeps

\* A rejection removes the row it has found.
LEMMA RemoveRowKeeps ==
  ASSUME TriageInv, NEW p \in Procs, RemoveRow(p) PROVE TriageInv' /\ Mild
<1> DEFINE j == Current(p)
           i == j.id
<1>1. Busy(p) /\ j \in Job /\ j.job = "remove"
  BY CurrentIsJob DEF RemoveRow, Doing
<1>2. i \in Ids
  BY <1>1, JobFields
<1>3. /\ row' = [row EXCEPT ![i] = NoRow] /\ setting' = setting
      /\ judged' = judged \cup {Topic[row[k].lesson] : k \in {i} \cap Rows}
      /\ reviewed' = reviewed \cup {row[k].lesson : k \in {i} \cap Rows}
      /\ proc' = [proc EXCEPT ![p] = Then(proc[p], <<>>)]
      /\ UNCHANGED <<started, next, active, kept, overtaken>>
  BY DEF RemoveRow
<1>4. row \in [Ids -> Row \cup {NoRow}] /\ \A k \in Ids : row[k] # NoRow => k < next
  BY DEF TriageInv, TypeOK
<1>5. judged' \subseteq Topics /\ reviewed' \subseteq Lessons
  <2>1. \A k \in Rows : row[k].lesson \in Lessons
    BY RowsTyped
  <2>2. judged \subseteq Topics /\ reviewed \subseteq Lessons
    BY DEF TriageInv, TypeOK
  <2>3. QED
    BY <1>3, <2>1, <2>2 DEF Topics
<1> HIDE DEF i, j
<1>6. \A k \in Ids : row'[k] = IF k = i THEN NoRow ELSE row[k]
  BY <1>2, <1>3, <1>4
<1>7. Mild
  <2>1. next \in Nat
    BY MemoryTriageAssumption DEF TriageInv, TypeOK
  <2>2. next' \in Nat /\ next' >= next /\ overtaken' = overtaken
    BY <1>3, <2>1
  <2>3. QED
    <3>1. judged \subseteq judged' /\ (row[i] # NoRow => Topic[row[i].lesson] \in judged')
      BY <1>2, <1>3 DEF Rows
    <3>2. QED
      BY <1>6, <2>2, <3>1 DEF Mild, SameMemory
<1>8. TableTyped
  <2>1. row' \in [Ids -> Row \cup {NoRow}]
    BY <1>2, <1>3, <1>4
  <2>2. \A k \in Ids : row'[k] # NoRow => k < next'
    BY <1>3, <1>4, <1>6
  <2>3. QED
    BY <1>3, <1>5, <2>1, <2>2 DEF TriageInv, TypeOK, TableTyped
<1>9. QED
  BY <1>1, <1>3, <1>7, <1>8, OneJobKeeps

\* An upload deletes the row, and its topic has an active rule.
LEMMA UploadKeeps ==
  ASSUME TriageInv, Promoted, NEW i \in Ids, Upload(i) PROVE TriageInv' /\ Mild
<1>1. /\ i \in Rows /\ row[i].approved /\ row' = [row EXCEPT ![i] = NoRow]
      /\ judged' = judged \cup ({Topic[row[i].lesson]} \cap active)
      /\ reviewed' = reviewed \cup {row[i].lesson}
      /\ UNCHANGED <<setting, started, next, active, proc, kept, overtaken>>
  BY DEF Upload
<1>2. row \in [Ids -> Row \cup {NoRow}] /\ \A k \in Ids : row[k] # NoRow => k < next
  BY DEF TriageInv, TypeOK
<1>3. row[i].lesson \in Lessons /\ Topic[row[i].lesson] \in active
  BY <1>1, RowsTyped DEF Promoted
<1>4. \A k \in Ids : row'[k] = IF k = i THEN NoRow ELSE row[k]
  BY <1>1, <1>2
<1>5. Mild
  <2>1. next \in Nat
    BY MemoryTriageAssumption DEF TriageInv, TypeOK
  <2>2. next' \in Nat /\ next' >= next /\ overtaken' = overtaken
    BY <1>1, <2>1
  <2>3. judged \subseteq judged' /\ Topic[row[i].lesson] \in judged'
    BY <1>1, <1>3
  <2>4. QED
    BY <1>4, <2>2, <2>3 DEF Mild, SameMemory
<1>6. TypeOK'
  <2>1. row' \in [Ids -> Row \cup {NoRow}]
    BY <1>1, <1>2
  <2>2. \A k \in Ids : row'[k] # NoRow => k < next'
    BY <1>1, <1>2, <1>4
  <2>3. judged' \subseteq Topics /\ reviewed' \subseteq Lessons
    BY <1>1, <1>3 DEF TriageInv, TypeOK
  <2>4. QED
    BY <1>1, <2>1, <2>2, <2>3 DEF TriageInv, TypeOK
<1>7. Procs' = Procs /\ \A p : Busy(p)' = Busy(p) /\ Current(p)' = Current(p)
  BY <1>1 DEF Procs, Busy, Current
<1>8. \A p \in Procs : Busy(p) =>
        Knows(Current(p), proc[p].todo, row', next', overtaken', judged')
  BY <1>5, KnowsStays
<1>9. TriageInv'
  BY <1>1, <1>6, <1>7, <1>8 DEF TriageInv
<1>10. QED
  BY <1>5, <1>9

\* A process that ends or is killed is idle.
LEMMA EndKeeps ==
  ASSUME TriageInv, NEW p \in Procs, End(p) \/ Die(p) PROVE TriageInv'
<1>1. /\ proc' = [proc EXCEPT ![p] = Idle]
      /\ UNCHANGED <<setting, started, row, next, active, history>>
  BY DEF End, Die
<1>2. Mild /\ TableTyped
  BY <1>1, QuietIsMild, QuietTyped DEF history, TriageInv, TypeOK
<1>3. Idle.jobs = <<>>
  BY DEF Idle
<1>4. QED
  BY <1>1, <1>2, <1>3, IdleFine, StepKeeps

-----------------------------------------------------------------------------
(* The jobs of a run                                                       *)

\* The visible candidates make a plan.
LEMMA PresentPlanned == ASSUME TriageInv PROVE Planned(Present)
<1>1. \A i \in Visible : i \in Ids /\ row[i] \in Row
  BY RowsTyped DEF Visible
<1>2. Present \in SUBSET Candidate
  <2>1. ASSUME NEW i \in Visible
        PROVE  [id |-> i, lesson |-> row[i].lesson, session |-> row[i].session,
                evidence |-> row[i].evidence] \in Candidate
    <3>1. i \in Ids /\ row[i] \in Row
      BY <1>1
    <3>2. row[i].lesson \in Lessons /\ row[i].session \in Sessions /\ row[i].evidence \in Nat
      BY <3>1 DEF Row
    <3>3. QED
      BY <3>1, <3>2 DEF Candidate
  <2>2. QED
    BY <2>1 DEF Present
<1>3. \A c, d \in Present : c.id = d.id => c = d
  BY DEF Present
<1>4. QED
  BY <1>2, <1>3, PlanFinite DEF Planned

\* The plan of a process is one.
LEMMA ProcPlanned == ASSUME TriageInv, NEW p \in Procs PROVE Planned(proc[p].plan)
<1>1. proc[p] \in Process /\ Formed(proc[p])
  BY ProcFine DEF Fine
<1>2. proc[p].plan \in SUBSET Candidate /\ \A c, d \in proc[p].plan : c.id = d.id => c = d
  BY <1>1 DEF Process, Formed
<1>3. QED
  BY <1>2, PlanFinite DEF Planned

\* A sequence of jobs that may all wait.
Waiting(s) == s \in Seq(Job) /\ \A k \in 1..Len(s) : s[k].job \in Queued

\* The jobs f[x] for x in a finite set, as a sequence.
LEMMA ListedOf ==
  ASSUME NEW S, IsFiniteSet(S), NEW f, f = [x \in S |-> f[x]],
         \A x \in S : f[x] \in Job /\ f[x].job \in Queued
  PROVE  Waiting(SetToSeq({f[x] : x \in S}))
<1> DEFINE T == {f[x] : x \in S}
<1>1. IsFiniteSet(T) /\ T \in SUBSET Job /\ \A j \in T : j.job \in Queued
  BY RangeFinite
<1> HIDE DEF T
<1>2. Waiting(SetToSeq(T))
  BY <1>1, ListedJobs DEF Waiting
<1>3. QED
  BY <1>2 DEF T

\* One job after another.
LEMMA Appended ==
  ASSUME NEW s, Waiting(s), NEW t, Waiting(t) PROVE Waiting(s \o t)
<1>1. s \in Seq(Job) /\ t \in Seq(Job) /\ Len(s) \in Nat /\ Len(t) \in Nat
  BY DEF Waiting
<1>2. s \o t \in Seq(Job) /\ Len(s \o t) = Len(s) + Len(t)
  BY <1>1
<1>3. ASSUME NEW k \in 1..Len(s) + Len(t) PROVE (s \o t)[k].job \in Queued
  <2>1. CASE k <= Len(s)
    BY <1>1, <2>1 DEF Waiting
  <2>2. CASE k > Len(s)
    <3>1. (s \o t)[k] = t[k - Len(s)] /\ k - Len(s) \in 1..Len(t)
      BY <1>1, <2>2
    <3>2. QED
      BY <3>1 DEF Waiting
  <2>3. QED
    BY <1>1, <2>1, <2>2
<1>4. QED
  BY <1>2, <1>3 DEF Waiting

\* A job before others.
LEMMA Prefixed ==
  ASSUME NEW j \in Job, NEW s, Waiting(s)
  PROVE  /\ <<j>> \o s \in Seq(Job) /\ <<j>> \o s # <<>> /\ Head(<<j>> \o s) = j
         /\ \A k \in 2..Len(<<j>> \o s) : (<<j>> \o s)[k].job \in Queued
<1> DEFINE o == <<j>>
<1>1. o \in Seq(Job) /\ Len(o) = 1 /\ o[1] = j
  OBVIOUS
<1>2. s \in Seq(Job) /\ Len(s) \in Nat
  BY DEF Waiting
<1> HIDE DEF o
<1> DEFINE u == o \o s
<1>3. /\ u \in Seq(Job) /\ Len(u) = Len(o) + Len(s)
      /\ \A k \in 1..Len(u) : u[k] = IF k <= Len(o) THEN o[k] ELSE s[k - Len(o)]
  <2>1. o \in Seq(Job) /\ s \in Seq(Job)
    BY <1>1, <1>2
  <2>2. QED
    BY <2>1
<1> HIDE DEF u
<1>4. Len(u) = Len(s) + 1 /\ u[1] = j /\ u # <<>> /\ Head(u) = j
  <2>1. Len(u) = Len(s) + 1 /\ 1 \in 1..Len(u) /\ 1 <= Len(o)
    BY <1>1, <1>2, <1>3
  <2>2. u[1] = j /\ u # <<>>
    BY <1>1, <1>3, <2>1
  <2>3. QED
    BY <1>3, <2>1, <2>2
<1>5. ASSUME NEW k \in 2..Len(u) PROVE u[k].job \in Queued
  <2>1. k \in 1..Len(u) /\ ~(k <= Len(o)) /\ k - Len(o) \in 1..Len(s)
    BY <1>1, <1>2, <1>4
  <2>2. u[k] = s[k - Len(o)]
    BY <1>3, <2>1
  <2>3. QED
    BY <2>1, <2>2 DEF Waiting
<1>6. QED
  BY <1>3, <1>4, <1>5 DEF o, u

\* A run that leaves the table alone and takes on jobs keeps the invariant.
LEMMA RunKeeps ==
  ASSUME TriageInv, NEW p \in Procs, NEW z \in Process, proc' = [proc EXCEPT ![p] = z],
         z.stage # "idle", z.todo = {}, ~z.loaded, Planned(z.plan),
         \A k \in 2..Len(z.jobs) : z.jobs[k].job \in Queued,
         z.jobs # <<>> => Head(z.jobs).job \notin {"remove", "mark", "count"},
         setting' = setting, started' = started \/ Started("runs"),
         UNCHANGED <<row, next, active, history>>
  PROVE  TriageInv'
<1>1. Mild /\ TableTyped
  <2>1. Mild
    BY QuietIsMild DEF history
  <2>2. TableTyped
    BY QuietTyped DEF history, TriageInv, TypeOK
  <2>3. QED
    BY <2>1, <2>2
<1>2. Fine(z)
  BY DEF Fine, Formed, Planned
<1>3. z.jobs # <<>> => Knows(Head(z.jobs), z.todo, row', next', overtaken', judged')
  BY QueuedKnows
<1>4. QED
  BY <1>1, <1>2, <1>3, StepKeeps

\* The topics of a plan that an active rule covers.
LEMMA CoveredTyped ==
  ASSUME TriageInv
  PROVE  /\ active \cap {Topic[c.lesson] : c \in Present} \subseteq Topics
         /\ IsFiniteSet(active \cap {Topic[c.lesson] : c \in Present})
<1> DEFINE q == [plan |-> Present]
           P == Present
           C == active \cap {Topic[c.lesson] : c \in P}
<1>1. Planned(q.plan) /\ q.plan = P
  BY PresentPlanned
<1> HIDE DEF P
<1>2. GroupsOf(q) = {Topic[c.lesson] : c \in P}
  BY <1>1 DEF GroupsOf
<1> HIDE DEF q
<1>3. IsFiniteSet(GroupsOf(q)) /\ GroupsOf(q) \subseteq Topics
  BY <1>1, GroupsFinite
<1>4. C \in SUBSET GroupsOf(q)
  BY <1>2
<1> HIDE DEF C
<1>5. IsFiniteSet(C) /\ C \subseteq Topics
  BY <1>3, <1>4, FS_Subset
<1>6. QED
  BY <1>5 DEF C, P

\* A run plans, and has to purge and to delete what the active rules cover.
LEMMA StartRunKeeps == ASSUME TriageInv, NEW p \in Procs, StartRun(p) PROVE TriageInv'
<1> DEFINE C == active \cap {Topic[c.lesson] : c \in Present}
           P == Present
           q == [proc[p] EXCEPT !.stage = "clean", !.plan = P, !.covered = C]
           s == SetToSeq({Clear(LessonsOf(q, t)) : t \in q.covered})
           js == <<Purge>> \o s
           z == [q EXCEPT !.jobs = js]
<1>1. proc[p].stage = "idle" /\ setting' = setting /\ Started("runs")
      /\ UNCHANGED <<row, next, active, history>>
  BY DEF StartRun, Started
<1>2. proc' = [proc EXCEPT ![p] = z]
  BY DEF StartRun
<1>3. proc[p] = Idle /\ Idle \in Process /\ Idle.todo = {} /\ Idle.loaded = FALSE
  <2>1. proc[p] = Idle
    BY <1>1, ProcFine DEF Fine
  <2>2. Idle \in Process
    BY IdleFine DEF Fine
  <2>3. QED
    BY <2>1, <2>2 DEF Idle
<1>4. C \subseteq Topics /\ IsFiniteSet(C) /\ Planned(P)
  BY CoveredTyped, PresentPlanned
<1> HIDE DEF C, P
<1>5. /\ q \in Process /\ q.plan = P /\ q.covered = C /\ q.stage = "clean"
      /\ q.todo = {} /\ q.loaded = FALSE
  BY <1>3, <1>4 DEF Process, Planned
<1> HIDE DEF q
<1>6. Waiting(s)
  <2> DEFINE f == [t \in C |-> Clear(LessonsOf(q, t))]
  <2>1. \A t \in C : f[t] \in Job /\ f[t].job \in Queued
    <3> SUFFICES ASSUME NEW t \in C PROVE f[t] \in Job /\ f[t].job \in Queued
      OBVIOUS
    <3>1. LessonsOf(q, t) \in Group
      BY <1>4, <1>5, LessonsAreGroup
    <3>2. Clear(LessonsOf(q, t)) \in Job /\ Clear(LessonsOf(q, t)).job = "clear"
      BY <3>1, JobForms DEF Clear
    <3>3. QED
      BY <3>2 DEF Queued
  <2>2. {f[t] : t \in C} = {Clear(LessonsOf(q, t)) : t \in q.covered}
    BY <1>5
  <2>3. f = [t \in C |-> f[t]]
    OBVIOUS
  <2> HIDE DEF f
  <2>4. QED
    BY <1>4, <2>1, <2>2, <2>3, ListedOf
<1> HIDE DEF s
<1>7. /\ js \in Seq(Job) /\ Head(js) = Purge
      /\ \A k \in 2..Len(js) : js[k].job \in Queued
  BY <1>6, JobForms, Prefixed
<1>8. Purge.job = "purge"
  BY DEF Purge
<1> HIDE DEF js
<1>9. /\ z \in Process /\ z.plan = P /\ z.stage = "clean" /\ z.jobs = js
      /\ z.todo = {} /\ z.loaded = FALSE
  BY <1>5, <1>7 DEF Process
<1> HIDE DEF z
<1>10. QED
  BY <1>1, <1>2, <1>4, <1>7, <1>8, <1>9, RunKeeps

\* What the answer decides of a group is a job on groups.
LEMMA DecidedTyped ==
  ASSUME NEW q, Planned(q.plan), NEW d \in Answers(q), NEW t \in Touched(d)
  PROVE  Decided(q, d, t) \in Job /\ Decided(q, d, t).job \in Queued
<1> DEFINE G == GroupsOf(q) \ q.covered
<1>1. d \in [G -> {"keep", "delete"} \cup G] /\ t \in G
  BY DEF Answers, Touched
<1>2. LessonsOf(q, t) \in Group
  BY LessonsAreGroup
<1>3. CASE d[t] = "delete"
  <2>1. Decided(q, d, t) = Clear(LessonsOf(q, t))
    BY <1>3 DEF Decided
  <2>2. Clear(LessonsOf(q, t)) \in Job /\ Clear(LessonsOf(q, t)).job = "clear"
    BY <1>2, JobForms DEF Clear
  <2>3. QED
    BY <2>1, <2>2 DEF Queued
<1>4. CASE d[t] # "delete"
  <2>1. d[t] \in GroupsOf(q)
    BY <1>1, <1>4 DEF Touched
  <2>2. Canonical(q, d[t]) \in Lessons
    <3>1. Canonical(q, d[t]) \in LessonsOf(q, d[t]) /\ LessonsOf(q, d[t]) \in Group
      BY <2>1, CanonicalIn, LessonsAreGroup
    <3>2. QED
      BY <3>1 DEF Group
  <2> DEFINE c == Canonical(q, d[t])
             S == LessonsOf(q, t)
  <2>3. Decided(q, d, t) = Fold(S, c)
    BY <1>4 DEF Decided
  <2> HIDE DEF c, S
  <2>4. S \in Group /\ c \in Lessons
    BY <1>2, <2>2 DEF c, S
  <2>5. Fold(S, c) \in Job /\ Fold(S, c).job = "fold"
    BY <2>4, JobForms DEF Fold
  <2>6. QED
    BY <2>3, <2>5 DEF Queued
<1>5. QED
  BY <1>3, <1>4

\* So is what the deterministic pass does to a group.
LEMMA FoldedTyped ==
  ASSUME NEW q, Planned(q.plan), NEW t \in GroupsOf(q)
  PROVE  Folded(q, t) \in Job /\ Folded(q, t).job \in Queued
<1> DEFINE c == Canonical(q, t)
           S == LessonsOf(q, t)
           n == DistinctEvidence(q, t)
<1>1. S \in Group /\ c \in S /\ n \in Nat
  BY LessonsAreGroup, CanonicalIn, EvidenceIsNat
<1>2. c \in Lessons
  BY <1>1 DEF Group
<1>3. Folded(q, t) = Gather(S, c, n)
  BY DEF Folded
<1> HIDE DEF c, S, n
<1>4. Gather(S, c, n) \in Job /\ Gather(S, c, n).job = "gather"
  BY <1>1, <1>2, JobForms DEF Gather
<1>5. QED
  BY <1>3, <1>4 DEF Queued

\* The run takes on the jobs of the answer, and then those of the deterministic pass.
LEMMA TriageGroupsKeeps == ASSUME TriageInv, NEW p \in Procs, TriageGroups(p) PROVE TriageInv'
<1> DEFINE q == proc[p]
           G == GroupsOf(q) \ q.covered
           s(d, order) == [k \in 1..Len(order) |-> Decided(q, d, order[k])]
           t == SetToSeq({Folded(q, x) : x \in G})
<1>0. PICK d \in Answers(q) : \E order \in SetToSeqs(Touched(d)) :
        proc' = [proc EXCEPT ![p] = [q EXCEPT !.stage = "fold", !.circular = Circular(d),
                                              !.jobs = s(d, order) \o t]]
  BY DEF TriageGroups
<1>1. PICK order \in SetToSeqs(Touched(d)) :
        proc' = [proc EXCEPT ![p] = [q EXCEPT !.stage = "fold", !.circular = Circular(d),
                                              !.jobs = s(d, order) \o t]]
  BY <1>0
<1>2. q.stage = "clean" /\ q.jobs = <<>> /\ UNCHANGED <<setting, started, row, next, active, history>>
  BY DEF TriageGroups, Busy
<1>3. q \in Process /\ q.loaded = FALSE /\ q.todo = {} /\ Planned(q.plan)
  <2>1. q \in Process /\ Formed(q) /\ Planned(q.plan)
    BY ProcFine, ProcPlanned DEF Fine
  <2>2. q.loaded \in BOOLEAN
    BY <2>1 DEF Process
  <2>3. q.loaded = FALSE
    BY <1>2, <2>1, <2>2 DEF Formed
  <2>4. QED
    BY <2>1, <2>3 DEF Formed
<1> HIDE DEF q
<1>4. IsFiniteSet(G) /\ G \subseteq GroupsOf(q)
  <2>1. IsFiniteSet(GroupsOf(q)) /\ G \in SUBSET GroupsOf(q)
    BY <1>3, GroupsFinite
  <2>2. QED
    BY <2>1, FS_Subset
<1>5. DOMAIN d = G
  BY DEF Answers
<1>6. Waiting(s(d, order))
  <2> DEFINE T == Touched(d)
  <2>1. IsFiniteSet(T)
    <3>1. T \in SUBSET G
      BY <1>5 DEF Touched
    <3>2. QED
      BY <1>4, <3>1, FS_Subset
  <2>2. Cardinality(T) \in Nat /\ order \in [1..Cardinality(T) -> T]
    BY <2>1, FS_CardinalityType DEF SetToSeqs
  <2>3. \A x \in T : Decided(q, d, x) \in Job /\ Decided(q, d, x).job \in Queued
    BY <1>3, DecidedTyped
  <2> HIDE DEF T
  <2>4. Len(order) = Cardinality(T) /\ Len(order) \in Nat /\ \A k \in 1..Len(order) : order[k] \in T
    BY <2>2
  <2> DEFINE u == [k \in 1..Len(order) |-> Decided(q, d, order[k])]
  <2>5. /\ u \in [1..Len(order) -> Job]
        /\ \A k \in 1..Len(order) : u[k].job \in Queued
    BY <2>3, <2>4
  <2> HIDE DEF u
  <2>6. u \in Seq(Job) /\ Len(u) = Len(order)
    BY <2>4, <2>5
  <2>7. Waiting(u)
    BY <2>5, <2>6 DEF Waiting
  <2>8. QED
    BY <2>7 DEF u
<1>7. Waiting(t)
  <2> DEFINE f == [x \in G |-> Folded(q, x)]
  <2>1. \A x \in G : f[x] \in Job /\ f[x].job \in Queued
    BY <1>3, <1>4, FoldedTyped
  <2>2. {f[x] : x \in G} = {Folded(q, x) : x \in G} /\ f = [x \in G |-> f[x]]
    OBVIOUS
  <2> HIDE DEF f, G
  <2>3. QED
    BY <1>4, <2>1, <2>2, ListedOf
<1> DEFINE js == s(d, order) \o t
           b == Circular(d)
           z == [q EXCEPT !.stage = "fold", !.circular = b, !.jobs = js]
<1>8. proc' = [proc EXCEPT ![p] = z]
  BY <1>1 DEF q
<1>9. Waiting(js)
  <2> HIDE DEF s, t
  <2> QED
    BY <1>6, <1>7, Appended
<1>10. b \in BOOLEAN
  BY DEF Circular
<1> HIDE DEF js, b
<1>11. js \in Seq(Job) /\ Len(js) \in Nat /\ \A k \in 1..Len(js) : js[k].job \in Queued
  BY <1>9 DEF Waiting
<1>12. /\ z \in Process /\ z.plan = q.plan /\ z.stage = "fold" /\ z.jobs = js
       /\ z.todo = {} /\ z.loaded = FALSE
  BY <1>3, <1>10, <1>11 DEF Process
<1> HIDE DEF z
<1>13. /\ \A k \in 2..Len(js) : js[k].job \in Queued
       /\ js # <<>> => Head(js).job \notin {"remove", "mark", "count"}
  <2>1. \A k \in 2..Len(js) : k \in 1..Len(js)
    BY <1>11
  <2>2. js # <<>> => Head(js).job \in Queued
    BY <1>11
  <2>3. QED
    BY <1>11, <2>1, <2>2 DEF Queued
<1>14. QED
  BY <1>2, <1>3, <1>8, <1>12, <1>13, RunKeeps

\* A group is folded by jobs on its lessons.
LEMMA FoldIntoWaits == ASSUME NEW S \in Group, NEW to \in Lessons PROVE Waiting(FoldInto(S, to))
<1> DEFINE T == S \ {to}
           f == [l \in T |-> SetTriage(l, to)]
<1>1. IsFiniteSet(T) /\ T \subseteq Lessons
  <2>1. IsFiniteSet(S) /\ T \in SUBSET S /\ S \subseteq Lessons
    BY DEF Group
  <2>2. QED
    BY <2>1, FS_Subset
<1>2. \A l \in T : f[l] \in Job /\ f[l].job \in Queued
  <2> SUFFICES ASSUME NEW l \in T PROVE f[l] \in Job /\ f[l].job \in Queued
    OBVIOUS
  <2>1. SetTriage(l, to) \in Job /\ SetTriage(l, to).job = "triage"
    BY <1>1, JobForms DEF SetTriage
  <2>2. QED
    BY <2>1 DEF Queued
<1>3. FoldInto(S, to) = SetToSeq({f[l] : l \in T}) /\ f = [l \in T |-> f[l]]
  BY DEF FoldInto
<1> HIDE DEF f, T
<1>4. QED
  BY <1>1, <1>2, <1>3, ListedOf

\* The jobs a group job becomes.
LEMMA ExpandedWaits ==
  ASSUME NEW j \in Job, j.job \in {"clear", "fold", "gather"} PROVE Waiting(Expanded(j))
<1>1. CASE j.job = "clear"
  <2> DEFINE S == j.from
             f == [l \in S |-> Delete(l)]
  <2>1. IsFiniteSet(S) /\ S \subseteq Lessons
    BY <1>1, JobFields DEF Group
  <2>2. \A l \in S : f[l] \in Job /\ f[l].job \in Queued
    <3> SUFFICES ASSUME NEW l \in S PROVE f[l] \in Job /\ f[l].job \in Queued
      OBVIOUS
    <3>1. Delete(l) \in Job /\ Delete(l).job = "delete"
      BY <2>1, JobForms DEF Delete
    <3>2. QED
      BY <3>1 DEF Queued
  <2>3. Expanded(j) = SetToSeq({f[l] : l \in S}) /\ f = [l \in S |-> f[l]]
    BY <1>1 DEF Expanded
  <2> HIDE DEF f, S
  <2>4. QED
    BY <2>1, <2>2, <2>3, ListedOf
<1>2. CASE j.job = "fold"
  <2>1. Waiting(FoldInto(j.from, j.to))
    BY <1>2, JobFields, FoldIntoWaits
  <2>2. Waiting(<<>>)
    <3>1. <<>> \in Seq(Job) /\ Len(<<>>) = 0
      OBVIOUS
    <3>2. QED
      BY <3>1 DEF Waiting
  <2>3. Expanded(j) = IF Of(j.to) = {} THEN <<>> ELSE FoldInto(j.from, j.to)
    BY <1>2 DEF Expanded
  <2>4. QED
    BY <2>1, <2>2, <2>3
<1>3. CASE j.job = "gather"
  <2> DEFINE c == SetEvidence(j.to, j.count)
             s == <<c>>
             t == FoldInto(j.from, j.to)
  <2>1. j.from \in Group /\ j.to \in Lessons /\ j.count \in Nat
    BY <1>3, JobFields
  <2>2. Waiting(t)
    BY <2>1, FoldIntoWaits
  <2>3. c \in Job /\ c.job = "evidence"
    BY <2>1, JobForms DEF SetEvidence
  <2>4. Expanded(j) = s \o t
    BY <1>3 DEF Expanded
  <2> HIDE DEF c, t
  <2>5. s \in Seq(Job) /\ Len(s) = 1 /\ s[1] = c
    BY <2>3
  <2> HIDE DEF s
  <2>6. Waiting(s)
    BY <2>3, <2>5 DEF Waiting, Queued
  <2>7. QED
    BY <2>2, <2>4, <2>6, Appended
<1>4. QED
  BY <1>1, <1>2, <1>3

\* A run turns to a group.
LEMMA TurnToGroupKeeps == ASSUME TriageInv, NEW p \in Procs, TurnToGroup(p) PROVE TriageInv'
<1> DEFINE j == Current(p)
           js == Expanded(j)
<1>1. Busy(p) /\ j \in Job /\ j.job \in {"clear", "fold", "gather"} /\ setting' = setting
  BY CurrentIsJob DEF TurnToGroup
<1>2. Mild /\ TableTyped
  BY QuietIsMild, QuietTyped DEF TurnToGroup, history, TriageInv, TypeOK
<1>3. proc' = [proc EXCEPT ![p] = Then(proc[p], js)]
  BY DEF TurnToGroup
<1>4. Waiting(js)
  <2> HIDE DEF j
  <2> QED
    BY <1>1, ExpandedWaits
<1> HIDE DEF js
<1>5. Fine(proc[p]) /\ proc[p].jobs # <<>>
  BY <1>1, ProcFine DEF Busy
<1>6. js \in Seq(Job) /\ Len(js) \in Nat /\ \A k \in 1..Len(js) : js[k].job \in Queued
  BY <1>4 DEF Waiting
<1>7. \A k \in 2..Len(js) : js[k].job \in Queued
  BY <1>6
<1>8. js # <<>> => Knows(js[1], {}, row', next', overtaken', judged')
  <2>1. js # <<>> => js[1].job \in Queued
    BY <1>6
  <2>2. QED
    BY <2>1, QueuedKnows DEF Queued
<1>9. QED
  BY <1>1, <1>2, <1>3, <1>5, <1>6, <1>7, <1>8, ThenKeeps

\* A run plans again and approves a group, or ends.
LEMMA EnableKeeps == ASSUME TriageInv, NEW p \in Procs, Enable(p) PROVE TriageInv'
<1> DEFINE C == active \cap {Topic[c.lesson] : c \in Present}
           P == Present
           r == proc[p]
           q == IF r.changed THEN [r EXCEPT !.plan = P, !.covered = C] ELSE r
<1>1. r.stage = "fold" /\ r.jobs = <<>> /\ UNCHANGED <<setting, started, row, next, active, history>>
  BY DEF Enable, Busy
<1>2. \/ proc' = [proc EXCEPT ![p] = [q EXCEPT !.stage = "end"]]
      \/ \E t \in GroupsOf(q) \ q.covered : \E first \in LessonsOf(q, t) :
           proc' = [proc EXCEPT ![p] = [q EXCEPT !.stage = "end", !.jobs =
             <<Approve(first)>> \o SetToSeq({AlsoApprove(l) : l \in LessonsOf(q, t)})]]
  BY DEF Enable
<1>3. r \in Process /\ r.loaded = FALSE /\ r.todo = {} /\ Planned(r.plan)
  <2>1. r \in Process /\ Formed(r) /\ Planned(r.plan)
    BY ProcFine, ProcPlanned DEF Fine
  <2>2. r.loaded \in BOOLEAN
    BY <2>1 DEF Process
  <2>3. r.loaded = FALSE
    BY <1>1, <2>1, <2>2 DEF Formed
  <2>4. QED
    BY <2>1, <2>3 DEF Formed
<1>4. C \subseteq Topics /\ Planned(P)
  BY CoveredTyped, PresentPlanned
<1> HIDE DEF C, P, r
<1>5. q \in Process /\ Planned(q.plan) /\ q.jobs = <<>> /\ q.loaded = FALSE /\ q.todo = {}
  <2> DEFINE y == [r EXCEPT !.plan = P, !.covered = C]
  <2>1. y \in Process /\ y.plan = P /\ y.jobs = r.jobs /\ y.loaded = r.loaded /\ y.todo = r.todo
    BY <1>3, <1>4 DEF Process, Planned
  <2> HIDE DEF y
  <2>2. q = y \/ q = r
    BY DEF y
  <2> HIDE DEF q
  <2>3. QED
    BY <1>1, <1>3, <1>4, <2>1, <2>2
<1> HIDE DEF q
<1>6. CASE proc' = [proc EXCEPT ![p] = [q EXCEPT !.stage = "end"]]
  <2> DEFINE z == [q EXCEPT !.stage = "end"]
  <2>1. /\ z \in Process /\ z.plan = q.plan /\ z.jobs = q.jobs /\ z.loaded = FALSE
        /\ z.todo = {} /\ z.stage = "end"
    BY <1>5 DEF Process
  <2>2. proc' = [proc EXCEPT ![p] = z]
    BY <1>6
  <2> HIDE DEF z
  <2>3. z.jobs = <<>> /\ Len(z.jobs) = 0
    BY <1>5, <2>1
  <2>4. \A k \in 2..Len(z.jobs) : z.jobs[k].job \in Queued
    BY <2>3
  <2>5. QED
    BY <1>1, <1>5, <2>1, <2>2, <2>3, <2>4, RunKeeps
<1>7. ASSUME NEW t \in GroupsOf(q) \ q.covered, NEW first \in LessonsOf(q, t),
             proc' = [proc EXCEPT ![p] = [q EXCEPT !.stage = "end", !.jobs =
               <<Approve(first)>> \o SetToSeq({AlsoApprove(l) : l \in LessonsOf(q, t)})]]
      PROVE  TriageInv'
  <2> DEFINE S == LessonsOf(q, t)
             f == [l \in S |-> AlsoApprove(l)]
             s == SetToSeq({AlsoApprove(l) : l \in S})
             js == <<Approve(first)>> \o s
             z == [q EXCEPT !.stage = "end", !.jobs = js]
  <2>1. S \subseteq Lessons /\ IsFiniteSet(S) /\ first \in Lessons
    BY <1>5, LessonsAreGroup DEF Group
  <2>2. proc' = [proc EXCEPT ![p] = z]
    BY <1>7
  <2> HIDE DEF S
  <2>3. Waiting(s)
    <3>1. \A l \in S : f[l] \in Job /\ f[l].job \in Queued
      <4> SUFFICES ASSUME NEW l \in S PROVE f[l] \in Job /\ f[l].job \in Queued
        OBVIOUS
      <4>1. AlsoApprove(l) \in Job /\ AlsoApprove(l).job = "also"
        BY <2>1, JobForms DEF AlsoApprove
      <4>2. QED
        BY <4>1 DEF Queued
    <3>2. s = SetToSeq({f[l] : l \in S}) /\ f = [l \in S |-> f[l]]
      OBVIOUS
    <3> HIDE DEF f, s
    <3>3. QED
      BY <2>1, <3>1, <3>2, ListedOf
  <2>4. Approve(first) \in Job /\ Approve(first).job = "approve"
    BY <2>1, JobForms DEF Approve
  <2> HIDE DEF s
  <2>5. /\ js \in Seq(Job) /\ Head(js) = Approve(first)
        /\ \A k \in 2..Len(js) : js[k].job \in Queued
    BY <2>3, <2>4, Prefixed
  <2> HIDE DEF js
  <2>6. /\ z \in Process /\ z.plan = q.plan /\ z.jobs = js /\ z.loaded = FALSE
        /\ z.todo = {} /\ z.stage = "end"
    BY <1>5, <2>5 DEF Process
  <2> HIDE DEF z
  <2>7. QED
    BY <1>1, <1>5, <2>2, <2>4, <2>5, <2>6, RunKeeps
<1>8. QED
  BY <1>2, <1>6, <1>7 DEF r

-----------------------------------------------------------------------------
(* Every step                                                              *)

\* The table a behaviour starts with, and idle processes, satisfy the invariant.
LEMMA InitTriage == ASSUME Init PROVE TriageInv
<1> DEFINE old == setting.old
<1>1. setting \in Settings /\ setting \in Setting /\ Len(old) <= NumRows
  BY MemoryTriageAssumption DEF Init
<1>2. old \in Seq(Row) /\ Len(old) \in Nat
  BY <1>1 DEF Setting
<1>3. NumRows \in Nat
  BY MemoryTriageAssumption
<1>4. \A i \in Ids : i \in Nat /\ i >= 1
  BY <1>3 DEF Ids
<1> HIDE DEF old
<1>5. row = [i \in Ids |-> IF i <= Len(old) THEN old[i] ELSE NoRow] /\ next = Len(old) + 1
  BY DEF Init, old
<1>6. \A i \in Ids : (i <= Len(old) => old[i] \in Row) /\ (i <= Len(old) => i < next)
  BY <1>2, <1>4, <1>5
<1>7. row \in [Ids -> Row \cup {NoRow}] /\ \A i \in Ids : row[i] # NoRow => i < next
  BY <1>5, <1>6
<1>8. next \in 1..NumRows + 1
  BY <1>1, <1>2, <1>3, <1>5 DEF old
<1>9. Idle \in Process /\ Formed(Idle) /\ Idle.jobs = <<>>
  BY IdleFine DEF Fine, Idle
<1>10. proc = [p \in AllProcs |-> Idle] /\ Procs \subseteq AllProcs
  BY <1>1 DEF Init, Procs, Setting
<1>11. started \in [{"mines", "reviews", "runs"} -> Nat]
  BY DEF Init
<1>12. TypeOK
  <2>1. active = {Topic[row[i].lesson] : i \in {k \in Rows : row[k].approved}}
    BY DEF Init
  <2>2. \A k \in Rows : row[k].lesson \in Lessons
    BY <1>7 DEF Rows, Row
  <2>3. active \subseteq Topics
    BY <2>1, <2>2 DEF Topics
  <2>4. kept \subseteq Lessons /\ judged \subseteq Topics /\ reviewed \subseteq Lessons
        /\ overtaken \subseteq Ids
    BY DEF Init
  <2>5. \A p \in AllProcs : proc[p] = Idle
    BY <1>10
  <2>6. proc \in [AllProcs -> Process]
    BY <1>9, <1>10
  <2>7. QED
    BY <1>1, <1>7, <1>8, <1>11, <2>3, <2>4, <2>5, <2>6 DEF TypeOK
<1>13. \A p \in Procs : proc[p] = Idle
  BY <1>10
<1>14. QED
  BY <1>9, <1>12, <1>13 DEF TriageInv, Busy

\* Every step keeps it.
LEMMA NextTriage == ASSUME TriageInv, Promoted, [Next]_vars PROVE TriageInv'
<1>1. CASE UNCHANGED vars
  <2>1. UNCHANGED <<setting, started, row, next, active, proc>>
        /\ UNCHANGED <<kept, judged, reviewed, overtaken>>
    BY <1>1 DEF vars
  <2>2. TypeOK' = TypeOK
    BY <2>1 DEF TypeOK
  <2>3. Procs' = Procs /\ \A p : Busy(p)' = Busy(p) /\ Current(p)' = Current(p)
    BY <2>1 DEF Procs, Busy, Current
  <2>4. QED
    BY <2>1, <2>2, <2>3 DEF TriageInv
<1>2. ASSUME NEW p \in Procs, Step(p) PROVE TriageInv'
  BY <1>2, StartMiningKeeps, ScanKeeps, ReadCountKeeps, StoreCandidateKeeps, LoadKeeps,
     WriteKeeps, StartReviewKeeps, FindKeeps, ReadPayloadKeeps, MarkApprovedKeeps,
     RemoveRowKeeps, StartRunKeeps, TriageGroupsKeeps, TurnToGroupKeeps, EnableKeeps, EndKeeps
     DEF Step
<1>3. ASSUME NEW i \in Ids, Upload(i) PROVE TriageInv'
  BY <1>3, UploadKeeps
<1>4. QED
  BY <1>1, <1>2, <1>3 DEF Next

\* Who deletes a row that is approved had chosen it before it was.
LEMMA DeletedWasChosen ==
  ASSUME TriageInv, NEW p \in Procs, Write(p) \/ RemoveRow(p) \/ MarkApproved(p)
  PROVE  \A i \in Rows : row[i].approved /\ row'[i] = NoRow => i \in overtaken
<1> DEFINE j == Current(p)
<1>1. row \in [Ids -> Row \cup {NoRow}] /\ Rows \subseteq Ids
  BY DEF TriageInv, TypeOK, Rows
<1>2. CASE Write(p)
  <2> DEFINE S == proc[p].todo
             i == Max(S)
  <2>1. Busy(p) /\ proc[p].loaded /\ j \in Job /\ S \in SUBSET Ids
    BY <1>2, CurrentIsJob DEF Write
  <2>2. S # {} /\ j.job \in OnRows
    BY <2>1, ProcFine DEF Fine, Formed, Current
  <2>3. i \in S /\ i \in Ids
    <3> HIDE DEF S
    <3> QED
      BY <2>1, <2>2, NewestIn
  <2>4. Knows(j, S, row, next, overtaken, judged)
    BY <2>1 DEF TriageInv
  <2>5. row' = [row EXCEPT ![i] = Written(j, row[i])]
    BY <1>2 DEF Write
  <2>6. row[i] # NoRow /\ j.job \in {"evidence", "triage"} => Written(j, row[i]) # NoRow
    <3>1. row[i] \in Row \cup {NoRow}
      BY <1>1, <2>3
    <3>2. /\ j.job \in {"evidence", "triage"} => (row[i] # NoRow => row[i].lesson = j.lesson)
          /\ j.job = "triage" => (row[i] # NoRow => row[i].triage # "dropped")
      BY <2>3, <2>4 DEF Knows
    <3> HIDE DEF i, j
    <3>3. QED
      BY <2>1, <3>1, <3>2, WrittenTyped
  <2> HIDE DEF i, j, S
  <2>7. ASSUME NEW k \in Rows, row[k].approved, row'[k] = NoRow PROVE k \in overtaken
    <3>1. k = i /\ row[i] # NoRow
      BY <1>1, <2>3, <2>5, <2>7 DEF Rows
    <3>2. Written(j, row[i]) = NoRow
      BY <1>1, <2>3, <2>5, <2>7, <3>1
    <3>3. j.job \in {"delete", "purge"}
      BY <2>2, <2>6, <3>1, <3>2 DEF OnRows
    <3>4. QED
      BY <2>3, <2>4, <2>7, <3>1, <3>3 DEF Knows
  <2>8. QED
    BY <2>7
<1>3. CASE RemoveRow(p)
  <2>1. Busy(p) /\ j.job = "remove" /\ j \in Job
    BY <1>3, CurrentIsJob DEF RemoveRow, Doing
  <2>2. j.id \in Ids /\ Knows(j, proc[p].todo, row, next, overtaken, judged)
    BY <2>1, JobFields DEF TriageInv
  <2>3. row' = [row EXCEPT ![j.id] = NoRow]
    BY <1>3 DEF RemoveRow
  <2> HIDE DEF j
  <2>4. \A k \in Rows : row'[k] = NoRow => k = j.id
    BY <1>1, <2>2, <2>3 DEF Rows
  <2>5. QED
    BY <2>1, <2>2, <2>4 DEF Knows, Rows
<1>4. CASE MarkApproved(p)
  <2> DEFINE w == [j.payload EXCEPT !.approved = TRUE]
  <2>1. Busy(p) /\ j.job = "mark" /\ j \in Job
    BY <1>4, CurrentIsJob DEF MarkApproved, Doing
  <2>2. j.id \in Ids /\ j.payload \in Row
    BY <2>1, JobFields
  <2>3. row' = [row EXCEPT ![j.id] = IF row[j.id] = NoRow THEN NoRow ELSE w]
    BY <1>4 DEF MarkApproved
  <2>4. w \in Row
    BY <2>2 DEF Row
  <2> HIDE DEF j, w
  <2>5. \A k \in Rows : row'[k] # NoRow
    BY <1>1, <2>2, <2>3, <2>4, RowIsRow DEF Rows
  <2>6. QED
    BY <2>5
<1>5. QED
  BY <1>2, <1>3, <1>4

\* The steps that leave every row where it is.
Still ==
  \E p \in Procs :
    \/ StartMining(p) \/ Scan(p) \/ ReadCount(p) \/ Load(p)
    \/ StartReview(p) \/ Find(p) \/ ReadPayload(p)
    \/ StartRun(p) \/ TriageGroups(p) \/ TurnToGroup(p) \/ Enable(p)
    \/ End(p) \/ Die(p)

\* They do.
LEMMA StillKeepsRows == ASSUME Still PROVE UNCHANGED <<setting, row, judged, overtaken>>
BY DEF Still, Started, StartMining, Scan, ReadCount, Load, StartReview, Find, ReadPayload,
       StartRun, TriageGroups, TurnToGroup, Enable, End, Die, history

\* Every step is one of them, writes, stores or uploads a row.
LEMMA StepForms ==
  ASSUME Next
  PROVE  \/ Still \/ \E p \in Procs : StoreCandidate(p)
         \/ \E p \in Procs : Write(p) \/ RemoveRow(p) \/ MarkApproved(p)
         \/ \E i \in Ids : Upload(i)
BY DEF Next, Step, Still

\* A candidate that is stored disturbs no other row.
LEMMA StoreKeepsRows ==
  ASSUME TriageInv, NEW p \in Procs, StoreCandidate(p)
  PROVE  /\ \A i \in Rows : row'[i] = row[i]
         /\ next \in Ids /\ row'[next] # NoRow /\ row'[next].lesson = Current(p).lesson
         /\ Current(p).lesson \in Lessons
<1>1. Busy(p) /\ Current(p) \in Job /\ Current(p).job = "store"
  BY CurrentIsJob DEF StoreCandidate, Doing
<1>2. Current(p).lesson \in Lessons
  BY <1>1, JobFields
<1>3. next \in Ids /\ \A i \in Rows : i \in Ids /\ i # next
  <2>1. NumRows \in Nat /\ next \in 1..NumRows + 1 /\ next <= NumRows
    BY MemoryTriageAssumption DEF StoreCandidate, TriageInv, TypeOK
  <2>2. \A i \in Rows : i \in Ids /\ i < next
    BY RowsTyped
  <2>3. QED
    BY <2>1, <2>2 DEF Ids
<1> DEFINE r == [lesson |-> Current(p).lesson, session |-> Current(p).session, evidence |-> 0,
                 triage |-> "none", ref |-> NoLesson, approved |-> FALSE]
<1>4. row \in [Ids -> Row \cup {NoRow}] /\ row' = [row EXCEPT ![next] = r]
  BY DEF StoreCandidate, TriageInv, TypeOK
<1>5. r.lesson = Current(p).lesson /\ r # NoRow
  BY <1>2, MemoryTriageAssumption DEF NoRow
<1> HIDE DEF r
<1>6. QED
  BY <1>2, <1>3, <1>4, <1>5

\* A row that goes was not approved, or is uploaded, or somebody had chosen it before it
\* was approved.
LEMMA ApprovedStays ==
  ASSUME TriageInv, [Next]_vars
  PROVE  \A i \in Rows : row[i].approved /\ row'[i] = NoRow => i \in overtaken \/ Upload(i)
<1>1. CASE UNCHANGED vars \/ Still
  <2>1. row' = row
    BY <1>1, StillKeepsRows DEF vars
  <2>2. QED
    BY <2>1 DEF Rows
<1>2. ASSUME NEW p \in Procs, StoreCandidate(p)
      PROVE  \A i \in Rows : row[i].approved /\ row'[i] = NoRow => i \in overtaken \/ Upload(i)
  BY <1>2, StoreKeepsRows DEF Rows
<1>3. ASSUME NEW p \in Procs, Write(p) \/ RemoveRow(p) \/ MarkApproved(p)
      PROVE  \A i \in Rows : row[i].approved /\ row'[i] = NoRow => i \in overtaken \/ Upload(i)
  BY <1>3, DeletedWasChosen
<1>4. ASSUME NEW k \in Ids, Upload(k)
      PROVE  \A i \in Rows : row[i].approved /\ row'[i] = NoRow => i \in overtaken \/ Upload(i)
  <2>1. row \in [Ids -> Row \cup {NoRow}] /\ row' = [row EXCEPT ![k] = NoRow]
    BY <1>4 DEF Upload, TriageInv, TypeOK
  <2>2. \A i \in Rows : row'[i] = NoRow => i = k
    BY <2>1 DEF Rows
  <2>3. QED
    BY <1>4, <2>2
<1>5. QED
  BY <1>1, <1>2, <1>3, <1>4, StepForms

\* Lessons newly reported as stored are backed.
LEMMA NewlyKept ==
  ASSUME TriageInv, Still PROVE \A l \in kept' : l \in kept \/ Backed(l, row, judged)
<1>1. ASSUME NEW p \in Procs, Scan(p)
      PROVE  \A l \in kept' : l \in kept \/ Backed(l, row, judged)
  <2> DEFINE j == Current(p)
  <2>1. kept' = kept \/ (kept' = kept \cup {j.lesson} /\ Matching(j.lesson) # {})
    BY <1>1 DEF Scan
  <2>2. Matching(j.lesson) # {} => Backed(j.lesson, row, judged)
    BY DEF Matching, Rows, Backed
  <2>3. QED
    BY <2>1, <2>2
<1>2. ASSUME NEW p \in Procs, ReadCount(p)
      PROVE  \A l \in kept' : l \in kept \/ Backed(l, row, judged)
  <2> DEFINE j == Current(p)
  <2>1. Busy(p) /\ j.job = "count" /\ kept' = kept \cup {j.lesson}
    BY <1>2 DEF ReadCount, Doing
  <2>2. Backed(j.lesson, row, judged)
    BY <2>1 DEF TriageInv, Knows
  <2>3. QED
    BY <2>1, <2>2
<1>3. ASSUME NEW p \in Procs,
             \/ StartMining(p) \/ Load(p) \/ StartReview(p) \/ Find(p) \/ ReadPayload(p)
             \/ StartRun(p) \/ TriageGroups(p) \/ TurnToGroup(p) \/ Enable(p)
             \/ End(p) \/ Die(p)
      PROVE  kept' = kept
  BY <1>3 DEF StartMining, Load, StartReview, Find, ReadPayload, StartRun, TriageGroups,
              TurnToGroup, Enable, End, Die, history
<1>4. QED
  BY <1>1, <1>2, <1>3 DEF Still

\* What miners report stays backed.
LEMMA NextMined ==
  ASSUME TriageInv, Promoted, \A l \in kept : Backed(l, row, judged), [Next]_vars
  PROVE  \A l \in kept' : Backed(l, row', judged')
<1>1. CASE UNCHANGED vars
  BY <1>1 DEF vars
<1>2. CASE Still
  <2>1. row' = row /\ judged' = judged
    BY <1>2, StillKeepsRows
  <2>2. QED
    BY <1>2, <2>1, NewlyKept
<1>3. ASSUME NEW p \in Procs, StoreCandidate(p) PROVE \A l \in kept' : Backed(l, row', judged')
  <2>1. Mild /\ kept' = kept \cup {Current(p).lesson}
    BY <1>3, StoreCandidateKeeps DEF StoreCandidate
  <2>2. Backed(Current(p).lesson, row', judged')
    BY <1>3, StoreKeepsRows DEF Backed
  <2>3. \A l \in kept : Backed(l, row', judged')
    BY <2>1, BackedStays
  <2>4. QED
    BY <2>1, <2>2, <2>3
<1>4. ASSUME NEW p \in Procs, Write(p) \/ RemoveRow(p) \/ MarkApproved(p)
      PROVE  \A l \in kept' : Backed(l, row', judged')
  <2>1. Mild
    BY <1>4, WriteKeeps, RemoveRowKeeps, MarkApprovedKeeps
  <2>2. kept' = kept
    BY <1>4 DEF Write, RemoveRow, MarkApproved
  <2>3. QED
    BY <2>1, <2>2, BackedStays
<1>5. ASSUME NEW i \in Ids, Upload(i) PROVE \A l \in kept' : Backed(l, row', judged')
  <2>1. Mild /\ kept' = kept
    BY <1>5, UploadKeeps DEF Upload
  <2>2. QED
    BY <2>1, BackedStays
<1>6. QED
  BY <1>1, <1>2, <1>3, <1>4, <1>5, StepForms

-----------------------------------------------------------------------------
(* What a run hides                                                        *)

\* The jobs that neither hide nor delete a row but at a user's word, and those of
\* the triage of a run.
Harmless == {"mine", "store", "count", "evidence", "approve", "also", "reject", "read",
             "mark", "remove"}
OfTriage == {"purge", "clear", "delete", "triage", "fold", "gather", "evidence"}

\* What a run may have made of a planned candidate c, whose row is now r, when it
\* deletes the topics D and hides lessons as the pairs in H say: the row is gone only
\* for a topic in D, at a user's word, or uploaded.
RowGood(c, r, D, H, said) ==
  /\ r # NoRow =>
       /\ r.lesson = c.lesson /\ r.triage # "dropped"
       /\ r.triage = "superseded" => r.approved \/ <<c.lesson, r.ref>> \in H
  /\ r = NoRow => Topic[c.lesson] \in D \/ c.lesson \in said

\* The candidate needs no deletion any more, or it is still to come.
Settled(r) == r = NoRow \/ r.approved
Deletes(j, l) == (j.job = "clear" /\ l \in j.from) \/ (j.job = "delete" /\ j.lesson = l)
Awaited(c, q) ==
  \E k \in 1..Len(q.jobs) :
    Deletes(q.jobs[k], c.lesson) /\ (k = 1 /\ q.loaded => c.id \in q.todo)

\* A job of the triage deletes topics in D and hides as H says.
JobGood(j, D, H) ==
  /\ j.job \in OfTriage
  /\ \A l \in Lessons : Deletes(j, l) => Topic[l] \in D
  /\ j.job = "triage" => <<j.lesson, j.to>> \in H
  /\ j.job \in {"fold", "gather"} => \A l \in j.from \ {j.to} : <<l, j.to>> \in H

\* A run in its triage.
Good(q, D, H, table, n, said) ==
  /\ \A c \in q.plan : c.id < n /\ RowGood(c, table[c.id], D, H, said)
  /\ \A c \in q.plan : Topic[c.lesson] \in D => Settled(table[c.id]) \/ Awaited(c, q)
  /\ \A k \in 1..Len(q.jobs) : JobGood(q.jobs[k], D, H)

\* What an answer hides: a lesson behind the one that stands for its group, or behind
\* the one of the group it is folded into.
Hides(q, d) ==
  {h \in Lessons \X Lessons :
     LET t == Topic[h[1]]
     IN /\ t \in DOMAIN d
        /\ \/ h[2] = Canonical(q, t) /\ h[1] # h[2]
           \/ t \in Touched(d) /\ d[t] # "delete" /\ h[2] = Canonical(q, d[t])}
Clears(q, d) == q.covered \cup DeletionTargets(d)

\* The run follows an answer.
Follows(q, d, table, n, said) ==
  /\ d \in Answers(q) /\ q.circular = Circular(d)
  /\ Good(q, Clears(q, d), Hides(q, d), table, n, said)

\* There is one run at a time; only its jobs hide or delete; in its triage it is good.
FoldInv ==
  /\ \A p, o \in Procs : Running(p) /\ Running(o) => p = o
  /\ \A p \in Procs : proc[p].stage \notin {"clean", "fold"} =>
       \A k \in 1..Len(proc[p].jobs) : proc[p].jobs[k].job \in Harmless
  /\ \A p \in Procs : proc[p].stage = "clean" =>
       Good(proc[p], proc[p].covered, {}, row, next, reviewed)
  /\ \A p \in Procs : proc[p].stage = "fold" =>
       \E d \in Answers(proc[p]) : Follows(proc[p], d, row, next, reviewed)

\* A sequence that repeats nothing and is as long as a set has members has them all.
LEMMA NoneMissed ==
  ASSUME NEW S, IsFiniteSet(S), NEW f \in [1..Cardinality(S) -> S], IsInjective(f)
  PROVE  Len(f) = Cardinality(S) /\ \A x \in S : \E k \in 1..Len(f) : f[k] = x
<1> DEFINE n == Cardinality(S)
<1>1. n \in Nat
  BY FS_CardinalityType
<1>2. IsFiniteSet(1..n) /\ Cardinality(1..n) = n
  <2>1. 1 \in Int /\ n \in Int /\ (IF 1 > n THEN 0 ELSE n - 1 + 1) = n
    BY <1>1
  <2> HIDE DEF n
  <2>2. QED
    BY <2>1, FS_Interval
<1>3. f \in Injection(1..n, S)
  BY DEF Injection
<1>4. f \in Surjection(1..n, S)
  BY <1>2, <1>3, FS_Injection
<1>5. Len(f) = n
  BY <1>1
<1>6. \A x \in S : \E k \in 1..n : f[k] = x
  BY <1>4 DEF Surjection
<1>7. QED
  BY <1>5, <1>6

\* So SetToSeq leaves nothing out.
LEMMA ListedAll ==
  ASSUME NEW S, IsFiniteSet(S)
  PROVE  \A x \in S : \E k \in 1..Len(SetToSeq(S)) : SetToSeq(S)[k] = x
BY Listed, NoneMissed

\* The sequence holds f[x] for each x in S, and nothing else.
Holds(s, S, f) ==
  /\ \A x \in S : \E k \in 1..Len(s) : s[k] = f[x]
  /\ \A k \in 1..Len(s) : \E x \in S : s[k] = f[x]

\* So it is with the jobs f[x] for x in a finite set.
LEMMA ListedOfAll ==
  ASSUME NEW S, IsFiniteSet(S), NEW f, f = [x \in S |-> f[x]]
  PROVE  Holds(SetToSeq({f[x] : x \in S}), S, f)
<1> DEFINE T == {f[x] : x \in S}
           s == SetToSeq(T)
<1>1. IsFiniteSet(T)
  BY RangeFinite
<1> HIDE DEF T
<1>2. \A y \in T : \E k \in 1..Len(s) : s[k] = y
  BY <1>1, ListedAll
<1>3. Cardinality(T) \in Nat /\ s \in [1..Cardinality(T) -> T]
  BY <1>1, Listed
<1>4. \A k \in 1..Len(s) : s[k] \in T
  BY <1>3
<1> HIDE DEF s
<1>5. Holds(s, S, f)
  BY <1>2, <1>4 DEF T, Holds
<1>6. QED
  BY <1>5 DEF s, T

\* A sequence with its first member replaced by others.
Replaced(old, js) == js \o Tail(old)
Consists(new, old, js) ==
  /\ \A k \in 1..Len(js) : k \in 1..Len(new) /\ new[k] = js[k]
  /\ \A k \in 2..Len(old) : \E m \in 1..Len(new) : new[m] = old[k]
  /\ \A m \in 1..Len(new) : \/ \E k \in 1..Len(js) : new[m] = js[k]
                            \/ \E k \in 2..Len(old) : new[m] = old[k]

\* Its members are those others and those behind the first.
LEMMA ThenJobs ==
  ASSUME NEW X, NEW old \in Seq(X), old # <<>>, NEW js \in Seq(X)
  PROVE  Consists(Replaced(old, js), old, js)
<1> DEFINE t == Tail(old)
           new == Replaced(old, js)
<1>1. Len(old) \in Nat /\ Len(js) \in Nat /\ Len(old) > 0
  OBVIOUS
<1>2. t \in Seq(X) /\ Len(t) = Len(old) - 1 /\ \A k \in 1..Len(t) : t[k] = old[k + 1]
  BY <1>1
<1> HIDE DEF t
<1>3. new \in Seq(X) /\ Len(new) = Len(js) + Len(t)
      /\ \A k \in 1..Len(new) : new[k] = IF k <= Len(js) THEN js[k] ELSE t[k - Len(js)]
  <2> DEFINE u == js \o t
  <2>1. t \in Seq(X)
    BY <1>2
  <2>2. u \in Seq(X) /\ Len(u) = Len(js) + Len(t)
        /\ \A k \in 1..Len(u) : u[k] = IF k <= Len(js) THEN js[k] ELSE t[k - Len(js)]
    BY <2>1
  <2>3. new = u
    BY DEF t, Replaced
  <2> HIDE DEF u, new
  <2>4. QED
    BY <2>2, <2>3
<1> HIDE DEF new
<1>4. ASSUME NEW k \in 1..Len(js) PROVE k \in 1..Len(new) /\ new[k] = js[k]
  <2>1. k \in 1..Len(new) /\ k <= Len(js)
    BY <1>1, <1>2, <1>3
  <2>2. QED
    BY <1>3, <2>1
<1>5. ASSUME NEW k \in 2..Len(old) PROVE \E m \in 1..Len(new) : new[m] = old[k]
  <2> DEFINE m == Len(js) + k - 1
  <2>1. /\ m \in 1..Len(new) /\ ~(m <= Len(js)) /\ m - Len(js) = k - 1 /\ k - 1 \in 1..Len(t)
        /\ (k - 1) + 1 = k
    BY <1>1, <1>2, <1>3
  <2> HIDE DEF m
  <2>2. new[m] = t[k - 1] /\ t[k - 1] = old[(k - 1) + 1]
    BY <1>2, <1>3, <2>1
  <2>3. QED
    BY <2>1, <2>2
<1>6. ASSUME NEW m \in 1..Len(new)
      PROVE  \/ \E k \in 1..Len(js) : new[m] = js[k]
             \/ \E k \in 2..Len(old) : new[m] = old[k]
  <2>1. CASE m <= Len(js)
    <3>1. m \in 1..Len(js)
      BY <1>1, <1>2, <1>3, <2>1
    <3>2. QED
      BY <1>3, <2>1, <3>1
  <2>2. CASE ~(m <= Len(js))
    <3> DEFINE k == m - Len(js) + 1
    <3>1. m - Len(js) \in 1..Len(t) /\ k \in 2..Len(old)
      BY <1>1, <1>2, <1>3, <2>2
    <3>2. new[m] = t[m - Len(js)]
      BY <1>3, <2>2
    <3>3. t[m - Len(js)] = old[k]
      BY <1>2, <3>1
    <3> HIDE DEF k
    <3>4. QED
      BY <3>1, <3>2, <3>3
  <2>3. QED
    BY <2>1, <2>2
<1>7. QED
  BY <1>4, <1>5, <1>6 DEF new, Consists

\* A run that has replaced its job is good if what it still has to delete is awaited.
LEMMA GoodThen ==
  ASSUME NEW q, Fine(q), q.jobs # <<>>, NEW js \in Seq(Job),
         \A k \in 2..Len(js) : js[k].job \in Queued,
         NEW D, NEW H, NEW table, NEW n, NEW said,
         \A c \in q.plan : c.id < n /\ RowGood(c, table[c.id], D, H, said),
         \A k \in 1..Len(js) : JobGood(js[k], D, H),
         \A k \in 2..Len(q.jobs) : JobGood(q.jobs[k], D, H),
         \A c \in q.plan : Topic[c.lesson] \in D =>
           \/ Settled(table[c.id])
           \/ \E k \in 1..Len(js) : Deletes(js[k], c.lesson)
           \/ \E k \in 2..Len(q.jobs) : Deletes(q.jobs[k], c.lesson)
  PROVE  Good(Then(q, js), D, H, table, n, said)
<1> DEFINE z == Then(q, js)
<1>1. z.jobs = js \o Tail(q.jobs) /\ z.loaded = FALSE /\ z.plan = q.plan
  BY ThenFine
<1> HIDE DEF z
<1>2. q.jobs \in Seq(Job)
  BY DEF Fine, Process
<1>3. /\ \A k \in 1..Len(js) : k \in 1..Len(z.jobs) /\ z.jobs[k] = js[k]
      /\ \A k \in 2..Len(q.jobs) : \E m \in 1..Len(z.jobs) : z.jobs[m] = q.jobs[k]
      /\ \A m \in 1..Len(z.jobs) : \/ \E k \in 1..Len(js) : z.jobs[m] = js[k]
                                   \/ \E k \in 2..Len(q.jobs) : z.jobs[m] = q.jobs[k]
  <2>1. z.jobs = Replaced(q.jobs, js)
    BY <1>1 DEF Replaced
  <2>2. Consists(z.jobs, q.jobs, js)
    BY <1>2, <2>1, ThenJobs
  <2>3. QED
    BY <2>2 DEF Consists
<1>4. \A m \in 1..Len(z.jobs) : JobGood(z.jobs[m], D, H)
  BY <1>3
<1>5. \A c \in z.plan : Topic[c.lesson] \in D => Settled(table[c.id]) \/ Awaited(c, z)
  <2> SUFFICES ASSUME NEW c \in q.plan, Topic[c.lesson] \in D, ~Settled(table[c.id])
               PROVE  \E m \in 1..Len(z.jobs) : Deletes(z.jobs[m], c.lesson)
    BY <1>1 DEF Awaited
  <2>1. CASE \E k \in 1..Len(js) : Deletes(js[k], c.lesson)
    BY <1>3, <2>1
  <2>2. CASE \E k \in 2..Len(q.jobs) : Deletes(q.jobs[k], c.lesson)
    BY <1>3, <2>2
  <2>3. QED
    BY <2>1, <2>2
<1>6. Good(z, D, H, table, n, said)
  BY <1>1, <1>4, <1>5 DEF Good
<1>7. QED
  BY <1>6 DEF z

\* What miners, reviewers and drains do to the table: a row goes only at a user's word or
\* uploaded, and what is hidden stays as it is, unless the row is approved.
Gentle ==
  /\ reviewed \subseteq reviewed' /\ next' \in Nat /\ next' >= next
  /\ \A i \in Ids : i < next =>
       /\ row'[i] = NoRow => row[i] = NoRow \/ row[i].lesson \in reviewed'
       /\ row'[i] # NoRow =>
            /\ row[i] # NoRow /\ SameMemory(row'[i], row[i])
            /\ row[i].approved => row'[i].approved
            /\ row'[i].approved \/ (row'[i].triage = row[i].triage /\ row'[i].ref = row[i].ref)

\* A run stays good meanwhile.
LEMMA GentleKeepsGood ==
  ASSUME TriageInv, Gentle, NEW o \in Procs, NEW D, NEW H,
         Good(proc[o], D, H, row, next, reviewed)
  PROVE  Good(proc[o], D, H, row', next', reviewed')
<1> DEFINE q == proc[o]
<1>1. next \in Nat /\ next' \in Nat /\ next' >= next /\ Ids \subseteq Nat
  BY IdsFinite, MemoryTriageAssumption DEF TriageInv, TypeOK, Gentle
<1>2. \A c \in q.plan : c.id \in Ids
  BY ProcPlanned DEF Planned, Candidate
<1> HIDE DEF q
<1>3. Good(q, D, H, row, next, reviewed)
  BY DEF q
<1>4. ASSUME NEW c \in q.plan
      PROVE  /\ c.id < next' /\ RowGood(c, row'[c.id], D, H, reviewed')
             /\ Settled(row[c.id]) => Settled(row'[c.id])
  <2>1. c.id \in Ids /\ c.id < next /\ RowGood(c, row[c.id], D, H, reviewed)
    BY <1>2, <1>3 DEF Good
  <2>2. c.id < next'
    <3>1. c.id \in Nat /\ c.id < next
      BY <1>1, <2>1
    <3>2. QED
      BY <1>1, <3>1
  <2> DEFINE r == row[c.id]
             s == row'[c.id]
  <2>3. /\ reviewed \subseteq reviewed'
        /\ s = NoRow => r = NoRow \/ r.lesson \in reviewed'
        /\ s # NoRow =>
             /\ r # NoRow /\ s.lesson = r.lesson /\ (s.triage = "dropped" <=> r.triage = "dropped")
             /\ r.approved => s.approved
             /\ s.approved \/ (s.triage = r.triage /\ s.ref = r.ref)
    BY <2>1 DEF Gentle, SameMemory
  <2>4. RowGood(c, r, D, H, reviewed)
    BY <2>1
  <2> HIDE DEF r, s
  <2>5. RowGood(c, s, D, H, reviewed') /\ (Settled(r) => Settled(s))
    BY <2>3, <2>4 DEF RowGood, Settled
  <2>6. QED
    BY <2>2, <2>5 DEF r, s
<1>5. Good(q, D, H, row', next', reviewed')
  BY <1>3, <1>4 DEF Good
<1>6. QED
  BY <1>5 DEF q

\* A step of a process keeps FoldInv if the process ends where the invariant wants it,
\* and is gentle unless the process is the run.
LEMMA FoldStep ==
  ASSUME TriageInv, FoldInv, NEW p \in Procs, NEW z,
         proc' = [proc EXCEPT ![p] = z], setting' = setting, Gentle \/ Running(p),
         z.stage \in {"clean", "fold", "end"} => \A o \in Procs \ {p} : ~Running(o),
         z.stage \notin {"clean", "fold"} =>
           \A k \in 1..Len(z.jobs) : z.jobs[k].job \in Harmless,
         z.stage = "clean" => Good(z, z.covered, {}, row', next', reviewed'),
         z.stage = "fold" => \E d \in Answers(z) : Follows(z, d, row', next', reviewed')
  PROVE  FoldInv'
<1>1. Procs' = Procs /\ Procs \subseteq AllProcs
  BY ProcFine DEF Procs
<1>2. proc \in [AllProcs -> Process]
  BY DEF TriageInv, TypeOK
<1>3. \A o \in Procs : proc'[o] = IF o = p THEN z ELSE proc[o]
  BY <1>1, <1>2
<1>4. ASSUME NEW o \in Procs, o # p, proc[o].stage \in {"clean", "fold"}
      PROVE  Gentle
  <2>1. Running(o)
    BY <1>4 DEF Running
  <2>2. ~Running(p)
    BY <1>4, <2>1 DEF FoldInv
  <2>3. QED
    BY <2>2
<1>5. ASSUME NEW o \in Procs, proc'[o].stage = "clean"
      PROVE  Good(proc'[o], proc'[o].covered, {}, row', next', reviewed')
  <2>1. CASE o = p
    BY <1>3, <1>5, <2>1
  <2>2. CASE o # p
    <3>1. proc'[o] = proc[o] /\ Good(proc[o], proc[o].covered, {}, row, next, reviewed)
      BY <1>3, <1>5, <2>2 DEF FoldInv
    <3>2. Gentle
      BY <1>4, <1>5, <2>2, <3>1
    <3>3. QED
      BY <3>1, <3>2, GentleKeepsGood
  <2>3. QED
    BY <2>1, <2>2
<1>6. ASSUME NEW o \in Procs, proc'[o].stage = "fold"
      PROVE  \E d \in Answers(proc'[o]) : Follows(proc'[o], d, row', next', reviewed')
  <2>1. CASE o = p
    BY <1>3, <1>6, <2>1
  <2>2. CASE o # p
    <3>1. proc'[o] = proc[o]
      BY <1>3, <2>2
    <3>2. PICK d \in Answers(proc[o]) : Follows(proc[o], d, row, next, reviewed)
      BY <1>6, <3>1 DEF FoldInv
    <3>3. Gentle
      BY <1>4, <1>6, <2>2, <3>1
    <3>4. Good(proc[o], Clears(proc[o], d), Hides(proc[o], d), row', next', reviewed')
      BY <3>2, <3>3, GentleKeepsGood DEF Follows
    <3>5. Follows(proc[o], d, row', next', reviewed')
      BY <3>2, <3>4 DEF Follows
    <3>6. QED
      BY <3>1, <3>5
  <2>3. QED
    BY <2>1, <2>2
<1>7. \A a, o \in Procs : Running(a)' /\ Running(o)' => a = o
  <2> SUFFICES ASSUME NEW a \in Procs, NEW o \in Procs, Running(a)', Running(o)' PROVE a = o
    OBVIOUS
  <2>1. CASE a # p /\ o # p
    BY <1>3, <2>1 DEF FoldInv, Running
  <2>2. CASE a = p /\ o # p
    BY <1>3, <2>2 DEF Running
  <2>3. CASE a # p /\ o = p
    BY <1>3, <2>3 DEF Running
  <2>4. QED
    BY <2>1, <2>2, <2>3
<1>8. \A o \in Procs : proc'[o].stage \notin {"clean", "fold"} =>
        \A k \in 1..Len(proc'[o].jobs) : proc'[o].jobs[k].job \in Harmless
  BY <1>3 DEF FoldInv
<1>9. QED
  BY <1>1, <1>5, <1>6, <1>7, <1>8 DEF FoldInv

\* The candidate Canonical takes.
Strongest(M) == CHOOSE c \in M : \A d \in M \ {c} : Stronger(c, d)

\* Two processes with the same plan are of one mind.
LEMMA SamePlan ==
  ASSUME NEW q, NEW z, z.plan = q.plan, z.covered = q.covered
  PROVE  /\ Answers(z) = Answers(q)
         /\ \A d : Hides(z, d) = Hides(q, d) /\ Clears(z, d) = Clears(q, d)
<1>1. GroupsOf(z) = GroupsOf(q) /\ \A t : Members(z, t) = Members(q, t)
  BY DEF GroupsOf, Members
<1>2. ASSUME NEW t PROVE Canonical(z, t) = Canonical(q, t)
  <2>1. /\ Canonical(z, t) = Strongest(Members(z, t)).lesson
        /\ Canonical(q, t) = Strongest(Members(q, t)).lesson
    BY DEF Canonical, Strongest
  <2>2. QED
    BY <1>1, <2>1
<1>3. Answers(z) = Answers(q)
  BY <1>1 DEF Answers
<1>4. QED
  BY <1>2, <1>3 DEF Hides, Clears

\* A step within the triage keeps FoldInv if it keeps the run good for any topics and
\* pairs.
LEMMA TriageStep ==
  ASSUME TriageInv, FoldInv, NEW p \in Procs, NEW z, proc' = [proc EXCEPT ![p] = z],
         setting' = setting, proc[p].stage \in {"clean", "fold"},
         z.stage = proc[p].stage, z.plan = proc[p].plan, z.covered = proc[p].covered,
         z.circular = proc[p].circular,
         \A D, H : Good(proc[p], D, H, row, next, reviewed) =>
                     Good(z, D, H, row', next', reviewed')
  PROVE  FoldInv'
<1>1. Running(p)
  BY DEF Running
<1>2. \A o \in Procs \ {p} : ~Running(o)
  BY <1>1 DEF FoldInv
<1>3. z.stage = "clean" => Good(z, z.covered, {}, row', next', reviewed')
  BY DEF FoldInv
<1>4. ASSUME z.stage = "fold" PROVE \E d \in Answers(z) : Follows(z, d, row', next', reviewed')
  <2> DEFINE q == proc[p]
  <2>1. PICK d \in Answers(q) : Follows(q, d, row, next, reviewed)
    BY <1>4 DEF FoldInv
  <2>2. Answers(z) = Answers(q) /\ Hides(z, d) = Hides(q, d) /\ Clears(z, d) = Clears(q, d)
    BY SamePlan
  <2>3. Good(z, Clears(q, d), Hides(q, d), row', next', reviewed')
    BY <2>1 DEF Follows
  <2> HIDE DEF q
  <2>4. Follows(z, d, row', next', reviewed')
    BY <2>1, <2>2, <2>3 DEF Follows, q
  <2>5. QED
    BY <2>1, <2>2, <2>4
<1>5. z.stage \in {"clean", "fold"}
  OBVIOUS
<1>6. QED
  BY <1>1, <1>2, <1>3, <1>4, <1>5, FoldStep

\* A step that leaves the table alone is gentle.
LEMMA QuietIsGentle == ASSUME TriageInv, UNCHANGED <<row, next, reviewed>> PROVE Gentle
<1>1. next \in Nat
  BY MemoryTriageAssumption DEF TriageInv, TypeOK
<1>2. QED
  BY <1>1 DEF Gentle, SameMemory

\* A process with a job that is not of the triage is not in it.
LEMMA NotInTriage ==
  ASSUME TriageInv, FoldInv, NEW p \in Procs, Busy(p), Current(p).job \notin OfTriage
  PROVE  proc[p].stage \notin {"clean", "fold"}
<1> DEFINE q == proc[p]
<1>1. q.jobs \in Seq(Job) /\ q.jobs # <<>>
  BY CurrentIsJob DEF Busy
<1>2. 1 \in 1..Len(q.jobs) /\ Current(p) = q.jobs[1]
  BY <1>1 DEF Current
<1>3. ASSUME NEW D, NEW H, Good(q, D, H, row, next, reviewed) PROVE FALSE
  BY <1>2, <1>3 DEF Good, JobGood
<1>4. CASE q.stage = "clean"
  BY <1>3, <1>4 DEF FoldInv
<1>5. CASE q.stage = "fold"
  BY <1>3, <1>5 DEF FoldInv, Follows
<1>6. QED
  BY <1>4, <1>5

\* A step outside the triage keeps FoldInv.
LEMMA OutsideKeeps ==
  ASSUME TriageInv, FoldInv, NEW p \in Procs, NEW z, proc' = [proc EXCEPT ![p] = z],
         setting' = setting, Gentle, proc[p].stage \notin {"clean", "fold"},
         z.stage = proc[p].stage, \A k \in 1..Len(z.jobs) : z.jobs[k].job \in Harmless
  PROVE  FoldInv'
<1>1. z.stage = "end" => \A o \in Procs \ {p} : ~Running(o)
  BY DEF FoldInv, Running
<1>2. QED
  BY <1>1, FoldStep

\* So does one that replaces a job by one that is harmless, or drops it.
LEMMA HarmlessKeeps ==
  ASSUME TriageInv, FoldInv, NEW p \in Procs, Busy(p), Current(p).job \notin OfTriage,
         NEW j, j.job \in Harmless, setting' = setting, Gentle,
         \/ proc' = [proc EXCEPT ![p] = Then(proc[p], <<>>)]
         \/ proc' = [proc EXCEPT ![p] = Then(proc[p], <<j>>)]
         \/ proc' = [proc EXCEPT ![p] = [proc[p] EXCEPT !.jobs = <<>>]]
  PROVE  FoldInv'
<1> DEFINE q == proc[p]
           X == Job \cup {j}
<1>1. q \in Process /\ q.jobs \in Seq(Job) /\ q.jobs # <<>>
  BY ProcFine, CurrentIsJob DEF Fine, Busy
<1>2. q.stage \notin {"clean", "fold"}
  BY NotInTriage
<1>3. \A k \in 1..Len(q.jobs) : q.jobs[k].job \in Harmless
  BY <1>2 DEF FoldInv
<1> HIDE DEF q
<1>4. q.jobs \in Seq(X) /\ <<>> \in Seq(X) /\ <<j>> \in Seq(X)
  BY <1>1
<1>5. ASSUME NEW js \in Seq(X), \A k \in 1..Len(js) : js[k].job \in Harmless,
             proc' = [proc EXCEPT ![p] = Then(q, js)]
      PROVE  FoldInv'
  <2> DEFINE z == Then(q, js)
             new == Replaced(q.jobs, js)
  <2>1. z.jobs = new /\ z.stage = q.stage
    <3> HIDE DEF new
    <3>1. z = [q EXCEPT !.jobs = new, !.todo = {}, !.loaded = FALSE]
      BY DEF Then, new, Replaced
    <3> HIDE DEF z
    <3>2. QED
      BY <1>1, <3>1 DEF Process
  <2>2. Consists(new, q.jobs, js)
    <3> HIDE DEF X
    <3> QED
      BY <1>1, <1>4, ThenJobs
  <2> HIDE DEF new
  <2>3. \A m \in 1..Len(new) : new[m].job \in Harmless
    <3> SUFFICES ASSUME NEW m \in 1..Len(new) PROVE new[m].job \in Harmless
      OBVIOUS
    <3>1. CASE \E k \in 1..Len(js) : new[m] = js[k]
      BY <1>5, <3>1
    <3>2. ASSUME NEW k \in 2..Len(q.jobs), new[m] = q.jobs[k] PROVE new[m].job \in Harmless
      <4>1. k \in 1..Len(q.jobs)
        BY <1>1
      <4>2. QED
        BY <1>3, <3>2, <4>1
    <3>3. QED
      BY <2>2, <3>1, <3>2 DEF Consists
  <2> HIDE DEF z
  <2>4. proc' = [proc EXCEPT ![p] = z]
    BY <1>5 DEF z
  <2>5. QED
    BY <1>2, <2>1, <2>3, <2>4, OutsideKeeps DEF q
<1>6. CASE proc' = [proc EXCEPT ![p] = Then(q, <<>>)]
  <2>1. \A k \in 1..Len(<<>>) : FALSE
    OBVIOUS
  <2>2. QED
    BY <1>4, <1>5, <1>6, <2>1
<1>7. CASE proc' = [proc EXCEPT ![p] = Then(q, <<j>>)]
  <2> DEFINE js == <<j>>
  <2>1. js \in Seq(X) /\ Len(js) = 1 /\ js[1] = j
    BY <1>4
  <2> HIDE DEF js
  <2>2. \A k \in 1..Len(js) : js[k].job \in Harmless
    BY <2>1
  <2>3. proc' = [proc EXCEPT ![p] = Then(q, js)]
    BY <1>7 DEF js
  <2>4. QED
    BY <1>5, <2>1, <2>2, <2>3
<1>8. CASE proc' = [proc EXCEPT ![p] = [q EXCEPT !.jobs = <<>>]]
  <2> DEFINE none == <<>>
             z == [q EXCEPT !.jobs = none]
  <2>1. Len(none) = 0
    OBVIOUS
  <2> HIDE DEF none
  <2>2. z.jobs = none /\ z.stage = q.stage
    BY <1>1 DEF Process
  <2>3. proc' = [proc EXCEPT ![p] = z]
    BY <1>8 DEF none
  <2> HIDE DEF z
  <2>4. \A k \in 1..Len(z.jobs) : z.jobs[k].job \in Harmless
    BY <2>1, <2>2
  <2>5. QED
    BY <1>2, <2>2, <2>3, <2>4, OutsideKeeps DEF q
<1>9. QED
  BY <1>6, <1>7, <1>8 DEF q

\* What miners and reviewers do.
LEMMA VisitorsKeep ==
  ASSUME TriageInv, FoldInv, NEW p \in Procs,
         \/ Scan(p) \/ ReadCount(p) \/ StoreCandidate(p)
         \/ Find(p) \/ ReadPayload(p) \/ MarkApproved(p) \/ RemoveRow(p)
  PROVE  FoldInv'
<1> DEFINE Some == CHOOSE x : x \in [job : {"mine"}]
<1>1. Some.job \in Harmless
  <2>1. [job |-> "mine"] \in [job : {"mine"}]
    OBVIOUS
  <2>2. Some \in [job : {"mine"}]
    BY <2>1
  <2>3. QED
    BY <2>2 DEF Harmless
<1> HIDE DEF Some
<1>2. CASE Scan(p)
  <2>1. Busy(p) /\ Current(p).job \notin OfTriage /\ setting' = setting
    BY <1>2 DEF Scan, Doing, OfTriage
  <2>2. Gentle
    BY <1>2, QuietIsGentle DEF Scan
  <2>3. \/ proc' = [proc EXCEPT ![p] = Then(proc[p], <<>>)]
        \/ \E j : j.job \in Harmless /\ proc' = [proc EXCEPT ![p] = Then(proc[p], <<j>>)]
    <3>1. /\ \A l, s : Store(l, s).job \in Harmless
          /\ \A l, m, b : Count(l, m, b).job \in Harmless
      BY DEF Store, Count, Harmless
    <3>2. QED
      BY <1>2, <3>1 DEF Scan
  <2>4. QED
    BY <1>1, <2>1, <2>2, <2>3, HarmlessKeeps
<1>3. CASE ReadCount(p)
  <2>1. Busy(p) /\ Current(p).job \notin OfTriage /\ setting' = setting
    BY <1>3 DEF ReadCount, Doing, OfTriage
  <2>2. Gentle
    BY <1>3, QuietIsGentle DEF ReadCount
  <2>3. \/ proc' = [proc EXCEPT ![p] = Then(proc[p], <<>>)]
        \/ \E j : j.job \in Harmless /\ proc' = [proc EXCEPT ![p] = Then(proc[p], <<j>>)]
    <3>1. \A l, n : SetEvidence(l, n).job \in Harmless
      BY DEF SetEvidence, Harmless
    <3>2. QED
      BY <1>3, <3>1 DEF ReadCount
  <2>4. QED
    BY <1>1, <2>1, <2>2, <2>3, HarmlessKeeps
<1>4. CASE StoreCandidate(p)
  <2>1. Busy(p) /\ Current(p).job \notin OfTriage /\ setting' = setting
    BY <1>4 DEF StoreCandidate, Doing, OfTriage
  <2>2. proc' = [proc EXCEPT ![p] = Then(proc[p], <<>>)] /\ reviewed' = reviewed
    BY <1>4 DEF StoreCandidate
  <2>3. Gentle
    <3>1. Mild
      BY <1>4, StoreCandidateKeeps
    <3>2. ASSUME NEW i \in Ids, i < next PROVE row'[i] = row[i]
      <4>1. i # next
        BY <3>2, IdsFinite, MemoryTriageAssumption DEF TriageInv, TypeOK
      <4>2. row \in [Ids -> Row \cup {NoRow}]
        BY DEF TriageInv, TypeOK
      <4>3. QED
        BY <1>4, <4>1, <4>2 DEF StoreCandidate
    <3>3. QED
      BY <2>2, <3>1, <3>2 DEF Mild, Gentle, SameMemory
  <2>4. QED
    BY <1>1, <2>1, <2>2, <2>3, HarmlessKeeps
<1>5. CASE Find(p)
  <2>1. Busy(p) /\ Current(p).job \notin OfTriage /\ setting' = setting
    BY <1>5 DEF Find, OfTriage
  <2>2. Gentle
    BY <1>5, QuietIsGentle DEF Find, history
  <2>3. \/ proc' = [proc EXCEPT ![p] = Then(proc[p], <<>>)]
        \/ \E j : j.job \in Harmless /\ proc' = [proc EXCEPT ![p] = Then(proc[p], <<j>>)]
        \/ proc' = [proc EXCEPT ![p] = [proc[p] EXCEPT !.jobs = <<>>]]
    <3>1. \A i : Read(i).job \in Harmless /\ RemoveId(i).job \in Harmless
      BY DEF Read, RemoveId, Harmless
    <3>2. QED
      BY <1>5, <3>1 DEF Find
  <2>4. QED
    BY <1>1, <2>1, <2>2, <2>3, HarmlessKeeps
<1>6. CASE ReadPayload(p)
  <2>1. Busy(p) /\ Current(p).job \notin OfTriage /\ setting' = setting
    BY <1>6 DEF ReadPayload, Doing, OfTriage
  <2>2. Gentle
    BY <1>6, QuietIsGentle DEF ReadPayload, history
  <2>3. \/ \E j : j.job \in Harmless /\ proc' = [proc EXCEPT ![p] = Then(proc[p], <<j>>)]
        \/ proc' = [proc EXCEPT ![p] = [proc[p] EXCEPT !.jobs = <<>>]]
    <3>1. \A i, r : Mark(i, r).job \in Harmless
      BY DEF Mark, Harmless
    <3>2. QED
      BY <1>6, <3>1 DEF ReadPayload
  <2>4. QED
    BY <1>1, <2>1, <2>2, <2>3, HarmlessKeeps
<1>7. CASE MarkApproved(p)
  <2> DEFINE j == Current(p)
  <2>1. Busy(p) /\ j.job \notin OfTriage /\ setting' = setting
    BY <1>7 DEF MarkApproved, Doing, OfTriage
  <2>2. proc' = [proc EXCEPT ![p] = Then(proc[p], <<>>)] /\ reviewed' = reviewed
    BY <1>7 DEF MarkApproved
  <2>3. Gentle
    <3>1. Mild
      BY <1>7, MarkApprovedKeeps
    <3>2. j.id \in Ids /\ j.payload \in Row
      BY <1>7, CurrentIsJob, JobFields DEF MarkApproved, Doing
    <3> DEFINE w == [j.payload EXCEPT !.approved = TRUE]
    <3>3. w.approved = TRUE /\ w \in Row
      BY <3>2 DEF Row
    <3>4. row \in [Ids -> Row \cup {NoRow}]
          /\ row' = [row EXCEPT ![j.id] = IF row[j.id] = NoRow THEN NoRow ELSE w]
      BY <1>7 DEF MarkApproved, TriageInv, TypeOK
    <3> HIDE DEF w, j
    <3>5. ASSUME NEW i \in Ids
          PROVE  \/ row'[i] = row[i]
                 \/ row'[i] # NoRow /\ row[i] # NoRow /\ row'[i].approved = TRUE
      BY <3>2, <3>3, <3>4, RowIsRow
    <3>6. QED
      BY <2>2, <3>1, <3>5 DEF Mild, Gentle, SameMemory
  <2>4. QED
    BY <1>1, <2>1, <2>2, <2>3, HarmlessKeeps
<1>8. CASE RemoveRow(p)
  <2> DEFINE j == Current(p)
  <2>1. Busy(p) /\ j.job \notin OfTriage /\ setting' = setting
    BY <1>8 DEF RemoveRow, Doing, OfTriage
  <2>2. proc' = [proc EXCEPT ![p] = Then(proc[p], <<>>)]
    BY <1>8 DEF RemoveRow
  <2>3. Gentle
    <3>1. Mild
      BY <1>8, RemoveRowKeeps
    <3>2. j.id \in Ids
      BY <1>8, CurrentIsJob, JobFields DEF RemoveRow, Doing
    <3>3. /\ row \in [Ids -> Row \cup {NoRow}] /\ row' = [row EXCEPT ![j.id] = NoRow]
          /\ reviewed' = reviewed \cup {row[k].lesson : k \in {j.id} \cap Rows}
      BY <1>8 DEF RemoveRow, TriageInv, TypeOK
    <3> HIDE DEF j
    <3>4. ASSUME NEW i \in Ids
          PROVE  \/ row'[i] = row[i]
                 \/ row'[i] = NoRow /\ row[i].lesson \in reviewed'
      BY <3>2, <3>3 DEF Rows
    <3>5. QED
      BY <3>1, <3>3, <3>4 DEF Mild, Gentle, SameMemory
  <2>4. QED
    BY <1>1, <2>1, <2>2, <2>3, HarmlessKeeps
<1>9. QED
  BY <1>2, <1>3, <1>4, <1>5, <1>6, <1>7, <1>8

\* A miner or a review that starts has one harmless job.
LEMMA BeginKeepsFold ==
  ASSUME TriageInv, FoldInv, NEW p \in Procs, proc[p].stage = "idle",
         NEW st \in {"mine", "review"}, NEW j, j.job \in Harmless, Begin(p, st, <<j>>),
         UNCHANGED <<setting, row, next, reviewed>>
  PROVE  FoldInv'
<1> DEFINE js == <<j>>
           z == [proc[p] EXCEPT !.stage = st, !.jobs = js]
<1>1. proc[p] \in Process
  BY ProcFine DEF Fine
<1>2. Len(js) = 1 /\ js[1] = j
  OBVIOUS
<1> HIDE DEF js
<1>3. z.stage = st /\ z.jobs = js
  BY <1>1 DEF Process
<1>4. proc' = [proc EXCEPT ![p] = z]
  BY DEF Begin, js
<1> HIDE DEF z
<1>5. \A k \in 1..Len(z.jobs) : z.jobs[k].job \in Harmless
  <2>1. \A k \in 1..Len(js) : k = 1
    BY <1>2
  <2>2. \A k \in 1..Len(js) : js[k] = j
    BY <1>2, <2>1
  <2>3. \A k \in 1..Len(js) : js[k].job \in Harmless
    BY <2>2
  <2>4. QED
    BY <1>3, <2>3
<1>6. Gentle
  BY QuietIsGentle
<1>7. z.stage \notin {"clean", "fold", "end"}
  BY <1>3
<1>8. QED
  BY <1>4, <1>5, <1>6, <1>7, FoldStep

\* Operations start, end and die.
LEMMA ComingsKeepFold ==
  ASSUME TriageInv, FoldInv, NEW p \in Procs,
         StartMining(p) \/ StartReview(p) \/ End(p) \/ Die(p)
  PROVE  FoldInv'
<1>1. CASE StartMining(p)
  <2>1. \A l, s : Mine(l, s).job \in Harmless
    BY DEF Mine, Harmless
  <2>2. /\ proc[p].stage = "idle" /\ UNCHANGED <<setting, row, next, reviewed>>
        /\ \E l \in Lessons, s \in setting.sessions : Begin(p, "mine", <<Mine(l, s)>>)
    BY <1>1 DEF StartMining, Started, history
  <2>3. PICK l, s : Begin(p, "mine", <<Mine(l, s)>>)
    BY <2>2
  <2>4. QED
    BY <2>1, <2>2, <2>3, BeginKeepsFold
<1>2. CASE StartReview(p)
  <2>1. \A l : \A j \in {Approve(l), Reject(l)} : j.job \in Harmless
    BY DEF Approve, Reject, Harmless
  <2>2. /\ proc[p].stage = "idle" /\ UNCHANGED <<setting, row, next, reviewed>>
        /\ \E l \in Lessons : \E j \in {Approve(l), Reject(l)} : Begin(p, "review", <<j>>)
    BY <1>2 DEF StartReview, Started, history
  <2>3. PICK l \in Lessons : \E j \in {Approve(l), Reject(l)} : Begin(p, "review", <<j>>)
    BY <2>2
  <2>4. PICK j \in {Approve(l), Reject(l)} : Begin(p, "review", <<j>>)
    BY <2>3
  <2>5. j.job \in Harmless
    BY <2>1
  <2>6. QED
    BY <2>2, <2>4, <2>5, BeginKeepsFold
<1>3. CASE End(p) \/ Die(p)
  <2>1. proc' = [proc EXCEPT ![p] = Idle] /\ UNCHANGED <<setting, row, next, reviewed>>
    BY <1>3 DEF End, Die, history
  <2>2. Gentle
    BY <2>1, QuietIsGentle
  <2> DEFINE z == Idle
  <2>3. z.stage = "idle" /\ Len(z.jobs) = 0
    BY DEF Idle
  <2> HIDE DEF z
  <2>4. \A k \in 1..Len(z.jobs) : z.jobs[k].job \in Harmless
    BY <2>3
  <2>5. proc' = [proc EXCEPT ![p] = z]
    BY <2>1 DEF z
  <2>6. z.stage \notin {"clean", "fold", "end"}
    BY <2>3
  <2>7. setting' = setting
    BY <2>1
  <2>8. QED
    BY <2>2, <2>4, <2>5, <2>6, <2>7, FoldStep
<1>4. QED
  BY <1>1, <1>2, <1>3

\* A process with harmless jobs that drops the first has harmless jobs left.
LEMMA DropHarmless ==
  ASSUME NEW q, Fine(q), q.jobs # <<>>, \A k \in 1..Len(q.jobs) : q.jobs[k].job \in Harmless
  PROVE  \A k \in 1..Len(Then(q, <<>>).jobs) : Then(q, <<>>).jobs[k].job \in Harmless
<1> DEFINE js == <<>>
           new == Then(q, js).jobs
<1>1. js \in Seq(Job) /\ Len(js) = 0
  OBVIOUS
<1> HIDE DEF js
<1>2. new = Replaced(q.jobs, js)
  <2>1. \A k \in 2..Len(js) : js[k].job \in Queued
    BY <1>1
  <2>2. QED
    BY <1>1, <2>1, ThenFine DEF Replaced
<1> HIDE DEF new
<1>3. q.jobs \in Seq(Job)
  BY DEF Fine, Process
<1>4. Consists(new, q.jobs, js)
  BY <1>1, <1>2, <1>3, ThenJobs
<1>5. ASSUME NEW m \in 1..Len(new) PROVE new[m].job \in Harmless
  <2>1. PICK k \in 2..Len(q.jobs) : new[m] = q.jobs[k]
    BY <1>1, <1>4 DEF Consists
  <2>2. k \in 1..Len(q.jobs)
    BY <1>3
  <2>3. QED
    BY <2>1, <2>2
<1>6. QED
  BY <1>5 DEF new, js

\* The job of a process in its triage, and those behind it.
LEMMA TriageJobs ==
  ASSUME NEW q, Fine(q), q.jobs # <<>>, NEW D, NEW H, NEW table, NEW n, NEW said,
         Good(q, D, H, table, n, said)
  PROVE  /\ JobGood(Head(q.jobs), D, H) /\ Head(q.jobs) = q.jobs[1]
         /\ \A k \in 2..Len(q.jobs) : JobGood(q.jobs[k], D, H)
         /\ \A c \in q.plan : Topic[c.lesson] \in D =>
              \/ Settled(table[c.id])
              \/ Deletes(Head(q.jobs), c.lesson) /\ (q.loaded => c.id \in q.todo)
              \/ \E k \in 2..Len(q.jobs) : Deletes(q.jobs[k], c.lesson)
<1>1. q.jobs \in Seq(Job) /\ Len(q.jobs) \in Nat
  BY DEF Fine, Process
<1>2. 1 \in 1..Len(q.jobs) /\ Head(q.jobs) = q.jobs[1]
  BY <1>1
<1>3. \A k \in 2..Len(q.jobs) : k \in 1..Len(q.jobs)
  BY <1>1
<1>4. \A k \in 1..Len(q.jobs) : k = 1 \/ k \in 2..Len(q.jobs)
  BY <1>1
<1>5. QED
  BY <1>2, <1>3, <1>4 DEF Good, Awaited

\* A job that has loaded its rows deletes what it has chosen; what it has not chosen
\* needs no deletion.
LEMMA ChosenOrSettled ==
  ASSUME NEW j, j.job \in OnRows, NEW c, NEW D, NEW H, NEW said, c.id \in Ids,
         RowGood(c, row[c.id], D, H, said), Deletes(j, c.lesson)
  PROVE  c.id \in Chosen(j) \/ Settled(row[c.id])
<1>1. j.job = "delete" /\ j.lesson = c.lesson
  BY DEF OnRows, Deletes
<1>2. row[c.id] # NoRow => row[c.id].lesson = c.lesson
  BY DEF RowGood
<1>3. Chosen(j) = {i \in Of(j.lesson) : ~row[i].approved}
  BY <1>1 DEF Chosen
<1>4. QED
  BY <1>1, <1>2, <1>3 DEF Of, Rows, Settled

\* A job loads its rows.
LEMMA LoadKeepsFold ==
  ASSUME TriageInv, FoldInv, NEW p \in Procs, Load(p) PROVE FoldInv'
<1> DEFINE q == proc[p]
           j == Current(p)
           S == Chosen(j)
           z == IF S = {} THEN Then(q, <<>>) ELSE [q EXCEPT !.todo = S, !.loaded = TRUE]
<1>1. /\ Busy(p) /\ j.job \in OnRows /\ ~q.loaded
      /\ UNCHANGED <<setting, row, next, reviewed>> /\ proc' = [proc EXCEPT ![p] = z]
  BY DEF Load, OnRows, history
<1>2. Fine(q) /\ q \in Process /\ q.jobs # <<>> /\ Head(q.jobs) = j
  BY <1>1, ProcFine DEF Fine, Busy, Current
<1>3. Gentle
  BY <1>1, QuietIsGentle
<1>4. \A c \in q.plan : c.id \in Ids
  BY ProcPlanned DEF Planned, Candidate
<1>q. q = proc[p]
  OBVIOUS
<1>j. S = Chosen(j)
  OBVIOUS
<1> HIDE DEF q, j, S
<1>5. CASE S = {}
  <2> DEFINE js == <<>>
  <2>1. z = Then(q, js)
    BY <1>5
  <2>2. js \in Seq(Job) /\ Len(js) = 0
    OBVIOUS
  <2> HIDE DEF js, z
  <2>3. (\A k \in 2..Len(js) : js[k].job \in Queued) /\ \A k \in 1..Len(js) : FALSE
    BY <2>2
  <2>4. z.stage = q.stage /\ z.plan = q.plan /\ z.covered = q.covered /\ z.circular = q.circular
    BY <1>2, <2>1, <2>2, <2>3, ThenFine
  <2>5. CASE q.stage \in {"clean", "fold"}
    <3>1. ASSUME NEW D, NEW H, Good(q, D, H, row, next, reviewed)
          PROVE  Good(z, D, H, row', next', reviewed')
      <4>1. \A c \in q.plan : c.id < next /\ RowGood(c, row[c.id], D, H, reviewed)
        BY <3>1 DEF Good
      <4>2. /\ \A k \in 2..Len(q.jobs) : JobGood(q.jobs[k], D, H)
            /\ \A c \in q.plan : Topic[c.lesson] \in D =>
                 \/ Settled(row[c.id]) \/ Deletes(j, c.lesson)
                 \/ \E k \in 2..Len(q.jobs) : Deletes(q.jobs[k], c.lesson)
        BY <1>2, <3>1, TriageJobs
      <4>3. \A c \in q.plan : Deletes(j, c.lesson) => Settled(row[c.id])
        BY <1>1, <1>4, <1>5, <1>j, <4>1, ChosenOrSettled
      <4>4. Good(z, D, H, row, next, reviewed)
        BY <1>2, <2>1, <2>2, <2>3, <4>1, <4>2, <4>3, GoodThen
      <4>5. QED
        BY <1>1, <4>4
    <3>2. QED
      BY <1>1, <1>q, <2>4, <2>5, <3>1, TriageStep
  <2>6. CASE q.stage \notin {"clean", "fold"}
    <3>1. \A k \in 1..Len(q.jobs) : q.jobs[k].job \in Harmless
      BY <1>q, <2>6 DEF FoldInv
    <3>2. \A k \in 1..Len(z.jobs) : z.jobs[k].job \in Harmless
      BY <1>2, <2>1, <3>1, DropHarmless DEF js
    <3>3. QED
      BY <1>1, <1>3, <1>q, <2>4, <2>6, <3>2, OutsideKeeps
  <2>7. QED
    BY <2>5, <2>6
<1>6. CASE S # {}
  <2>1. S \subseteq Ids
    BY <1>1, <1>j DEF Chosen, OnRows, Of, Rows
  <2>2. /\ z.stage = q.stage /\ z.plan = q.plan /\ z.covered = q.covered
        /\ z.circular = q.circular /\ z.jobs = q.jobs /\ z.todo = S /\ z.loaded = TRUE
    BY <1>2, <1>6, <2>1 DEF Process
  <2> HIDE DEF z
  <2>3. CASE q.stage \in {"clean", "fold"}
    <3>1. ASSUME NEW D, NEW H, Good(q, D, H, row, next, reviewed)
          PROVE  Good(z, D, H, row', next', reviewed')
      <4>1. q.jobs \in Seq(Job) /\ Head(q.jobs) = q.jobs[1]
        BY <1>2 DEF Process
      <4>2. \A c \in q.plan : RowGood(c, row[c.id], D, H, reviewed)
        BY <3>1 DEF Good
      <4>3. \A c \in q.plan : Deletes(j, c.lesson) => c.id \in S \/ Settled(row[c.id])
        BY <1>1, <1>4, <1>j, <4>2, ChosenOrSettled
      <4>4. ASSUME NEW c \in q.plan, Topic[c.lesson] \in D, ~Settled(row[c.id])
            PROVE  Awaited(c, z)
        <5>1. Awaited(c, q)
          BY <3>1, <4>4 DEF Good
        <5>2. PICK k \in 1..Len(q.jobs) : Deletes(q.jobs[k], c.lesson)
          BY <5>1 DEF Awaited
        <5>3. k = 1 => c.id \in S
          BY <1>2, <4>1, <4>3, <4>4, <5>2
        <5>4. QED
          BY <2>2, <5>2, <5>3 DEF Awaited
      <4>5. Good(z, D, H, row, next, reviewed)
        BY <2>2, <3>1, <4>4 DEF Good
      <4>6. QED
        BY <1>1, <4>5
    <3>2. QED
      BY <1>1, <1>q, <2>2, <2>3, <3>1, TriageStep
  <2>4. CASE q.stage \notin {"clean", "fold"}
    <3>1. \A k \in 1..Len(z.jobs) : z.jobs[k].job \in Harmless
      BY <1>q, <2>2, <2>4 DEF FoldInv
    <3>2. QED
      BY <1>1, <1>3, <1>q, <2>2, <2>4, <3>1, OutsideKeeps
  <2>5. QED
    BY <2>3, <2>4
<1>7. QED
  BY <1>5, <1>6

\* What a statement of the triage makes of the row of a planned candidate.
LEMMA WrittenGood ==
  ASSUME NEW j \in Job, j.job \in OnRows, NEW D, NEW H, JobGood(j, D, H), NEW said,
         NEW c, c.lesson \in Lessons, NEW r \in Row \cup {NoRow}, RowGood(c, r, D, H, said),
         j.job = "delete" => (r # NoRow => r.lesson = j.lesson),
         j.job \in {"evidence", "triage"} => (r # NoRow => r.lesson = j.lesson),
         j.job = "purge" => (r # NoRow => r.triage = "dropped")
  PROVE  /\ RowGood(c, Written(j, r), D, H, said)
         /\ Settled(r) => Settled(Written(j, r))
         /\ j.job = "delete" => Written(j, r) = NoRow
<1>1. CASE r = NoRow
  BY <1>1 DEF Written
<1>2. CASE r # NoRow /\ j.job = "evidence"
  <2> DEFINE w == [r EXCEPT !.evidence = j.count]
  <2>1. Written(j, r) = w
    BY <1>2 DEF Written
  <2>2. /\ w.lesson = r.lesson /\ w.triage = r.triage /\ w.ref = r.ref
        /\ w.approved = r.approved /\ w \in Row
    BY <1>2, JobFields DEF Row
  <2> HIDE DEF w
  <2>3. w # NoRow
    BY <2>2, RowIsRow
  <2>4. RowGood(c, w, D, H, said) /\ (Settled(r) => Settled(w))
    BY <1>2, <2>2, <2>3 DEF RowGood, Settled
  <2>5. QED
    BY <1>2, <2>1, <2>4
<1>3. CASE r # NoRow /\ j.job = "triage"
  <2> DEFINE w == [r EXCEPT !.triage = "superseded", !.ref = j.to]
  <2>1. Written(j, r) = w
    BY <1>3 DEF Written
  <2>2. /\ w.lesson = r.lesson /\ w.triage = "superseded" /\ w.ref = j.to
        /\ w.approved = r.approved
    BY <1>3, JobFields DEF Row
  <2>3. w # NoRow
    BY <1>3, WrittenTyped, <2>1 DEF RowGood
  <2> HIDE DEF w
  <2>4. <<j.lesson, j.to>> \in H /\ j.lesson = r.lesson /\ r.lesson = c.lesson
    BY <1>3 DEF JobGood, RowGood
  <2>5. RowGood(c, w, D, H, said) /\ (Settled(r) => Settled(w))
    BY <1>3, <2>2, <2>3, <2>4 DEF RowGood, Settled
  <2>6. QED
    BY <1>3, <2>1, <2>5
<1>4. CASE r # NoRow /\ j.job = "delete"
  <2>1. Written(j, r) = NoRow
    BY <1>4 DEF Written
  <2>2. Deletes(j, c.lesson)
    BY <1>4 DEF RowGood, Deletes
  <2>3. Topic[c.lesson] \in D
    BY <2>2 DEF JobGood
  <2>4. QED
    BY <2>1, <2>3 DEF RowGood, Settled
<1>5. CASE r # NoRow /\ j.job = "purge"
  BY <1>5 DEF RowGood
<1>6. QED
  BY <1>1, <1>2, <1>3, <1>4, <1>5 DEF OnRows

\* A job writes a row: in the triage the run stays good, elsewhere only a count changes.
LEMMA WriteKeepsFold ==
  ASSUME TriageInv, FoldInv, NEW p \in Procs, Write(p) PROVE FoldInv'
<1> DEFINE b == Running(p)
           o == proc[p]
           q == [o EXCEPT !.changed = b]
           S == o.todo
           j == Current(p)
           i == Max(S)
           w == Written(j, row[i])
           z == IF q.todo = {i} THEN Then(q, <<>>) ELSE [q EXCEPT !.todo = q.todo \ {i}]
<1>1. /\ Busy(p) /\ o.loaded /\ j \in Job /\ S \subseteq Ids /\ UNCHANGED <<setting, next, reviewed>>
      /\ row' = [row EXCEPT ![i] = w] /\ proc' = [proc EXCEPT ![p] = z]
  BY CurrentIsJob DEF Write
<1>2. /\ Fine(o) /\ o \in Process /\ o.jobs # <<>> /\ Head(o.jobs) = j /\ j.job \in OnRows
      /\ S # {}
  BY <1>1, ProcFine DEF Fine, Formed, Busy, Current
<1>3. Knows(j, S, row, next, overtaken, judged) /\ b \in BOOLEAN /\ o = proc[p] /\ o.todo = S
  BY <1>1 DEF TriageInv, Running
<1>4. \A c \in o.plan : c.id \in Ids /\ c.lesson \in Lessons
  BY ProcPlanned DEF Planned, Candidate
<1>5. row \in [Ids -> Row \cup {NoRow}] /\ next \in Nat
  BY MemoryTriageAssumption DEF TriageInv, TypeOK
<1>6. w = Written(j, row[i])
  OBVIOUS
<1> HIDE DEF b, o, j, w
<1>7. i \in S /\ i \in Ids
  <2> HIDE DEF S
  <2> QED
    BY <1>1, <1>2, NewestIn
<1> HIDE DEF S, i
<1>8. \A k \in Ids : row'[k] = IF k = i THEN w ELSE row[k]
  BY <1>1, <1>5, <1>7
<1>9. /\ q \in Process /\ q.jobs = o.jobs /\ q.todo = S /\ q.loaded = o.loaded
      /\ q.plan = o.plan /\ q.stage = o.stage /\ q.covered = o.covered /\ q.circular = o.circular
  <2>1. q \in Process
    BY <1>2, <1>3 DEF Process
  <2>2. \A x \in {q} : /\ x.jobs = o.jobs /\ x.todo = o.todo /\ x.loaded = o.loaded
                       /\ x.plan = o.plan /\ x.stage = o.stage /\ x.covered = o.covered
                       /\ x.circular = o.circular
    BY <1>2 DEF Process
  <2>3. QED
    BY <1>3, <2>1, <2>2
<1> HIDE DEF q
<1>10. Fine(q) /\ q.jobs # <<>>
  <2>1. q.stage # "idle"
    BY <1>2, <1>9 DEF Fine, Idle
  <2>2. Formed(q)
    BY <1>2, <1>3, <1>9 DEF Fine, Formed
  <2>3. QED
    BY <1>2, <1>9, <2>1, <2>2 DEF Fine
<1> DEFINE js == <<>>
<1>11. js \in Seq(Job) /\ Len(js) = 0
  OBVIOUS
<1>12. (S = {i} => z = Then(q, js)) /\ (S # {i} => z = [q EXCEPT !.todo = S \ {i}])
  BY <1>9
<1> HIDE DEF js, z
<1>13. (\A k \in 2..Len(js) : js[k].job \in Queued) /\ \A k \in 1..Len(js) : FALSE
  BY <1>11
<1>14. /\ z.stage = o.stage /\ z.plan = o.plan /\ z.covered = o.covered /\ z.circular = o.circular
       /\ S # {i} => z.jobs = o.jobs /\ z.todo = S \ {i} /\ z.loaded = o.loaded
  <2>1. CASE S = {i}
    <3>1. /\ Then(q, js).stage = q.stage /\ Then(q, js).plan = q.plan
          /\ Then(q, js).covered = q.covered /\ Then(q, js).circular = q.circular
      BY <1>10, <1>11, <1>13, ThenFine
    <3>2. QED
      BY <1>9, <1>12, <2>1, <3>1
  <2>2. CASE S # {i}
    BY <1>9, <1>12, <2>2 DEF Process
  <2>3. QED
    BY <2>1, <2>2
<1>15. /\ j.job \in {"evidence", "triage"} => (row[i] # NoRow => row[i].lesson = j.lesson)
       /\ j.job = "delete" => (row[i] # NoRow => row[i].lesson = j.lesson)
       /\ j.job = "triage" => (row[i] # NoRow => row[i].triage # "dropped")
       /\ j.job = "purge" => (row[i] # NoRow => row[i].triage = "dropped")
  BY <1>3, <1>7 DEF Knows
<1>16. row[i] \in Row \cup {NoRow}
  BY <1>5, <1>7
<1>17. CASE o.stage \in {"clean", "fold"}
  <2>1. ASSUME NEW D, NEW H, Good(o, D, H, row, next, reviewed)
        PROVE  Good(z, D, H, row', next', reviewed')
    <3>1. /\ JobGood(j, D, H) /\ j = o.jobs[1]
          /\ \A k \in 2..Len(o.jobs) : JobGood(o.jobs[k], D, H)
          /\ \A c \in o.plan : Topic[c.lesson] \in D =>
               \/ Settled(row[c.id])
               \/ Deletes(j, c.lesson) /\ c.id \in S
               \/ \E k \in 2..Len(o.jobs) : Deletes(o.jobs[k], c.lesson)
      BY <1>1, <1>2, <1>3, <2>1, TriageJobs
    <3>2. ASSUME NEW c \in o.plan
          PROVE  /\ c.id < next /\ RowGood(c, row'[c.id], D, H, reviewed)
                 /\ Settled(row[c.id]) => Settled(row'[c.id])
                 /\ Deletes(j, c.lesson) /\ c.id = i => Settled(row'[c.id])
      <4>1. c.id < next /\ RowGood(c, row[c.id], D, H, reviewed) /\ c.lesson \in Lessons
        BY <1>4, <2>1 DEF Good
      <4>2. CASE c.id = i
        <5>1. /\ RowGood(c, w, D, H, reviewed) /\ (Settled(row[i]) => Settled(w))
              /\ j.job = "delete" => w = NoRow
          BY <1>1, <1>2, <1>6, <1>15, <1>16, <3>1, <4>1, <4>2, WrittenGood
        <5>2. Deletes(j, c.lesson) => j.job = "delete"
          BY <1>2 DEF OnRows, Deletes
        <5>3. row'[c.id] = w
          BY <1>7, <1>8, <4>2
        <5>4. QED
          BY <4>1, <4>2, <5>1, <5>2, <5>3 DEF Settled
      <4>3. CASE c.id # i
        BY <1>4, <1>8, <4>1, <4>3
      <4>4. QED
        BY <4>2, <4>3
    <3>3. CASE S = {i}
      <4>1. \A c \in q.plan : c.id < next /\ RowGood(c, row'[c.id], D, H, reviewed)
        BY <1>9, <3>2
      <4>2. \A k \in 2..Len(q.jobs) : JobGood(q.jobs[k], D, H)
        BY <1>9, <3>1
      <4>3. \A c \in q.plan : Topic[c.lesson] \in D =>
              \/ Settled(row'[c.id])
              \/ \E k \in 2..Len(q.jobs) : Deletes(q.jobs[k], c.lesson)
        BY <1>9, <3>1, <3>2, <3>3
      <4>4. Good(Then(q, js), D, H, row', next, reviewed)
        BY <1>10, <1>11, <1>13, <4>1, <4>2, <4>3, GoodThen
      <4>5. QED
        BY <1>1, <1>12, <3>3, <4>4
    <3>4. CASE S # {i}
      <4>1. z.jobs = o.jobs /\ z.todo = S \ {i} /\ z.loaded = o.loaded /\ z.plan = o.plan
        BY <1>14, <3>4
      <4>2. ASSUME NEW c \in o.plan, Topic[c.lesson] \in D, ~Settled(row'[c.id])
            PROVE  Awaited(c, z)
        <5>1. Awaited(c, o)
          BY <2>1, <3>2, <4>2 DEF Good
        <5>2. PICK k \in 1..Len(o.jobs) : Deletes(o.jobs[k], c.lesson) /\ (k = 1 => c.id \in S)
          BY <1>1, <1>3, <5>1 DEF Awaited
        <5>3. k = 1 => c.id \in S \ {i}
          BY <3>1, <3>2, <4>2, <5>2
        <5>4. QED
          BY <4>1, <5>2, <5>3 DEF Awaited
      <4>3. \A k \in 1..Len(o.jobs) : JobGood(o.jobs[k], D, H)
        BY <2>1 DEF Good
      <4>4. Good(z, D, H, row', next, reviewed)
        BY <3>2, <4>1, <4>2, <4>3 DEF Good
      <4>5. QED
        BY <1>1, <4>4
    <3>5. QED
      BY <3>3, <3>4
  <2>2. QED
    BY <1>1, <1>3, <1>14, <1>17, <2>1, TriageStep
<1>18. CASE o.stage \notin {"clean", "fold"}
  <2>1. \A k \in 1..Len(o.jobs) : o.jobs[k].job \in Harmless
    BY <1>3, <1>18 DEF FoldInv
  <2>2. j.job = "evidence"
    <3>1. o.jobs \in Seq(Job)
      BY <1>2 DEF Process
    <3>2. 1 \in 1..Len(o.jobs) /\ j = o.jobs[1]
      BY <1>2, <3>1
    <3>3. QED
      BY <1>2, <2>1, <3>2 DEF OnRows, Harmless
  <2>3. Gentle
    <3>1. /\ w # NoRow => /\ row[i] # NoRow /\ SameMemory(w, row[i])
                          /\ w.approved = row[i].approved
          /\ row[i] # NoRow => w # NoRow
      BY <1>1, <1>6, <1>15, <1>16, <2>2, WrittenTyped
    <3>2. w # NoRow => w.triage = row[i].triage /\ w.ref = row[i].ref
      <4>1. w # NoRow => row[i] \in Row /\ w = [row[i] EXCEPT !.evidence = j.count]
        BY <1>6, <1>16, <2>2 DEF Written
      <4>2. QED
        BY <4>1 DEF Row
    <3>3. \A k \in Ids : row'[k] = row[k] \/ (k = i /\ row'[k] = w)
      BY <1>8
    <3>4. ASSUME NEW k \in Ids
          PROVE  /\ row'[k] = NoRow => row[k] = NoRow
                 /\ row'[k] # NoRow =>
                      /\ row[k] # NoRow /\ SameMemory(row'[k], row[k])
                      /\ row[k].approved => row'[k].approved
                      /\ row'[k].triage = row[k].triage /\ row'[k].ref = row[k].ref
      BY <3>1, <3>2, <3>3 DEF SameMemory
    <3>5. reviewed \subseteq reviewed' /\ next' \in Nat /\ next' >= next
      BY <1>1, <1>5
    <3>6. QED
      BY <3>4, <3>5 DEF Gentle
  <2>4. \A k \in 1..Len(z.jobs) : z.jobs[k].job \in Harmless
    <3>1. CASE S = {i}
      BY <1>9, <1>10, <1>12, <2>1, <3>1, DropHarmless DEF js
    <3>2. CASE S # {i}
      BY <1>14, <2>1, <3>2
    <3>3. QED
      BY <3>1, <3>2
  <2>5. QED
    BY <1>1, <1>3, <1>14, <1>18, <2>3, <2>4, OutsideKeeps
<1>19. QED
  BY <1>17, <1>18

\* The jobs that fold lessons into one hide as the group's job does.
LEMMA FoldIntoGood ==
  ASSUME NEW S \in Group, NEW to \in Lessons, NEW D, NEW H,
         \A l \in S \ {to} : <<l, to>> \in H
  PROVE  \A k \in 1..Len(FoldInto(S, to)) : JobGood(FoldInto(S, to)[k], D, H)
<1> DEFINE T == S \ {to}
           f == [l \in T |-> SetTriage(l, to)]
           s == FoldInto(S, to)
<1>1. IsFiniteSet(T)
  BY FS_Subset DEF Group
<1>2. s = SetToSeq({f[l] : l \in T}) /\ f = [l \in T |-> f[l]]
  BY DEF FoldInto
<1>3. \A l \in T : JobGood(f[l], D, H)
  <2> SUFFICES ASSUME NEW l \in T PROVE JobGood(SetTriage(l, to), D, H)
    OBVIOUS
  <2> DEFINE j == SetTriage(l, to)
  <2>1. j.job = "triage" /\ j.lesson = l /\ j.to = to
    BY DEF SetTriage
  <2> HIDE DEF j
  <2>2. JobGood(j, D, H)
    BY <2>1 DEF JobGood, Deletes, OfTriage
  <2>3. QED
    BY <2>2 DEF j
<1> HIDE DEF T, f, s
<1>4. \A k \in 1..Len(s) : \E l \in T : s[k] = f[l]
  <2>1. Holds(s, T, f)
    BY <1>1, <1>2, ListedOfAll
  <2>2. QED
    BY <2>1 DEF Holds
<1>5. \A k \in 1..Len(s) : JobGood(s[k], D, H)
  BY <1>3, <1>4
<1>6. QED
  BY <1>5 DEF s

\* The jobs that the job on a group becomes delete and hide as it does, and delete
\* all that it does.
LEMMA ExpandedGood ==
  ASSUME NEW j \in Job, j.job \in {"clear", "fold", "gather"}, NEW D, NEW H, JobGood(j, D, H)
  PROVE  /\ \A k \in 1..Len(Expanded(j)) : JobGood(Expanded(j)[k], D, H)
         /\ \A l : Deletes(j, l) => \E k \in 1..Len(Expanded(j)) : Deletes(Expanded(j)[k], l)
<1> DEFINE e == Expanded(j)
<1>1. CASE j.job = "clear"
  <2> DEFINE S == j.from
             f == [l \in S |-> Delete(l)]
  <2>1. IsFiniteSet(S) /\ S \subseteq Lessons
    BY <1>1, JobFields DEF Group
  <2>2. e = SetToSeq({f[l] : l \in S}) /\ f = [l \in S |-> f[l]]
    BY <1>1 DEF Expanded
  <2>3. \A l \in S : Topic[l] \in D
    BY <1>1, <2>1 DEF JobGood, Deletes
  <2>4. \A l \in S : f[l].job = "delete" /\ f[l].lesson = l
    BY DEF Delete
  <2>5. \A l : Deletes(j, l) => l \in S
    BY <1>1 DEF Deletes
  <2> HIDE DEF S, f, e
  <2>6. /\ \A l \in S : \E k \in 1..Len(e) : e[k] = f[l]
        /\ \A k \in 1..Len(e) : \E l \in S : e[k] = f[l]
    <3>1. Holds(e, S, f)
      BY <2>1, <2>2, ListedOfAll
    <3>2. QED
      BY <3>1 DEF Holds
  <2>7. \A l \in S : JobGood(f[l], D, H) /\ Deletes(f[l], l)
    BY <2>3, <2>4 DEF JobGood, Deletes, OfTriage
  <2>8. /\ \A k \in 1..Len(e) : JobGood(e[k], D, H)
        /\ \A l : Deletes(j, l) => \E k \in 1..Len(e) : Deletes(e[k], l)
    BY <2>5, <2>6, <2>7
  <2>9. QED
    BY <2>8 DEF e
<1>2. CASE j.job = "fold"
  <2>1. j.from \in Group /\ j.to \in Lessons /\ \A l \in j.from \ {j.to} : <<l, j.to>> \in H
    BY <1>2, JobFields DEF JobGood
  <2>2. \A k \in 1..Len(FoldInto(j.from, j.to)) : JobGood(FoldInto(j.from, j.to)[k], D, H)
    BY <2>1, FoldIntoGood
  <2>3. e = IF Of(j.to) = {} THEN <<>> ELSE FoldInto(j.from, j.to)
    BY <1>2 DEF Expanded
  <2>4. \A k \in 1..Len(<<>>) : FALSE
    OBVIOUS
  <2>5. \A l : ~Deletes(j, l)
    BY <1>2 DEF Deletes
  <2> HIDE DEF e
  <2>6. \A k \in 1..Len(e) : JobGood(e[k], D, H)
    <3>1. CASE Of(j.to) = {}
      BY <2>3, <2>4, <3>1
    <3>2. CASE Of(j.to) # {}
      BY <2>2, <2>3, <3>2
    <3>3. QED
      BY <3>1, <3>2
  <2>7. QED
    BY <2>5, <2>6 DEF e
<1>3. CASE j.job = "gather"
  <2> DEFINE c == SetEvidence(j.to, j.count)
             t == FoldInto(j.from, j.to)
             s == <<c>>
  <2>1. j.from \in Group /\ j.to \in Lessons /\ \A l \in j.from \ {j.to} : <<l, j.to>> \in H
    BY <1>3, JobFields DEF JobGood
  <2>2. \A k \in 1..Len(t) : JobGood(t[k], D, H)
    BY <2>1, FoldIntoGood
  <2>3. t \in Seq(Job)
    BY <2>1, FoldIntoWaits DEF Waiting
  <2>4. c \in Job /\ c.job = "evidence"
    BY <1>3, JobFields, JobForms DEF SetEvidence
  <2>5. e = s \o t
    BY <1>3 DEF Expanded
  <2>6. \A l : ~Deletes(j, l)
    BY <1>3 DEF Deletes
  <2> HIDE DEF c, t
  <2>7. JobGood(c, D, H)
    BY <2>4 DEF JobGood, Deletes, OfTriage
  <2>8. s \in Seq(Job) /\ Len(s) = 1 /\ s[1] = c
    BY <2>4
  <2> HIDE DEF s, e
  <2>9. ASSUME NEW k \in 1..Len(e) PROVE JobGood(e[k], D, H)
    <3>1. Len(t) \in Nat /\ Len(e) = Len(s) + Len(t) /\ e[k] = IF k <= Len(s) THEN s[k] ELSE t[k - Len(s)]
      <4> DEFINE u == s \o t
      <4>1. s \in Seq(Job) /\ t \in Seq(Job)
        BY <2>3, <2>8
      <4>2. Len(t) \in Nat /\ Len(u) = Len(s) + Len(t)
            /\ \A m \in 1..Len(u) : u[m] = IF m <= Len(s) THEN s[m] ELSE t[m - Len(s)]
        BY <4>1
      <4>3. e = u
        BY <2>5
      <4> HIDE DEF u
      <4>4. QED
        BY <4>2, <4>3
    <3>2. CASE k <= 1
      <4>1. k = 1
        BY <2>8, <3>1, <3>2
      <4>2. QED
        BY <2>7, <2>8, <3>1, <4>1
    <3>3. CASE ~(k <= 1)
      <4>1. k - 1 \in 1..Len(t) /\ e[k] = t[k - 1]
        BY <2>8, <3>1, <3>3
      <4>2. QED
        BY <2>2, <4>1
    <3>4. QED
      BY <3>2, <3>3
  <2>10. QED
    BY <2>6, <2>9 DEF e
<1>4. QED
  BY <1>1, <1>2, <1>3

\* A run turns to a group.
LEMMA TurnToGroupKeepsFold ==
  ASSUME TriageInv, FoldInv, NEW p \in Procs, TurnToGroup(p) PROVE FoldInv'
<1> DEFINE q == proc[p]
           j == Current(p)
           js == Expanded(j)
           z == Then(q, js)
<1>1. /\ Busy(p) /\ j \in Job /\ j.job \in {"clear", "fold", "gather"}
      /\ UNCHANGED <<setting, row, next, reviewed>> /\ proc' = [proc EXCEPT ![p] = z]
  BY CurrentIsJob DEF TurnToGroup, history
<1>2. Fine(q) /\ q \in Process /\ q.jobs # <<>> /\ Head(q.jobs) = j /\ q = proc[p]
  BY <1>1, ProcFine DEF Fine, Busy, Current
<1>3. js = Expanded(j)
  OBVIOUS
<1> HIDE DEF q, j, js
<1>4. Waiting(js)
  BY <1>1, <1>3, ExpandedWaits
<1>5. js \in Seq(Job) /\ \A k \in 2..Len(js) : js[k].job \in Queued
  <2>1. js \in Seq(Job) /\ Len(js) \in Nat /\ \A k \in 1..Len(js) : js[k].job \in Queued
    BY <1>4 DEF Waiting
  <2>2. QED
    BY <2>1
<1>6. q.stage \in {"clean", "fold"}
  <2>1. q.jobs \in Seq(Job)
    BY <1>2 DEF Process
  <2>2. 1 \in 1..Len(q.jobs) /\ j = q.jobs[1]
    BY <1>2, <2>1
  <2>3. j.job \notin Harmless
    BY <1>1 DEF Harmless
  <2>4. QED
    BY <1>2, <2>2, <2>3 DEF FoldInv
<1>7. /\ z.stage = q.stage /\ z.plan = q.plan /\ z.covered = q.covered
      /\ z.circular = q.circular
  BY <1>2, <1>5, ThenFine
<1> HIDE DEF z
<1>8. ASSUME NEW D, NEW H, Good(q, D, H, row, next, reviewed)
      PROVE  Good(z, D, H, row', next', reviewed')
  <2>1. \A c \in q.plan : c.id < next /\ RowGood(c, row[c.id], D, H, reviewed)
    BY <1>8 DEF Good
  <2>2. /\ JobGood(j, D, H) /\ \A k \in 2..Len(q.jobs) : JobGood(q.jobs[k], D, H)
        /\ \A c \in q.plan : Topic[c.lesson] \in D =>
             \/ Settled(row[c.id]) \/ Deletes(j, c.lesson)
             \/ \E k \in 2..Len(q.jobs) : Deletes(q.jobs[k], c.lesson)
    BY <1>2, <1>8, TriageJobs
  <2>3. /\ \A k \in 1..Len(js) : JobGood(js[k], D, H)
        /\ \A l : Deletes(j, l) => \E k \in 1..Len(js) : Deletes(js[k], l)
    BY <1>1, <1>3, <2>2, ExpandedGood
  <2>4. \A c \in q.plan : Topic[c.lesson] \in D =>
          \/ Settled(row[c.id])
          \/ \E k \in 1..Len(js) : Deletes(js[k], c.lesson)
          \/ \E k \in 2..Len(q.jobs) : Deletes(q.jobs[k], c.lesson)
    BY <2>2, <2>3
  <2>5. Good(z, D, H, row, next, reviewed)
    BY <1>2, <1>5, <2>1, <2>2, <2>3, <2>4, GoodThen DEF z
  <2>6. QED
    BY <1>1, <2>5
<1>9. QED
  BY <1>1, <1>2, <1>6, <1>7, <1>8, TriageStep

\* A sequence that has what two others have.
Joined(u, s, t) ==
  /\ \A k \in 1..Len(s) : \E m \in 1..Len(u) : u[m] = s[k]
  /\ \A k \in 1..Len(t) : \E m \in 1..Len(u) : u[m] = t[k]
  /\ \A m \in 1..Len(u) : \/ \E k \in 1..Len(s) : u[m] = s[k]
                          \/ \E k \in 1..Len(t) : u[m] = t[k]

\* One sequence behind another.
LEMMA BothJoined ==
  ASSUME NEW X, NEW s \in Seq(X), NEW t \in Seq(X) PROVE Joined(s \o t, s, t)
<1> DEFINE u == s \o t
<1>1. Len(s) \in Nat /\ Len(t) \in Nat
  OBVIOUS
<1>2. Len(u) = Len(s) + Len(t)
      /\ \A m \in 1..Len(u) : u[m] = IF m <= Len(s) THEN s[m] ELSE t[m - Len(s)]
  OBVIOUS
<1> HIDE DEF u
<1>3. ASSUME NEW k \in 1..Len(s) PROVE \E m \in 1..Len(u) : u[m] = s[k]
  <2>1. k \in 1..Len(u) /\ k <= Len(s)
    BY <1>1, <1>2
  <2>2. QED
    BY <1>2, <2>1
<1>4. ASSUME NEW k \in 1..Len(t) PROVE \E m \in 1..Len(u) : u[m] = t[k]
  <2> DEFINE m == Len(s) + k
  <2>1. m \in 1..Len(u) /\ ~(m <= Len(s)) /\ m - Len(s) = k
    BY <1>1, <1>2
  <2> HIDE DEF m
  <2>2. QED
    BY <1>2, <2>1
<1>5. ASSUME NEW m \in 1..Len(u)
      PROVE  (\E k \in 1..Len(s) : u[m] = s[k]) \/ (\E k \in 1..Len(t) : u[m] = t[k])
  <2>1. m <= Len(s) => m \in 1..Len(s)
    BY <1>1
  <2>2. ~(m <= Len(s)) => m - Len(s) \in 1..Len(t)
    BY <1>1, <1>2
  <2>3. QED
    BY <1>2, <2>1, <2>2
<1>6. Joined(u, s, t)
  BY <1>3, <1>4, <1>5 DEF Joined
<1>7. QED
  BY <1>6 DEF u

\* To clear a group deletes its candidates, and nothing outside its topic.
LEMMA ClearGood ==
  ASSUME NEW q, NEW t, NEW D, t \in D, NEW H
  PROVE  /\ JobGood(Clear(LessonsOf(q, t)), D, H)
         /\ \A c \in q.plan : Topic[c.lesson] = t => Deletes(Clear(LessonsOf(q, t)), c.lesson)
<1> DEFINE S == LessonsOf(q, t)
           j == Clear(S)
<1>1. \A l \in S : Topic[l] = t
  BY DEF LessonsOf, Members
<1>2. \A c \in q.plan : Topic[c.lesson] = t => c.lesson \in S
  BY DEF LessonsOf, Members
<1> HIDE DEF S
<1>3. j.job = "clear" /\ j.from = S
  BY DEF Clear
<1> HIDE DEF j
<1>4. JobGood(j, D, H) /\ \A l \in S : Deletes(j, l)
  BY <1>1, <1>3 DEF JobGood, Deletes, OfTriage
<1>5. QED
  BY <1>2, <1>4 DEF j, S

\* A plan is good when it is made.
LEMMA PresentGood ==
  ASSUME TriageInv, NEW D, NEW H
  PROVE  \A c \in Present : c.id < next /\ RowGood(c, row[c.id], D, H, reviewed)
<1> SUFFICES ASSUME NEW i \in Visible
             PROVE  /\ i < next
                    /\ RowGood([id |-> i, lesson |-> row[i].lesson, session |-> row[i].session,
                                evidence |-> row[i].evidence], row[i], D, H, reviewed)
  BY DEF Present
<1>1. i \in Rows /\ row[i].triage = "none" /\ row[i] # NoRow
  BY DEF Visible, Hidden, Rows
<1>2. i < next
  BY <1>1, RowsTyped
<1>3. QED
  BY <1>1, <1>2 DEF RowGood

\* A run plans: what the active rules cover is still to be deleted.
LEMMA StartRunKeepsFold ==
  ASSUME TriageInv, FoldInv, NEW p \in Procs, StartRun(p) PROVE FoldInv'
<1> DEFINE C == active \cap {Topic[c.lesson] : c \in Present}
           P == Present
           q == [proc[p] EXCEPT !.stage = "clean", !.plan = P, !.covered = C]
           f == [t \in C |-> Clear(LessonsOf(q, t))]
           s == SetToSeq({f[t] : t \in C})
           js == <<Purge>> \o s
           z == [q EXCEPT !.jobs = js]
<1>1. /\ proc[p].stage = "idle" /\ \A o \in Procs : ~Running(o)
      /\ UNCHANGED <<setting, row, next, reviewed>>
  BY DEF StartRun, Started, history
<1>2. proc[p] = Idle /\ Idle \in Process /\ Idle.todo = {} /\ Idle.loaded = FALSE
  <2>1. proc[p] = Idle
    BY <1>1, ProcFine DEF Fine
  <2>2. Idle \in Process
    BY IdleFine DEF Fine
  <2>3. QED
    BY <2>1, <2>2 DEF Idle
<1>3. C \subseteq Topics /\ IsFiniteSet(C) /\ Planned(P)
  BY CoveredTyped, PresentPlanned
<1>4. \A c \in P : c.id < next /\ RowGood(c, row[c.id], C, {}, reviewed)
  BY PresentGood
<1>5. /\ q \in Process /\ q.plan = P /\ q.covered = C /\ q.stage = "clean"
      /\ q.todo = {} /\ q.loaded = FALSE
  <2> HIDE DEF C, P
  <2> QED
    BY <1>2, <1>3 DEF Process, Planned
<1>6. proc' = [proc EXCEPT ![p] = z]
  <2>1. proc' = [proc EXCEPT ![p] = [q EXCEPT !.jobs =
                  <<Purge>> \o SetToSeq({Clear(LessonsOf(q, t)) : t \in q.covered})]]
    BY DEF StartRun
  <2>2. {Clear(LessonsOf(q, t)) : t \in q.covered} = {f[t] : t \in C}
    <3> HIDE DEF C, P, q
    <3> QED
      BY <1>5
  <2>3. QED
    BY <2>1, <2>2
<1> HIDE DEF C, P, q
<1>7. \A t \in C : /\ f[t] \in Job /\ f[t].job \in Queued /\ JobGood(f[t], C, {})
                   /\ \A c \in P : Topic[c.lesson] = t => Deletes(f[t], c.lesson)
  <2> SUFFICES ASSUME NEW t \in C
               PROVE  /\ f[t] \in Job /\ f[t].job \in Queued /\ JobGood(f[t], C, {})
                      /\ \A c \in P : Topic[c.lesson] = t => Deletes(f[t], c.lesson)
    OBVIOUS
  <2>1. f[t] = Clear(LessonsOf(q, t))
    OBVIOUS
  <2>2. LessonsOf(q, t) \in Group
    BY <1>3, <1>5, LessonsAreGroup
  <2>3. Clear(LessonsOf(q, t)) \in Job /\ Clear(LessonsOf(q, t)).job = "clear"
    BY <2>2, JobForms DEF Clear
  <2> HIDE DEF f
  <2>4. QED
    BY <1>5, <2>1, <2>3, ClearGood DEF Queued
<1>8. f = [t \in C |-> f[t]]
  OBVIOUS
<1> HIDE DEF f
<1>9. Waiting(s)
  BY <1>3, <1>7, <1>8, ListedOf
<1>10. Holds(s, C, f)
  BY <1>3, <1>8, ListedOfAll
<1> HIDE DEF s
<1> DEFINE one == <<Purge>>
<1>11. one \in Seq(Job) /\ Len(one) = 1 /\ one[1] = Purge
  BY JobForms
<1>12. js \in Seq(Job) /\ js = one \o s
  BY <1>9, JobForms, Prefixed
<1> HIDE DEF one, js
<1>13. Joined(js, one, s)
  BY <1>9, <1>11, <1>12, BothJoined DEF Waiting
<1>14. /\ z \in Process /\ z.plan = P /\ z.stage = "clean" /\ z.jobs = js
       /\ z.covered = C /\ z.todo = {} /\ z.loaded = FALSE
  BY <1>5, <1>12 DEF Process
<1> HIDE DEF z
<1>15. JobGood(Purge, C, {})
  <2> DEFINE j == Purge
  <2>1. j.job = "purge"
    BY DEF Purge
  <2> HIDE DEF j
  <2>2. JobGood(j, C, {})
    BY <2>1 DEF JobGood, Deletes, OfTriage
  <2>3. QED
    BY <2>2 DEF j
<1>16. \A m \in 1..Len(js) : JobGood(js[m], C, {})
  <2>1. \A k \in 1..Len(one) : one[k] = Purge
    BY <1>11
  <2>2. \A k \in 1..Len(s) : JobGood(s[k], C, {})
    BY <1>7, <1>10 DEF Holds
  <2>3. QED
    BY <1>13, <1>15, <2>1, <2>2 DEF Joined
<1>17. \A c \in P : Topic[c.lesson] \in C => Awaited(c, z)
  <2> SUFFICES ASSUME NEW c \in P, Topic[c.lesson] \in C PROVE Awaited(c, z)
    OBVIOUS
  <2>1. Deletes(f[Topic[c.lesson]], c.lesson)
    BY <1>7
  <2>2. PICK k \in 1..Len(s) : s[k] = f[Topic[c.lesson]]
    BY <1>10 DEF Holds
  <2>3. PICK m \in 1..Len(js) : js[m] = s[k]
    BY <1>13 DEF Joined
  <2>4. QED
    BY <1>14, <2>1, <2>2, <2>3 DEF Awaited
<1>18. Good(z, C, {}, row, next, reviewed)
  BY <1>4, <1>14, <1>16, <1>17 DEF Good
<1>19. Gentle
  BY <1>1, QuietIsGentle
<1>20. Good(z, z.covered, {}, row', next', reviewed')
  BY <1>1, <1>14, <1>18
<1>21. z.stage = "clean" /\ \A o \in Procs \ {p} : ~Running(o)
  BY <1>1, <1>14
<1>22. QED
  BY <1>1, <1>6, <1>19, <1>20, <1>21, FoldStep

\* What an answer says of a group: it is kept, deleted, or folded into another group
\* that is not covered.
LEMMA AnswerForms ==
  ASSUME NEW q, Planned(q.plan), NEW d \in Answers(q), NEW t \in DOMAIN d
  PROVE  /\ DOMAIN d = GroupsOf(q) \ q.covered /\ d[t] # t
         /\ d[t] \in {"keep", "delete"} \/ d[t] \in DOMAIN d
         /\ d[t] = "delete" => t \in Touched(d)
<1> DEFINE G == GroupsOf(q) \ q.covered
<1>1. d \in [G -> {"keep", "delete"} \cup G] /\ \A x \in G : d[x] # x
  BY DEF Answers
<1>2. G \subseteq Topics
  BY GroupsFinite
<1>3. {"keep", "delete"} \cap Topics = {}
  BY MemoryTriageAssumption
<1>4. DeletionTargets(d) \subseteq Topics
  BY <1>1, <1>2 DEF DeletionTargets
<1> HIDE DEF G
<1>5. d[t] = "delete" => t \in Touched(d)
  BY <1>3, <1>4 DEF Touched
<1>6. QED
  BY <1>1, <1>5 DEF G

\* What the answer decides of a group deletes and hides as the answer says.
LEMMA DecidedGood ==
  ASSUME NEW q, Planned(q.plan), NEW d \in Answers(q), NEW t \in Touched(d)
  PROVE  /\ JobGood(Decided(q, d, t), Clears(q, d), Hides(q, d))
         /\ d[t] = "delete" =>
              \A c \in q.plan : Topic[c.lesson] = t => Deletes(Decided(q, d, t), c.lesson)
<1>1. t \in DOMAIN d
  BY DEF Touched
<1>2. CASE d[t] = "delete"
  <2>1. Decided(q, d, t) = Clear(LessonsOf(q, t)) /\ t \in Clears(q, d)
    BY <1>1, <1>2 DEF Decided, Clears, DeletionTargets
  <2>2. QED
    BY <2>1, ClearGood
<1>3. CASE d[t] # "delete"
  <2> DEFINE S == LessonsOf(q, t)
             to == Canonical(q, d[t])
             j == Fold(S, to)
  <2>1. Decided(q, d, t) = j
    BY <1>3 DEF Decided
  <2>2. d[t] \in GroupsOf(q)
    BY <1>1, <1>3, AnswerForms DEF Touched
  <2>3. to \in Lessons /\ S \subseteq Lessons
    <3>1. to \in LessonsOf(q, d[t]) /\ LessonsOf(q, d[t]) \in Group /\ S \in Group
      BY <2>2, CanonicalIn, LessonsAreGroup
    <3>2. QED
      BY <3>1 DEF Group
  <2>4. \A l \in S : Topic[l] = t
    BY DEF LessonsOf, Members
  <2> HIDE DEF S
  <2>5. \A l \in S \ {to} : <<l, to>> \in Hides(q, d)
    <3> SUFFICES ASSUME NEW l \in S PROVE <<l, to>> \in Hides(q, d)
      OBVIOUS
    <3>1. <<l, to>> \in Lessons \X Lessons /\ Topic[l] = t
      BY <2>3, <2>4
    <3> DEFINE h == <<l, to>>
    <3>2. h \in Lessons \X Lessons /\ h[1] = l /\ h[2] = to
      BY <3>1
    <3>3. to = Canonical(q, d[t])
      OBVIOUS
    <3> HIDE DEF h, to
    <3>4. h \in Hides(q, d)
      BY <1>1, <1>3, <3>1, <3>2, <3>3 DEF Hides
    <3>5. QED
      BY <3>4 DEF h
  <2> HIDE DEF to
  <2>6. j.job = "fold" /\ j.from = S /\ j.to = to
    BY DEF Fold
  <2> HIDE DEF j
  <2>7. JobGood(j, Clears(q, d), Hides(q, d))
    BY <2>5, <2>6 DEF JobGood, Deletes, OfTriage
  <2>8. QED
    BY <1>3, <2>1, <2>7
<1>4. QED
  BY <1>2, <1>3

\* So does the deterministic pass.
LEMMA FoldedGood ==
  ASSUME NEW q, Planned(q.plan), NEW d \in Answers(q), NEW t \in DOMAIN d
  PROVE  JobGood(Folded(q, t), Clears(q, d), Hides(q, d))
<1> DEFINE S == LessonsOf(q, t)
           to == Canonical(q, t)
           n == DistinctEvidence(q, t)
           j == Gather(S, to, n)
<1>1. Folded(q, t) = j
  BY DEF Folded
<1>2. t \in GroupsOf(q)
  BY AnswerForms
<1>3. to \in Lessons /\ S \subseteq Lessons
  <2>1. to \in S /\ S \in Group
    BY <1>2, CanonicalIn, LessonsAreGroup
  <2>2. QED
    BY <2>1 DEF Group
<1>4. \A l \in S : Topic[l] = t
  BY DEF LessonsOf, Members
<1> HIDE DEF S, n
<1>5. \A l \in S \ {to} : <<l, to>> \in Hides(q, d)
  <2> SUFFICES ASSUME NEW l \in S, l # to PROVE <<l, to>> \in Hides(q, d)
    OBVIOUS
  <2> DEFINE h == <<l, to>>
  <2>1. h \in Lessons \X Lessons /\ h[1] = l /\ h[2] = to /\ Topic[l] = t
    BY <1>3, <1>4
  <2>2. to = Canonical(q, t)
    OBVIOUS
  <2> HIDE DEF h, to
  <2>3. h \in Hides(q, d)
    BY <2>1, <2>2 DEF Hides
  <2>4. QED
    BY <2>3 DEF h
<1> HIDE DEF to
<1>6. j.job = "gather" /\ j.from = S /\ j.to = to
  BY DEF Gather
<1> HIDE DEF j
<1>7. JobGood(j, Clears(q, d), Hides(q, d))
  BY <1>5, <1>6 DEF JobGood, Deletes, OfTriage
<1>8. QED
  BY <1>1, <1>7

\* The run takes on what the answer decides.
LEMMA TriageGroupsKeepsFold ==
  ASSUME TriageInv, FoldInv, NEW p \in Procs, TriageGroups(p) PROVE FoldInv'
<1> DEFINE q == proc[p]
           G == GroupsOf(q) \ q.covered
           s(d, order) == [k \in 1..Len(order) |-> Decided(q, d, order[k])]
           t == SetToSeq({Folded(q, x) : x \in G})
<1>0. PICK d \in Answers(q) : \E order \in SetToSeqs(Touched(d)) :
        proc' = [proc EXCEPT ![p] = [q EXCEPT !.stage = "fold", !.circular = Circular(d),
                                              !.jobs = s(d, order) \o t]]
  BY DEF TriageGroups
<1>1. PICK order \in SetToSeqs(Touched(d)) :
        proc' = [proc EXCEPT ![p] = [q EXCEPT !.stage = "fold", !.circular = Circular(d),
                                              !.jobs = s(d, order) \o t]]
  BY <1>0
<1>2. q.stage = "clean" /\ q.jobs = <<>> /\ UNCHANGED <<setting, row, next, reviewed>>
  BY DEF TriageGroups, Busy, history
<1>3. q \in Process /\ q.loaded = FALSE /\ q.todo = {} /\ Planned(q.plan)
  <2>1. q \in Process /\ Formed(q) /\ Planned(q.plan)
    BY ProcFine, ProcPlanned DEF Fine
  <2>2. q.loaded \in BOOLEAN
    BY <2>1 DEF Process
  <2>3. q.loaded = FALSE
    BY <1>2, <2>1, <2>2 DEF Formed
  <2>4. QED
    BY <2>1, <2>3 DEF Formed
<1>4. Good(q, q.covered, {}, row, next, reviewed) /\ Running(p) /\ \A o \in Procs \ {p} : ~Running(o)
  <2>1. Running(p)
    BY <1>2 DEF Running
  <2>2. QED
    BY <1>2, <2>1 DEF FoldInv
<1> HIDE DEF q
<1>5. IsFiniteSet(G) /\ G \subseteq GroupsOf(q) /\ DOMAIN d = G
  <2>1. IsFiniteSet(GroupsOf(q)) /\ G \in SUBSET GroupsOf(q)
    BY <1>3, GroupsFinite
  <2>2. QED
    BY <2>1, FS_Subset DEF Answers
<1> DEFINE D == Clears(q, d)
           H == Hides(q, d)
           T == Touched(d)
           u == s(d, order)
<1>6. /\ Len(order) \in Nat /\ \A k \in 1..Len(order) : order[k] \in T
      /\ \A x \in T : \E k \in 1..Len(order) : order[k] = x
  <2>1. IsFiniteSet(T)
    <3>1. T \in SUBSET G
      BY <1>5 DEF Touched
    <3>2. QED
      BY <1>5, <3>1, FS_Subset
  <2>2. /\ Cardinality(T) \in Nat /\ order \in [1..Cardinality(T) -> T]
        /\ IsInjective(order)
    BY <2>1, FS_CardinalityType DEF SetToSeqs, IsInjective
  <2> HIDE DEF T
  <2>3. Len(order) = Cardinality(T) /\ \A x \in T : \E k \in 1..Len(order) : order[k] = x
    BY <2>1, <2>2, NoneMissed
  <2>4. QED
    BY <2>2, <2>3
<1>7. \A x \in T : /\ Decided(q, d, x) \in Job /\ JobGood(Decided(q, d, x), D, H)
                   /\ d[x] = "delete" =>
                        \A c \in q.plan : Topic[c.lesson] = x => Deletes(Decided(q, d, x), c.lesson)
  BY <1>3, DecidedTyped, DecidedGood
<1>8. \A x \in G : /\ Folded(q, x) \in Job /\ Folded(q, x).job \in Queued
                   /\ JobGood(Folded(q, x), D, H)
  BY <1>3, <1>5, FoldedTyped, FoldedGood
<1>9. /\ u \in Seq(Job) /\ \A k \in 1..Len(u) : JobGood(u[k], D, H)
      /\ \A x \in T : \E k \in 1..Len(u) : u[k] = Decided(q, d, x)
  <2>1. u = [k \in 1..Len(order) |-> Decided(q, d, order[k])]
    OBVIOUS
  <2> HIDE DEF T, D, H, u
  <2>2. u \in [1..Len(order) -> Job] /\ \A k \in 1..Len(order) : u[k] = Decided(q, d, order[k])
    BY <1>6, <1>7, <2>1
  <2>3. u \in Seq(Job) /\ Len(u) = Len(order)
    BY <1>6, <2>2
  <2>4. QED
    BY <1>6, <1>7, <2>2, <2>3
<1>10. t \in Seq(Job) /\ \A k \in 1..Len(t) : JobGood(t[k], D, H)
  <2> DEFINE f == [x \in G |-> Folded(q, x)]
  <2>1. \A x \in G : f[x] \in Job /\ f[x].job \in Queued /\ JobGood(f[x], D, H)
    BY <1>8
  <2>2. t = SetToSeq({f[x] : x \in G}) /\ f = [x \in G |-> f[x]]
    OBVIOUS
  <2> HIDE DEF f, G, t, D, H
  <2>3. Waiting(t) /\ Holds(t, G, f)
    BY <1>5, <2>1, <2>2, ListedOf, ListedOfAll
  <2>4. QED
    BY <2>1, <2>3 DEF Waiting, Holds
<1> DEFINE js == u \o t
           b == Circular(d)
           z == [q EXCEPT !.stage = "fold", !.circular = b, !.jobs = js]
<1>11. proc' = [proc EXCEPT ![p] = z]
  BY <1>1 DEF q
<1>12. b \in BOOLEAN
  BY DEF Circular
<1>b. b = Circular(d)
  OBVIOUS
<1> HIDE DEF u, t, b
<1>13. js \in Seq(Job) /\ Joined(js, u, t)
  BY <1>9, <1>10, BothJoined
<1> HIDE DEF js
<1>14. /\ z.plan = q.plan /\ z.covered = q.covered /\ z.stage = "fold" /\ z.jobs = js
       /\ z.circular = b /\ z.loaded = FALSE
  BY <1>3, <1>12, <1>13 DEF Process
<1> HIDE DEF z
<1>15. \A c \in z.plan : c.id < next /\ RowGood(c, row[c.id], D, H, reviewed)
  <2>1. q.covered \subseteq D
    BY DEF Clears
  <2> HIDE DEF D, H
  <2>2. QED
    BY <1>4, <1>14, <2>1 DEF Good, RowGood
<1>16. \A m \in 1..Len(z.jobs) : JobGood(z.jobs[m], D, H)
  BY <1>9, <1>10, <1>13, <1>14 DEF Joined
<1>17. \A c \in z.plan : Topic[c.lesson] \in D => Settled(row[c.id]) \/ Awaited(c, z)
  <2> SUFFICES ASSUME NEW c \in q.plan, Topic[c.lesson] \in D
               PROVE  Settled(row[c.id]) \/ Awaited(c, z)
    BY <1>14
  <2>1. CASE Topic[c.lesson] \in q.covered
    <3>1. Len(q.jobs) = 0
      BY <1>2
    <3>2. ~Awaited(c, q)
      BY <3>1 DEF Awaited
    <3>3. QED
      BY <1>4, <2>1, <3>2 DEF Good
  <2>2. CASE Topic[c.lesson] \in DeletionTargets(d)
    <3> DEFINE x == Topic[c.lesson]
    <3>1. x \in DOMAIN d /\ d[x] = "delete"
      BY <2>2 DEF DeletionTargets
    <3>2. x \in T
      BY <1>3, <3>1, AnswerForms
    <3>3. Deletes(Decided(q, d, x), c.lesson)
      BY <1>7, <3>1, <3>2
    <3>4. PICK k \in 1..Len(u) : u[k] = Decided(q, d, x)
      BY <1>9, <3>2
    <3>5. PICK m \in 1..Len(js) : js[m] = u[k]
      BY <1>13 DEF Joined
    <3>6. QED
      BY <1>14, <3>3, <3>4, <3>5 DEF Awaited
  <2>3. QED
    BY <2>1, <2>2 DEF Clears
<1>18. Good(z, D, H, row, next, reviewed)
  BY <1>15, <1>16, <1>17 DEF Good
<1>19. Answers(z) = Answers(q) /\ Hides(z, d) = H /\ Clears(z, d) = D
  BY <1>14, SamePlan
<1>20. Follows(z, d, row, next, reviewed) /\ d \in Answers(z)
  BY <1>14, <1>18, <1>19, <1>b DEF Follows
<1>21. \E a \in Answers(z) : Follows(z, a, row', next', reviewed')
  BY <1>2, <1>20
<1>22. z.stage = "fold" /\ setting' = setting
  BY <1>2, <1>14
<1>23. QED
  BY <1>4, <1>11, <1>21, <1>22, FoldStep

\* A run leaves its triage.
LEMMA EnableKeepsFold ==
  ASSUME TriageInv, FoldInv, NEW p \in Procs, Enable(p) PROVE FoldInv'
<1> DEFINE C == active \cap {Topic[c.lesson] : c \in Present}
           P == Present
           r == proc[p]
           q == IF r.changed THEN [r EXCEPT !.plan = P, !.covered = C] ELSE r
<1>1. r.stage = "fold" /\ r.jobs = <<>> /\ UNCHANGED <<setting, row, next, reviewed>>
  BY DEF Enable, Busy, history
<1>2. \/ proc' = [proc EXCEPT ![p] = [q EXCEPT !.stage = "end"]]
      \/ \E t \in GroupsOf(q) \ q.covered : \E first \in LessonsOf(q, t) :
           proc' = [proc EXCEPT ![p] = [q EXCEPT !.stage = "end", !.jobs =
             <<Approve(first)>> \o SetToSeq({AlsoApprove(l) : l \in LessonsOf(q, t)})]]
  BY DEF Enable
<1>3. r \in Process /\ Planned(r.plan) /\ Planned(P) /\ C \subseteq Topics
  BY ProcFine, ProcPlanned, CoveredTyped, PresentPlanned DEF Fine
<1>4. Running(p) /\ \A o \in Procs \ {p} : ~Running(o)
  <2>1. Running(p)
    BY <1>1 DEF Running
  <2>2. QED
    BY <2>1 DEF FoldInv
<1> HIDE DEF C, P, r
<1>5. q \in Process /\ Planned(q.plan) /\ q.jobs = <<>>
  <2> DEFINE y == [r EXCEPT !.plan = P, !.covered = C]
  <2>1. y \in Process /\ y.plan = P /\ y.jobs = r.jobs
    BY <1>3 DEF Process, Planned
  <2> HIDE DEF y
  <2>2. q = y \/ q = r
    BY DEF y
  <2> HIDE DEF q
  <2>3. QED
    BY <1>1, <1>3, <2>1, <2>2
<1> HIDE DEF q
<1>6. ASSUME NEW z, proc' = [proc EXCEPT ![p] = z], z.stage = "end",
             \A k \in 1..Len(z.jobs) : z.jobs[k].job \in Harmless
      PROVE  FoldInv'
  BY <1>1, <1>4, <1>6, FoldStep
<1>7. CASE proc' = [proc EXCEPT ![p] = [q EXCEPT !.stage = "end"]]
  <2> DEFINE z == [q EXCEPT !.stage = "end"]
  <2>1. z.jobs = q.jobs /\ z.stage = "end"
    BY <1>5 DEF Process
  <2> HIDE DEF z
  <2>2. Len(z.jobs) = 0
    BY <1>5, <2>1
  <2>3. \A k \in 1..Len(z.jobs) : z.jobs[k].job \in Harmless
    BY <2>2
  <2>4. proc' = [proc EXCEPT ![p] = z]
    BY <1>7 DEF z
  <2>5. QED
    BY <1>6, <2>1, <2>3, <2>4
<1>8. ASSUME NEW t \in GroupsOf(q) \ q.covered, NEW first \in LessonsOf(q, t),
             proc' = [proc EXCEPT ![p] = [q EXCEPT !.stage = "end", !.jobs =
               <<Approve(first)>> \o SetToSeq({AlsoApprove(l) : l \in LessonsOf(q, t)})]]
      PROVE  FoldInv'
  <2> DEFINE S == LessonsOf(q, t)
             f == [l \in S |-> AlsoApprove(l)]
             s == SetToSeq({f[l] : l \in S})
             a == Approve(first)
             one == <<a>>
             js == one \o s
             z == [q EXCEPT !.stage = "end", !.jobs = js]
  <2>1. S \subseteq Lessons /\ IsFiniteSet(S) /\ first \in Lessons
    BY <1>5, LessonsAreGroup DEF Group
  <2>2. proc' = [proc EXCEPT ![p] = z]
    <3>1. {AlsoApprove(l) : l \in S} = {f[l] : l \in S}
      OBVIOUS
    <3>2. QED
      BY <1>8, <3>1
  <2> HIDE DEF S
  <2>3. \A l \in S : f[l] \in Job /\ f[l].job = "also"
    BY <2>1, JobForms DEF AlsoApprove
  <2>4. a \in Job /\ a.job = "approve"
    BY <2>1, JobForms DEF Approve
  <2>5. f = [l \in S |-> f[l]]
    OBVIOUS
  <2> HIDE DEF f, a
  <2>6. Holds(s, S, f)
    BY <2>1, <2>5, ListedOfAll
  <2>7. Waiting(s)
    <3>1. \A l \in S : f[l] \in Job /\ f[l].job \in Queued
      BY <2>3 DEF Queued
    <3>2. QED
      BY <2>1, <2>5, <3>1, ListedOf
  <2> HIDE DEF s
  <2>8. one \in Seq(Job) /\ Len(one) = 1 /\ one[1] = a
    BY <2>4
  <2> HIDE DEF one
  <2>9. js \in Seq(Job) /\ Joined(js, one, s)
    <3>1. one \in Seq(Job) /\ s \in Seq(Job)
      BY <2>7, <2>8 DEF Waiting
    <3>2. QED
      BY <3>1, BothJoined
  <2> HIDE DEF js
  <2>10. z.stage = "end" /\ z.jobs = js
    BY <1>5, <2>9 DEF Process
  <2> HIDE DEF z
  <2>11. \A k \in 1..Len(js) : js[k].job \in Harmless
    <3>1. \A k \in 1..Len(one) : one[k] = a
      BY <2>8
    <3>2. \A k \in 1..Len(s) : s[k].job = "also"
      BY <2>3, <2>6 DEF Holds
    <3>3. \A k \in 1..Len(one) : one[k].job \in Harmless
      BY <2>4, <3>1 DEF Harmless
    <3>4. \A k \in 1..Len(s) : s[k].job \in Harmless
      BY <3>2 DEF Harmless
    <3>5. QED
      BY <2>9, <3>3, <3>4 DEF Joined
  <2>12. QED
    BY <1>6, <2>2, <2>10, <2>11
<1>9. QED
  BY <1>2, <1>7, <1>8

\* Nobody has anything to do at first.
LEMMA InitFold == ASSUME Init PROVE FoldInv
<1>1. TriageInv
  BY InitTriage
<1>2. \A p \in Procs : proc[p] = Idle
  BY <1>1, ProcFine DEF Init
<1>3. Idle.stage = "idle" /\ Len(Idle.jobs) = 0
  BY DEF Idle
<1>4. \A p \in Procs : proc[p].stage = "idle" /\ Len(proc[p].jobs) = 0
  BY <1>2, <1>3
<1>5. QED
  BY <1>4 DEF FoldInv, Running

\* An upload is gentle, and leaves the processes alone.
LEMMA UploadKeepsFold ==
  ASSUME TriageInv, FoldInv, NEW i \in Ids, Upload(i) PROVE FoldInv'
<1>1. /\ i \in Rows /\ row' = [row EXCEPT ![i] = NoRow]
      /\ reviewed' = reviewed \cup {row[i].lesson} /\ UNCHANGED <<setting, next, proc>>
  BY DEF Upload
<1>2. Gentle
  <2>1. row \in [Ids -> Row \cup {NoRow}] /\ next \in Nat
    BY MemoryTriageAssumption DEF TriageInv, TypeOK
  <2>2. next' \in Nat /\ next' >= next
    BY <1>1, <2>1
  <2>3. \A k \in Ids : row'[k] = row[k] \/ (row'[k] = NoRow /\ row[k].lesson \in reviewed')
    BY <1>1, <2>1
  <2>4. reviewed \subseteq reviewed'
    BY <1>1
  <2>5. QED
    BY <2>2, <2>3, <2>4 DEF Gentle, SameMemory
<1>3. \A o \in Procs : \A D, H : Good(proc[o], D, H, row, next, reviewed) =>
        Good(proc[o], D, H, row', next', reviewed')
  BY <1>2, GentleKeepsGood
<1>4. Procs' = Procs /\ \A o : Running(o)' = Running(o)
  BY <1>1 DEF Procs, Running
<1>5. ASSUME NEW o \in Procs, proc[o].stage = "clean"
      PROVE  Good(proc[o], proc[o].covered, {}, row', next', reviewed')
  BY <1>3, <1>5 DEF FoldInv
<1>6. ASSUME NEW o \in Procs, proc[o].stage = "fold"
      PROVE  \E d \in Answers(proc[o]) : Follows(proc[o], d, row', next', reviewed')
  <2>1. PICK d \in Answers(proc[o]) : Follows(proc[o], d, row, next, reviewed)
    BY <1>6 DEF FoldInv
  <2>2. Follows(proc[o], d, row', next', reviewed')
    BY <1>3, <2>1 DEF Follows
  <2>3. QED
    BY <2>2
<1>7. QED
  BY <1>1, <1>4, <1>5, <1>6 DEF FoldInv

\* Every step keeps the invariant of the triage.
LEMMA NextFold == ASSUME TriageInv, FoldInv, [Next]_vars PROVE FoldInv'
<1>1. CASE UNCHANGED vars
  <2>1. UNCHANGED <<setting, proc, row, next, reviewed>>
    BY <1>1 DEF vars
  <2>2. FoldInv' = FoldInv
    BY <2>1 DEF FoldInv, Running, Procs
  <2>3. QED
    BY <2>2
<1>2. ASSUME NEW p \in Procs, Step(p) PROVE FoldInv'
  <2>2. CASE StartMining(p) \/ StartReview(p) \/ End(p) \/ Die(p)
    BY <2>2, ComingsKeepFold
  <2>3. CASE \/ Scan(p) \/ ReadCount(p) \/ StoreCandidate(p)
             \/ Find(p) \/ ReadPayload(p) \/ MarkApproved(p) \/ RemoveRow(p)
    BY <2>3, VisitorsKeep
  <2>4. CASE Load(p)
    BY <2>4, LoadKeepsFold
  <2>5. CASE Write(p)
    BY <2>5, WriteKeepsFold
  <2>6. CASE StartRun(p)
    BY <2>6, StartRunKeepsFold
  <2>7. CASE TriageGroups(p)
    BY <2>7, TriageGroupsKeepsFold
  <2>8. CASE TurnToGroup(p)
    BY <2>8, TurnToGroupKeepsFold
  <2>9. CASE Enable(p)
    BY <2>9, EnableKeepsFold
  <2>10. QED
    BY <1>2, <2>2, <2>3, <2>4, <2>5, <2>6, <2>7, <2>8, <2>9 DEF Step
<1>3. ASSUME NEW i \in Ids, Upload(i) PROVE FoldInv'
  BY <1>3, UploadKeepsFold
<1>4. QED
  BY <1>1, <1>2, <1>3 DEF Next

\* Where a lesson of the plan that is out of sight is hidden, when the triage has
\* nothing left to do: its topic is not one the run deletes, and the pair is one of
\* the answer's; a lesson that is gone is of a topic the run deletes.
LEMMA OutOfSight ==
  ASSUME NEW q, NEW D, NEW H, q.jobs = <<>>, Good(q, D, H, row, next, reviewed),
         NEW c \in q.plan, c.id \in Ids, row \in [Ids -> Row \cup {NoRow}], ~InSight(c.lesson)
  PROVE  \/ row[c.id] = NoRow /\ Topic[c.lesson] \in D
         \/ /\ c.id \in Rows /\ row[c.id].lesson = c.lesson /\ row[c.id].triage = "superseded"
            /\ Topic[c.lesson] \notin D /\ <<c.lesson, row[c.id].ref>> \in H
<1>1. RowGood(c, row[c.id], D, H, reviewed)
  BY DEF Good
<1>2. Len(q.jobs) = 0
  OBVIOUS
<1>3. Topic[c.lesson] \in D => Settled(row[c.id])
  BY <1>2 DEF Good, Awaited
<1>4. CASE row[c.id] = NoRow
  BY <1>1, <1>4 DEF RowGood, InSight
<1>5. CASE row[c.id] # NoRow
  <2>1. c.id \in Rows /\ row[c.id].lesson = c.lesson /\ row[c.id].triage # "dropped"
    BY <1>1, <1>5 DEF RowGood, Rows
  <2>2. ~row[c.id].approved /\ row[c.id].triage # "none"
    BY <2>1 DEF InSight, Of, Hidden
  <2>3. row[c.id].triage = "superseded"
    BY <1>5, <2>1, <2>2 DEF Row
  <2>4. QED
    BY <1>1, <1>3, <1>5, <2>1, <2>2, <2>3 DEF RowGood, Settled
<1>6. QED
  BY <1>4, <1>5

\* S is a set of lessons that is closed under hiding.
ClosedSet(S) ==
  \A i \in Rows : row[i].lesson \in S /\ row[i].triage = "superseded" => row[i].ref \in S

\* The groups whose candidate is in S, of those the answer does not delete.
GroupsIn(q, d, S) == {t \in DOMAIN d : d[t] # "delete" /\ Canonical(q, t) \in S}

\* A pair of the answer leads from a lesson to the candidate of a group that the
\* answer does not delete: its own or the one its group is folded into.
LEMMA HidesForms ==
  ASSUME NEW q, Planned(q.plan), NEW d \in Answers(q), NEW l, NEW to, <<l, to>> \in Hides(q, d),
         Topic[l] \notin Clears(q, d), NEW S, to \in S
  PROVE  \/ Topic[l] \in GroupsIn(q, d, S) /\ to = Canonical(q, Topic[l]) /\ l # to
         \/ Topic[l] \in DOMAIN d /\ d[Topic[l]] \in GroupsIn(q, d, S)
<1> DEFINE t == Topic[l]
<1>1. /\ t \in DOMAIN d
      /\ \/ to = Canonical(q, t) /\ l # to
         \/ t \in Touched(d) /\ d[t] # "delete" /\ to = Canonical(q, d[t])
  BY DEF Hides
<1>2. d[t] # "delete"
  BY <1>1 DEF Clears, DeletionTargets
<1>3. CASE to = Canonical(q, t) /\ l # to
  BY <1>1, <1>2, <1>3 DEF GroupsIn
<1>4. CASE t \in Touched(d) /\ d[t] # "delete" /\ to = Canonical(q, d[t])
  <2>1. d[t] # "keep" /\ d[t] \notin DeletionTargets(d)
    BY <1>4 DEF Touched
  <2>2. d[t] \in DOMAIN d
    BY <1>1, <1>4, <2>1, AnswerForms
  <2>3. d[d[t]] # "delete"
    BY <2>1, <2>2 DEF DeletionTargets
  <2>4. QED
    BY <1>1, <1>4, <2>2, <2>3 DEF GroupsIn
<1>5. QED
  BY <1>1, <1>3, <1>4

\* When the triage has nothing left to do, following what hides a candidate leads to
\* one in sight, or around a circle of the answer.
LEMMA TriageEnds ==
  ASSUME TriageInv, NEW p \in Procs, NEW d \in Answers(proc[p]), proc[p].jobs = <<>>,
         Good(proc[p], Clears(proc[p], d), Hides(proc[p], d), row, next, reviewed),
         NEW c \in proc[p].plan, c.id \in Rows, row[c.id].triage = "superseded",
         NEW S, row[c.id].lesson \in S, ClosedSet(S), \A l \in S : ~InSight(l)
  PROVE  Circular(d)
<1> DEFINE q == proc[p]
           D == Clears(q, d)
           H == Hides(q, d)
           T == GroupsIn(q, d, S)
<1>1. Planned(q.plan) /\ row \in [Ids -> Row \cup {NoRow}]
  BY ProcPlanned DEF TriageInv, TypeOK
<1>2. \A e \in q.plan : e.id \in Ids
  BY <1>1 DEF Planned, Candidate
<1>3. Good(q, D, H, row, next, reviewed) /\ q.jobs = <<>> /\ d \in Answers(q)
  OBVIOUS
<1> HIDE DEF q
<1>4. ASSUME NEW e \in q.plan, e.lesson \in S, row[e.id] # NoRow
      PROVE  \/ Topic[e.lesson] \in T /\ e.lesson # Canonical(q, Topic[e.lesson])
             \/ Topic[e.lesson] \in DOMAIN d /\ d[Topic[e.lesson]] \in T
  <2> DEFINE to == row[e.id].ref
  <2>1. /\ e.id \in Rows /\ row[e.id].lesson = e.lesson /\ row[e.id].triage = "superseded"
        /\ Topic[e.lesson] \notin D /\ <<e.lesson, to>> \in H
    <3> HIDE DEF D, H
    <3> QED
      BY <1>1, <1>2, <1>3, <1>4, OutOfSight
  <2>2. to \in S
    BY <1>4, <2>1 DEF ClosedSet
  <2> HIDE DEF to
  <2>3. QED
    BY <1>1, <1>3, <2>1, <2>2, HidesForms
<1>5. T # {}
  <2>1. c \in q.plan /\ row[c.id] # NoRow
    BY DEF q, Rows
  <2>2. c.lesson \in S
    BY <1>3, <2>1 DEF Good, RowGood
  <2>3. QED
    BY <1>4, <2>1, <2>2
<1>6. ASSUME NEW t \in T PROVE d[t] \in T
  <2>1. t \in DOMAIN d /\ d[t] # "delete" /\ Canonical(q, t) \in S
    BY DEF GroupsIn
  <2>2. t \in GroupsOf(q) /\ t \notin q.covered
    <3>1. DOMAIN d = GroupsOf(q) \ q.covered
      BY <1>3 DEF Answers
    <3>2. QED
      BY <2>1, <3>1
  <2>3. Canonical(q, t) \in LessonsOf(q, t)
    BY <1>1, <2>2, CanonicalIn
  <2>4. PICK e \in q.plan : Topic[e.lesson] = t /\ e.lesson = Canonical(q, t)
    BY <2>3 DEF LessonsOf, Members
  <2>5. t \notin D
    BY <2>1, <2>2 DEF Clears, DeletionTargets
  <2>6. row[e.id] # NoRow
    <3> HIDE DEF D, H
    <3>1. ~InSight(e.lesson) /\ Topic[e.lesson] \notin D /\ e.id \in Ids
      BY <1>2, <2>1, <2>4, <2>5
    <3>2. e.id \in Rows
      BY <1>1, <1>3, <3>1, OutOfSight
    <3>3. QED
      BY <3>2 DEF Rows
  <2>7. QED
    BY <1>4, <2>1, <2>4, <2>6
<1>7. T \in SUBSET DOMAIN d
  BY DEF GroupsIn
<1>8. QED
  BY <1>5, <1>6, <1>7 DEF Circular

\* The invariant of the triage implies the property.
LEMMA FoldImpliesLive == ASSUME TriageInv, FoldInv PROVE FoldedBehindLive
<1> SUFFICES ASSUME NEW p \in Procs, proc[p].stage = "fold", ~Busy(p), ~proc[p].circular,
                    NEW c \in proc[p].plan, c.id \in Rows, row[c.id].triage = "superseded",
                    NEW S \in SUBSET Lessons, row[c.id].lesson \in S, ClosedSet(S),
                    \A l \in S : ~InSight(l)
             PROVE  FALSE
  BY DEF FoldedBehindLive, ClosedSet
<1>1. PICK d \in Answers(proc[p]) : Follows(proc[p], d, row, next, reviewed)
  BY DEF FoldInv
<1>2. /\ proc[p].circular = Circular(d)
      /\ Good(proc[p], Clears(proc[p], d), Hides(proc[p], d), row, next, reviewed)
  BY <1>1 DEF Follows
<1>3. proc[p].jobs = <<>>
  BY DEF Busy
<1>4. Circular(d)
  BY <1>2, <1>3, TriageEnds
<1>5. QED
  BY <1>2, <1>4

-----------------------------------------------------------------------------
(* What is approved has an active rule                                     *)

\* A process that a mild step leaves alone keeps its promises: no rule goes.
LEMMA PromisesStay ==
  ASSUME TriageInv, Mild, active \subseteq active', NEW js \in Seq(Job),
         Promises(js, row, next, active)
  PROVE  Promises(js, row', next', active')
<1>1. next \in Nat /\ next' \in Nat /\ next' >= next /\ Ids \subseteq Nat
  BY IdsFinite, MemoryTriageAssumption DEF TriageInv, TypeOK, Mild
<1>2. ASSUME js # <<>>, Head(js).job \in {"read", "mark"}, NEW i, i = Head(js).id
      PROVE  i \in Ids /\ i < next' /\ (row'[i] # NoRow => Topic[row'[i].lesson] \in active')
  <2>1. i \in Ids /\ i < next /\ (row[i] # NoRow => Topic[row[i].lesson] \in active)
    BY <1>2 DEF Promises
  <2>2. i \in Nat /\ i < next'
    BY <1>1, <2>1
  <2>3. row'[i] # NoRow => row[i] # NoRow /\ row'[i].lesson = row[i].lesson
    BY <2>1 DEF Mild, SameMemory
  <2>4. QED
    BY <2>1, <2>2, <2>3
<1>3. \A k \in 1..Len(js) : js[k].job = "also" =>
        \/ Topic[js[k].lesson] \in active'
        \/ Head(js).job = "approve" /\ Topic[Head(js).lesson] = Topic[js[k].lesson]
  BY DEF Promises
<1>4. QED
  BY <1>2, <1>3 DEF Promises

\* No step approves a row of a topic without a rule.
Honest ==
  /\ Mild /\ active \subseteq active' /\ setting' = setting
  /\ \A i \in Ids : row'[i] # NoRow /\ row'[i].approved =>
       (row[i] # NoRow /\ row[i].approved) \/ Topic[row'[i].lesson] \in active'

\* The rows of an honest step.
LEMMA HonestRows ==
  ASSUME TriageInv, Promoted, Honest
  PROVE  \A i \in Ids : row'[i] # NoRow /\ row'[i].approved => Topic[row'[i].lesson] \in active'
<1> SUFFICES ASSUME NEW i \in Ids, row'[i] # NoRow, row'[i].approved
             PROVE  Topic[row'[i].lesson] \in active'
  OBVIOUS
<1>1. CASE row[i] # NoRow /\ row[i].approved
  <2>1. i < next /\ i \in Rows
    BY <1>1 DEF TriageInv, TypeOK, Rows
  <2>2. row'[i].lesson = row[i].lesson
    BY <2>1 DEF Honest, Mild, SameMemory
  <2>3. QED
    BY <1>1, <2>1, <2>2 DEF Promoted, Honest
<1>2. QED
  BY <1>1 DEF Honest

\* An honest step of a process keeps Promoted if the process keeps its own promises.
LEMMA PromotedStep ==
  ASSUME TriageInv, Promoted, Honest, NEW p \in Procs, NEW z, proc' = [proc EXCEPT ![p] = z],
         z.stage \notin {"clean", "fold"} => Promises(z.jobs, row', next', active')
  PROVE  Promoted'
<1>1. Procs' = Procs /\ Procs \subseteq AllProcs /\ proc \in [AllProcs -> Process]
  BY ProcFine DEF Procs, Honest, TriageInv, TypeOK
<1>2. \A o \in Procs : proc'[o] = IF o = p THEN z ELSE proc[o]
  BY <1>1
<1>3. ASSUME NEW o \in Procs, proc'[o].stage \notin {"clean", "fold"}
      PROVE  Promises(proc'[o].jobs, row', next', active')
  <2>1. CASE o = p
    BY <1>2, <1>3, <2>1
  <2>2. CASE o # p
    <3>1. proc'[o] = proc[o] /\ proc[o].jobs \in Seq(Job)
      BY <1>1, <1>2, <2>2 DEF Process
    <3>2. Promises(proc[o].jobs, row, next, active)
      BY <1>3, <3>1 DEF Promoted
    <3>3. QED
      BY <3>1, <3>2, PromisesStay DEF Honest
  <2>3. QED
    BY <2>1, <2>2
<1>4. \A i \in Rows' : row'[i].approved => Topic[row'[i].lesson] \in active'
  BY HonestRows DEF Rows
<1>5. QED
  BY <1>1, <1>3, <1>4 DEF Promoted

\* A job that a process may take on by itself.
Kept(j, table, n, rules) ==
  /\ j.job # "also"
  /\ j.job \in {"read", "mark"} =>
       j.id \in Ids /\ j.id < n /\ (table[j.id] # NoRow => Topic[table[j.id].lesson] \in rules)

\* A process that replaces its job by at most one other keeps its promises; if the job
\* was an approval, there is a rule now.
LEMMA ThenPromises ==
  ASSUME TriageInv, Promoted, Honest, NEW p \in Procs, Busy(p), NEW q, Fine(q),
         q.jobs = proc[p].jobs, q.stage = proc[p].stage,
         NEW js, js = <<>> \/ \E j \in Job : js = <<j>> /\ Kept(j, row', next', active'),
         Current(p).job = "approve" => Topic[Current(p).lesson] \in active',
         proc' = [proc EXCEPT ![p] = Then(q, js)]
  PROVE  Promoted'
<1> DEFINE old == q.jobs
           z == Then(q, js)
<1>1. old \in Seq(Job) /\ old # <<>> /\ Current(p) = Head(old)
  BY DEF Fine, Process, Busy, Current
<1>2. \A k \in 2..Len(old) : old[k].job \in Queued
  BY DEF Fine, Formed
<1>3. /\ js \in Seq(Job) /\ \A k \in 2..Len(js) : js[k].job \in Queued
      /\ \A k \in 1..Len(js) : k = 1 /\ Kept(js[1], row', next', active')
  <2>1. CASE js = <<>>
    BY <2>1
  <2>2. ASSUME NEW j \in Job, js = <<j>>, Kept(j, row', next', active')
        PROVE  /\ js \in Seq(Job) /\ \A k \in 2..Len(js) : js[k].job \in Queued
               /\ \A k \in 1..Len(js) : k = 1 /\ Kept(js[1], row', next', active')
    <3>1. js \in Seq(Job) /\ Len(js) = 1 /\ js[1] = j
      BY <2>2
    <3>2. (\A k \in 2..Len(js) : FALSE) /\ \A k \in 1..Len(js) : k = 1
      BY <3>1
    <3>3. QED
      BY <2>2, <3>1, <3>2
  <2>3. QED
    BY <2>1, <2>2
<1>4. z.jobs = Replaced(old, js) /\ z.stage = q.stage /\ z.jobs \in Seq(Job)
  <2>1. Fine(z) /\ z.jobs = js \o Tail(q.jobs) /\ z.stage = q.stage
    BY <1>1, <1>3, ThenFine
  <2>2. QED
    BY <2>1 DEF Fine, Process, Replaced
<1>5. Consists(z.jobs, old, js)
  BY <1>1, <1>3, <1>4, ThenJobs
<1>6. proc' = [proc EXCEPT ![p] = z]
  OBVIOUS
<1> HIDE DEF z
<1>7. ASSUME z.stage \notin {"clean", "fold"} PROVE Promises(z.jobs, row', next', active')
  <2>1. Promises(old, row, next, active)
    BY <1>4, <1>7 DEF Promoted
  <2> HIDE DEF old
  <2>2. \A k \in 2..Len(old) : old[k].job = "also" => Topic[old[k].lesson] \in active'
    BY <1>1, <2>1 DEF Promises, Honest
  <2>3. \A k \in 1..Len(z.jobs) : z.jobs[k].job = "also" => Topic[z.jobs[k].lesson] \in active'
    BY <1>3, <1>5, <2>2 DEF Consists, Kept
  <2>4. ASSUME NEW k \in 1..Len(z.jobs), z.jobs[k].job \in {"read", "mark"}
        PROVE  Kept(z.jobs[k], row', next', active')
    BY <1>2, <1>3, <1>5, <2>4 DEF Consists, Queued
  <2>5. z.jobs # <<>> => 1 \in 1..Len(z.jobs) /\ Head(z.jobs) = z.jobs[1]
    BY <1>4
  <2>6. z.jobs # <<>> /\ Head(z.jobs).job \in {"read", "mark"} =>
          Kept(Head(z.jobs), row', next', active')
    BY <2>4, <2>5
  <2>7. QED
    BY <2>3, <2>6 DEF Promises, Kept
<1>8. QED
  BY <1>6, <1>7, PromotedStep

\* A step that leaves the rows alone is honest.
LEMMA QuietIsHonest ==
  ASSUME TriageInv, UNCHANGED <<setting, row, next, judged, overtaken>>, active \subseteq active'
  PROVE  Honest
BY QuietIsMild DEF Honest

\* A process without jobs, or with one that is nobody's approval, has promised nothing.
LEMMA NothingPromised ==
  ASSUME NEW js, js = <<>> \/ \E j : js = <<j>> /\ j.job \notin {"also", "read", "mark"},
         NEW table, NEW n, NEW rules
  PROVE  Promises(js, table, n, rules)
<1>1. CASE js = <<>>
  BY <1>1 DEF Promises
<1>2. ASSUME NEW j, js = <<j>>, j.job \notin {"also", "read", "mark"}
      PROVE  Promises(js, table, n, rules)
  <2>1. Len(js) = 1 /\ js[1] = j /\ Head(js) = j
    BY <1>2
  <2>2. \A k \in 1..Len(js) : js[k] = j
    BY <2>1
  <2>3. QED
    BY <1>2, <2>1, <2>2 DEF Promises
<1>3. QED
  BY <1>1, <1>2

\* Processes that start, end, are killed or turn to a group.
LEMMA ComingsPromote ==
  ASSUME TriageInv, FoldInv, Promoted, NEW p \in Procs,
         \/ StartMining(p) \/ StartReview(p) \/ StartRun(p) \/ TriageGroups(p) \/ TurnToGroup(p)
         \/ End(p) \/ Die(p)
  PROVE  Promoted'
<1>1. UNCHANGED <<setting, row, next, active, judged, overtaken>>
  BY DEF StartMining, StartReview, StartRun, TriageGroups, TurnToGroup, End, Die, Started, history
<1>2. Honest
  BY <1>1, QuietIsHonest
<1>3. Procs \subseteq AllProcs /\ proc[p] \in Process /\ proc \in [AllProcs -> Process]
  BY ProcFine DEF Fine, TriageInv, TypeOK
<1>4. ASSUME NEW st, NEW j, j.job \notin {"also", "read", "mark"}, Begin(p, st, <<j>>)
      PROVE  Promoted'
  <2> DEFINE js == <<j>>
             z == [proc[p] EXCEPT !.stage = st, !.jobs = js]
  <2>1. Promises(js, row', next', active')
    BY <1>4, NothingPromised
  <2> HIDE DEF js
  <2>2. z.jobs = js
    BY <1>3 DEF Process
  <2>3. proc' = [proc EXCEPT ![p] = z]
    BY <1>4 DEF Begin, js
  <2> HIDE DEF z
  <2>4. QED
    BY <1>2, <2>1, <2>2, <2>3, PromotedStep
<1>5. CASE StartMining(p)
  <2>1. PICK l, s : Begin(p, "mine", <<Mine(l, s)>>)
    BY <1>5 DEF StartMining
  <2>2. Mine(l, s).job = "mine"
    BY DEF Mine
  <2>3. QED
    BY <1>4, <2>1, <2>2
<1>6. CASE StartReview(p)
  <2>1. PICK l \in Lessons : \E j \in {Approve(l), Reject(l)} : Begin(p, "review", <<j>>)
    BY <1>6 DEF StartReview
  <2>2. PICK j \in {Approve(l), Reject(l)} : Begin(p, "review", <<j>>)
    BY <2>1
  <2>3. Approve(l).job = "approve" /\ Reject(l).job = "reject"
    BY DEF Approve, Reject
  <2>4. j.job \notin {"also", "read", "mark"}
    BY <2>2, <2>3
  <2>5. QED
    BY <1>4, <2>2, <2>4
<1>7. CASE End(p) \/ Die(p)
  <2> DEFINE z == Idle
  <2>1. proc' = [proc EXCEPT ![p] = z]
    BY <1>7 DEF End, Die
  <2>2. z.jobs = <<>>
    BY DEF Idle
  <2> HIDE DEF z
  <2>3. Promises(z.jobs, row', next', active')
    BY <2>2, NothingPromised
  <2>4. QED
    BY <1>2, <2>1, <2>3, PromotedStep
<1>8. ASSUME NEW z, proc' = [proc EXCEPT ![p] = z], z.stage \in {"clean", "fold"} PROVE Promoted'
  BY <1>2, <1>8, PromotedStep
<1>9. CASE StartRun(p)
  <2> DEFINE P == Present
             C == active \cap {Topic[c.lesson] : c \in Present}
             q == [proc[p] EXCEPT !.stage = "clean", !.plan = P, !.covered = C]
             js == <<Purge>> \o SetToSeq({Clear(LessonsOf(q, t)) : t \in q.covered})
             z == [q EXCEPT !.jobs = js]
  <2>1. proc' = [proc EXCEPT ![p] = z]
    BY <1>9 DEF StartRun
  <2> HIDE DEF P, C, js
  <2>2. z.stage = "clean"
    BY <1>3 DEF Process
  <2> HIDE DEF z
  <2>3. QED
    BY <1>8, <2>1, <2>2
<1>10. CASE TriageGroups(p)
  <2>1. PICK b, js : proc' = [proc EXCEPT ![p] = [proc[p] EXCEPT !.stage = "fold", !.circular = b, !.jobs = js]]
    BY <1>10 DEF TriageGroups
  <2> DEFINE z == [proc[p] EXCEPT !.stage = "fold", !.circular = b, !.jobs = js]
  <2>2. z.stage = "fold"
    BY <1>3 DEF Process
  <2> HIDE DEF z
  <2>3. QED
    BY <1>8, <2>1, <2>2 DEF z
<1>11. CASE TurnToGroup(p)
  <2> DEFINE js == Expanded(Current(p))
             z == Then(proc[p], js)
  <2>1. Busy(p) /\ Current(p).job \in {"clear", "fold", "gather"}
        /\ proc' = [proc EXCEPT ![p] = z]
    BY <1>11 DEF TurnToGroup
  <2>2. proc[p].stage \in {"clean", "fold"}
    <3>1. proc[p].jobs \in Seq(Job) /\ proc[p].jobs # <<>> /\ Current(p) = proc[p].jobs[1]
      BY <1>3, <2>1 DEF Process, Busy, Current
    <3>2. 1 \in 1..Len(proc[p].jobs) /\ Current(p).job \notin Harmless
      BY <2>1, <3>1 DEF Harmless
    <3>3. QED
      BY <3>1, <3>2 DEF FoldInv
  <2> HIDE DEF js
  <2>3. z.stage = proc[p].stage
    BY <1>3 DEF Then, Process
  <2> HIDE DEF z
  <2>4. QED
    BY <1>8, <2>1, <2>2, <2>3
<1>12. QED
  BY <1>5, <1>6, <1>7, <1>9, <1>10, <1>11

\* A miner has no approval under way.
LEMMA MinersPromote ==
  ASSUME TriageInv, Promoted, NEW p \in Procs, Scan(p) \/ ReadCount(p) \/ StoreCandidate(p)
  PROVE  Promoted'
<1>1. Fine(proc[p]) /\ Busy(p) /\ Current(p) \in Job /\ Current(p).job \in {"mine", "count", "store"}
  BY ProcFine, CurrentIsJob DEF Scan, ReadCount, StoreCandidate, Doing
<1>2. Current(p).lesson \in Lessons
  BY <1>1, JobFields
<1>3. Honest
  <2>1. CASE Scan(p) \/ ReadCount(p)
    BY <2>1, QuietIsHonest DEF Scan, ReadCount
  <2>2. CASE StoreCandidate(p)
    <3>1. Mild /\ setting' = setting /\ active' = active
      BY <2>2, StoreCandidateKeeps DEF StoreCandidate
    <3> DEFINE r == [lesson |-> Current(p).lesson, session |-> Current(p).session, evidence |-> 0,
                     triage |-> "none", ref |-> NoLesson, approved |-> FALSE]
    <3>2. row \in [Ids -> Row \cup {NoRow}] /\ row' = [row EXCEPT ![next] = r] /\ r.approved = FALSE
      BY <2>2 DEF StoreCandidate, TriageInv, TypeOK
    <3> HIDE DEF r
    <3>3. \A i \in Ids : row'[i] = row[i] \/ row'[i].approved = FALSE
      BY <3>2
    <3>4. QED
      BY <3>1, <3>3 DEF Honest
  <2>3. QED
    BY <2>1, <2>2
<1>4. ASSUME NEW js, proc' = [proc EXCEPT ![p] = Then(proc[p], js)],
             js = <<>> \/ \E j \in Job : js = <<j>> /\ j.job \notin {"also", "read", "mark"}
      PROVE  Promoted'
  <2>1. js = <<>> \/ \E j \in Job : js = <<j>> /\ Kept(j, row', next', active')
    BY <1>4 DEF Kept
  <2>2. Current(p).job # "approve"
    BY <1>1
  <2>3. QED
    BY <1>1, <1>3, <1>4, <2>1, <2>2, ThenPromises
<1>5. CASE Scan(p)
  <2> DEFINE j == Current(p)
             i == Max(Matching(j.lesson))
             a == Store(j.lesson, j.session)
             b == row[i].session = j.session
             c == Count(j.lesson, Behind(i), b)
  <2>1. \/ proc' = [proc EXCEPT ![p] = Then(proc[p], <<>>)]
        \/ proc' = [proc EXCEPT ![p] = Then(proc[p], <<a>>)]
        \/ Matching(j.lesson) # {} /\ proc' = [proc EXCEPT ![p] = Then(proc[p], <<c>>)]
    BY <1>5 DEF Scan
  <2>2. a \in Job /\ a.job = "store"
    <3>1. j.session \in Sessions
      BY <1>1, <1>5, JobFields DEF Scan, Doing
    <3>2. QED
      BY <1>2, <3>1, JobForms DEF Store
  <2>3. Matching(j.lesson) # {} => c \in Job /\ c.job = "count"
    <3> SUFFICES ASSUME Matching(j.lesson) # {} PROVE c \in Job /\ c.job = "count"
      OBVIOUS
    <3>1. Matching(j.lesson) \in SUBSET Ids /\ Matching(j.lesson) \subseteq Rows
      BY DEF Matching, Rows
    <3>2. i \in Rows
      BY <3>1, NewestIn
    <3>3. row[i] \in Row
      BY <3>2, RowsTyped
    <3>4. Behind(i) \in Lessons
      BY <3>3 DEF Behind, Row
    <3>5. QED
      BY <1>2, <3>4, JobForms DEF Count
  <2> HIDE DEF a, c
  <2>4. QED
    BY <1>4, <2>1, <2>2, <2>3
<1>6. CASE ReadCount(p)
  <2> DEFINE j == Current(p)
  <2>1. CASE proc' = [proc EXCEPT ![p] = Then(proc[p], <<>>)]
    BY <1>4, <2>1
  <2>2. ASSUME NEW i \in Of(j.to),
               proc' = [proc EXCEPT ![p] = Then(proc[p], <<SetEvidence(j.to, NextCount(i, j.again))>>)]
        PROVE  Promoted'
    <3> DEFINE c == SetEvidence(j.to, NextCount(i, j.again))
    <3>1. j.to \in Lessons
      BY <1>1, <1>6, JobFields DEF ReadCount, Doing
    <3>2. row[i] \in Row
      BY RowsTyped DEF Of
    <3>3. NextCount(i, j.again) \in Nat
      BY <3>2 DEF NextCount, EvidenceOf, Row
    <3>4. c \in Job /\ c.job = "evidence"
      BY <3>1, <3>3, JobForms DEF SetEvidence
    <3>5. proc' = [proc EXCEPT ![p] = Then(proc[p], <<c>>)]
      BY <2>2
    <3> HIDE DEF c
    <3>6. QED
      BY <1>4, <3>4, <3>5
  <2>3. QED
    BY <1>6, <2>1, <2>2 DEF ReadCount
<1>7. CASE StoreCandidate(p)
  <2>1. proc' = [proc EXCEPT ![p] = Then(proc[p], <<>>)]
    BY <1>7 DEF StoreCandidate
  <2>2. QED
    BY <1>4, <2>1
<1>8. QED
  BY <1>5, <1>6, <1>7

\* A job on rows promises nothing, and approves nothing.
LEMMA RowJobsPromote ==
  ASSUME TriageInv, Promoted, NEW p \in Procs, Load(p) \/ Write(p) PROVE Promoted'
<1> DEFINE r == proc[p]
           j == Current(p)
<1>1. Fine(r) /\ r \in Process /\ Busy(p) /\ r.jobs \in Seq(Job) /\ j \in Job
  BY ProcFine, CurrentIsJob DEF Load, Write, Fine
<1>2. j.job \in OnRows
  BY <1>1 DEF Load, Write, Fine, Formed, Current, OnRows
<1>3. Honest
  <2>1. CASE Load(p)
    BY <2>1, QuietIsHonest DEF Load, history
  <2>2. CASE Write(p)
    <3> DEFINE S == r.todo
               i == Max(S)
               w == Written(j, row[i])
    <3>1. Mild /\ setting' = setting /\ active' = active /\ row' = [row EXCEPT ![i] = w]
      BY <2>2, WriteKeeps DEF Write
    <3>2. i \in Ids
      <4>1. S \in SUBSET Ids /\ S # {}
        BY <1>1, <2>2 DEF Write, Fine, Formed, Process
      <4> HIDE DEF S
      <4>2. QED
        BY <4>1, NewestIn
    <3>3. row \in [Ids -> Row \cup {NoRow}] /\ row[i] \in Row \cup {NoRow}
      BY <3>2 DEF TriageInv, TypeOK
    <3> HIDE DEF i, j
    <3>4. w # NoRow => row[i] # NoRow /\ w.approved = row[i].approved
      <4>1. CASE row[i] = NoRow
        BY <4>1 DEF Written
      <4>2. CASE row[i] # NoRow /\ j.job = "evidence"
        BY <3>3, <4>2 DEF Written, Row
      <4>3. CASE row[i] # NoRow /\ j.job = "triage"
        BY <3>3, <4>3 DEF Written, Row
      <4>4. CASE row[i] # NoRow /\ j.job \notin {"evidence", "triage"}
        BY <4>4 DEF Written
      <4>5. QED
        BY <4>1, <4>2, <4>3, <4>4
    <3> HIDE DEF w
    <3>5. \A k \in Ids : row'[k] = IF k = i THEN w ELSE row[k]
      BY <3>1, <3>2, <3>3
    <3>6. QED
      BY <3>1, <3>4, <3>5 DEF Honest
  <2>3. QED
    BY <2>1, <2>2
<1>4. ASSUME NEW q, Fine(q), q.jobs = r.jobs, q.stage = r.stage,
             proc' = [proc EXCEPT ![p] = Then(q, <<>>)]
      PROVE  Promoted'
  <2>1. j.job # "approve"
    BY <1>2 DEF OnRows
  <2>2. QED
    BY <1>1, <1>3, <1>4, <2>1, ThenPromises
<1>5. ASSUME NEW z, z.jobs = r.jobs, z.stage = r.stage, proc' = [proc EXCEPT ![p] = z]
      PROVE  Promoted'
  <2>1. z.stage \notin {"clean", "fold"} => Promises(z.jobs, row', next', active')
    BY <1>1, <1>3, <1>5, PromisesStay DEF Promoted, Honest
  <2>2. QED
    BY <1>3, <1>5, <2>1, PromotedStep
<1>6. CASE Load(p)
  <2> DEFINE S == Chosen(j)
             z == [r EXCEPT !.todo = S, !.loaded = TRUE]
  <2>1. \/ proc' = [proc EXCEPT ![p] = Then(r, <<>>)]
        \/ proc' = [proc EXCEPT ![p] = z]
    BY <1>6 DEF Load
  <2> HIDE DEF S
  <2>2. z.jobs = r.jobs /\ z.stage = r.stage
    BY <1>1 DEF Process
  <2> HIDE DEF z
  <2>3. QED
    BY <1>1, <1>4, <1>5, <2>1, <2>2
<1>7. CASE Write(p)
  <2> DEFINE b == Running(p)
             q == [r EXCEPT !.changed = b]
             i == Max(r.todo)
             T == q.todo \ {i}
             z == [q EXCEPT !.todo = T]
  <2>1. \/ proc' = [proc EXCEPT ![p] = Then(q, <<>>)]
        \/ proc' = [proc EXCEPT ![p] = z]
    BY <1>7 DEF Write
  <2>2. b \in BOOLEAN
    BY DEF Running
  <2> HIDE DEF b, i
  <2>3. /\ q.jobs = r.jobs /\ q.stage = r.stage /\ q.todo = r.todo /\ q.loaded = r.loaded
        /\ q.plan = r.plan /\ q \in Process
    BY <1>1, <2>2 DEF Process
  <2>4. r.stage # "idle"
    <3>1. Idle.jobs = <<>>
      BY DEF Idle
    <3>2. QED
      BY <1>1, <3>1 DEF Fine, Busy
  <2>5. Fine(q)
    BY <1>1, <2>3, <2>4 DEF Fine, Formed
  <2> HIDE DEF q, T
  <2>6. z.jobs = q.jobs /\ z.stage = q.stage
    BY <2>3 DEF Process
  <2> HIDE DEF z
  <2>7. QED
    BY <1>4, <1>5, <2>1, <2>3, <2>5, <2>6
<1>8. QED
  BY <1>6, <1>7

\* A review promotes a rule before it reads the row it will mark.
LEMMA ReviewsPromote ==
  ASSUME TriageInv, FoldInv, Promoted, NEW p \in Procs,
         Find(p) \/ ReadPayload(p) \/ MarkApproved(p) \/ RemoveRow(p)
  PROVE  Promoted'
<1> DEFINE r == proc[p]
           j == Current(p)
<1>1. Fine(r) /\ r \in Process /\ Busy(p) /\ j \in Job /\ r.jobs \in Seq(Job) /\ j = Head(r.jobs)
      /\ j.job \in {"approve", "also", "reject", "read", "mark", "remove"}
  BY ProcFine, CurrentIsJob DEF Find, ReadPayload, MarkApproved, RemoveRow, Doing, Fine, Current
<1>2. Promises(r.jobs, row, next, active) /\ r.jobs # <<>> /\ 1 \in 1..Len(r.jobs)
      /\ j = r.jobs[1]
  <2>1. r.jobs # <<>> /\ 1 \in 1..Len(r.jobs) /\ j = r.jobs[1]
    BY <1>1 DEF Busy
  <2>2. r.stage \notin {"clean", "fold"}
    BY <1>1, NotInTriage DEF OfTriage
  <2>3. QED
    BY <2>1, <2>2 DEF Promoted
<1>3. ASSUME NEW i, j.job \in {"read", "mark"}, i = j.id
      PROVE  i \in Ids /\ i < next /\ (row[i] # NoRow => Topic[row[i].lesson] \in active)
  BY <1>1, <1>2, <1>3 DEF Promises
<1>4. ASSUME Honest, proc' = [proc EXCEPT ![p] = [r EXCEPT !.jobs = <<>>]] PROVE Promoted'
  <2> DEFINE none == <<>>
             z == [r EXCEPT !.jobs = none]
  <2>1. Promises(none, row', next', active')
    BY NothingPromised
  <2>2. proc' = [proc EXCEPT ![p] = z]
    BY <1>4
  <2> HIDE DEF none
  <2>3. z.jobs = none
    BY <1>1 DEF Process
  <2> HIDE DEF z
  <2>4. QED
    BY <1>4, <2>1, <2>2, <2>3, PromotedStep
<1>5. ASSUME Honest, proc' = [proc EXCEPT ![p] = Then(r, <<>>)], j.job # "approve"
      PROVE  Promoted'
  BY <1>1, <1>5, ThenPromises
<1>6. CASE Find(p)
  <2> DEFINE f == Of(j.lesson) \cap Visible
             i == Max(f)
  <2>1. UNCHANGED <<setting, row, next, judged, overtaken>> /\ active \subseteq active'
        /\ j.job \in {"approve", "also", "reject"}
    BY <1>6 DEF Find, history
  <2>2. Honest
    BY <2>1, QuietIsHonest
  <2>3. CASE f = {}
    <3>1. IF j.job = "also" THEN proc' = [proc EXCEPT ![p] = Then(r, <<>>)]
          ELSE proc' = [proc EXCEPT ![p] = [r EXCEPT !.jobs = <<>>]]
      BY <1>6, <2>3 DEF Find
    <3>2. QED
      BY <1>4, <1>5, <2>2, <3>1
  <2>4. CASE f # {}
    <3> DEFINE c == IF j.job = "reject" THEN RemoveId(i) ELSE Read(i)
    <3>1. /\ proc' = [proc EXCEPT ![p] = Then(r, <<c>>)]
          /\ j.job = "approve" => Topic[j.lesson] \in active'
      BY <1>6, <2>4 DEF Find
    <3>2. f \in SUBSET Ids /\ f \subseteq Rows /\ \A k \in f : row[k].lesson = j.lesson
      BY DEF Of, Visible, Rows
    <3>3. i \in f
      <4> HIDE DEF f
      <4> QED
        BY <2>4, <3>2, NewestIn
    <3>4. i \in Ids /\ i < next /\ row[i].lesson = j.lesson
      BY <3>2, <3>3, RowsTyped
    <3>5. j.job = "also" => Topic[j.lesson] \in active'
      BY <1>1, <1>2, <2>1 DEF Promises
    <3> HIDE DEF i
    <3>6. /\ Read(i) \in Job /\ RemoveId(i) \in Job /\ Read(i).job = "read" /\ Read(i).id = i
          /\ RemoveId(i).job = "remove"
      BY <3>4, JobForms DEF Read, RemoveId
    <3>7. c \in Job /\ Kept(c, row', next', active')
      <4>1. CASE j.job = "reject"
        BY <3>6, <4>1 DEF Kept
      <4>2. CASE j.job # "reject"
        BY <2>1, <3>1, <3>4, <3>5, <3>6, <4>2 DEF Kept
      <4>3. QED
        BY <4>1, <4>2
    <3> HIDE DEF c
    <3>8. QED
      BY <1>1, <2>2, <3>1, <3>7, ThenPromises
  <2>5. QED
    BY <2>3, <2>4
<1>7. CASE ReadPayload(p)
  <2> DEFINE i == j.id
             c == Mark(i, row[i])
  <2>1. UNCHANGED <<setting, row, next, active, judged, overtaken>> /\ j.job = "read"
    BY <1>7 DEF ReadPayload, Doing, history
  <2>2. Honest
    BY <2>1, QuietIsHonest
  <2>3. CASE row[i] = NoRow
    <3>1. proc' = [proc EXCEPT ![p] = [r EXCEPT !.jobs = <<>>]]
      BY <1>7, <2>3 DEF ReadPayload
    <3>2. QED
      BY <1>4, <2>2, <3>1
  <2>4. CASE row[i] # NoRow
    <3>1. proc' = [proc EXCEPT ![p] = Then(r, <<c>>)]
      BY <1>7, <2>4 DEF ReadPayload
    <3>2. i \in Ids /\ i < next /\ Topic[row[i].lesson] \in active
      BY <1>3, <2>1, <2>4
    <3>3. row[i] \in Row
      BY <2>4, <3>2 DEF TriageInv, TypeOK
    <3> HIDE DEF i
    <3>4. c \in Job /\ c.job = "mark" /\ c.id = i
      BY <3>2, <3>3, JobForms DEF Mark
    <3> HIDE DEF c
    <3>5. Kept(c, row', next', active')
      BY <2>1, <3>2, <3>4 DEF Kept
    <3>6. j.job # "approve"
      BY <2>1
    <3>7. QED
      BY <1>1, <2>2, <3>1, <3>4, <3>5, <3>6, ThenPromises
  <2>5. QED
    BY <2>3, <2>4
<1>8. CASE MarkApproved(p)
  <2> DEFINE i == j.id
             y == [j.payload EXCEPT !.approved = TRUE]
  <2>1. /\ Mild /\ setting' = setting /\ active' = active /\ j.job = "mark"
        /\ row' = [row EXCEPT ![i] = IF row[i] = NoRow THEN NoRow ELSE y]
        /\ proc' = [proc EXCEPT ![p] = Then(r, <<>>)]
    BY <1>8, MarkApprovedKeeps DEF MarkApproved, Doing
  <2>2. i \in Ids /\ i < next /\ (row[i] # NoRow => Topic[row[i].lesson] \in active)
    BY <1>3, <2>1
  <2>3. row \in [Ids -> Row \cup {NoRow}]
    BY DEF TriageInv, TypeOK
  <2> HIDE DEF i, y
  <2>4. \A k \in Ids : row'[k] = row[k] \/ k = i
    BY <2>1, <2>2, <2>3
  <2>5. row'[i] # NoRow => Topic[row'[i].lesson] \in active'
    BY <2>1, <2>2 DEF Mild, SameMemory
  <2>6. Honest
    BY <2>1, <2>4, <2>5 DEF Honest
  <2>7. QED
    BY <1>5, <2>1, <2>6
<1>9. CASE RemoveRow(p)
  <2>1. /\ Mild /\ setting' = setting /\ active' = active /\ j.job = "remove"
        /\ row' = [row EXCEPT ![j.id] = NoRow]
        /\ proc' = [proc EXCEPT ![p] = Then(r, <<>>)]
    BY <1>9, RemoveRowKeeps DEF RemoveRow, Doing
  <2>2. j.id \in Ids /\ row \in [Ids -> Row \cup {NoRow}]
    BY <1>1, <2>1, JobFields DEF TriageInv, TypeOK
  <2> HIDE DEF j
  <2>3. \A k \in Ids : row'[k] = row[k] \/ row'[k] = NoRow
    BY <2>1, <2>2
  <2>4. Honest
    BY <2>1, <2>3 DEF Honest
  <2>5. QED
    BY <1>5, <2>1, <2>4
<1>10. QED
  BY <1>6, <1>7, <1>8, <1>9

\* A run approves the first candidate of a group before the others.
LEMMA EnablePromotes == ASSUME TriageInv, Promoted, NEW p \in Procs, Enable(p) PROVE Promoted'
<1> DEFINE C == active \cap {Topic[c.lesson] : c \in Present}
           P == Present
           r == proc[p]
           q == IF r.changed THEN [r EXCEPT !.plan = P, !.covered = C] ELSE r
<1>1. r.jobs = <<>> /\ UNCHANGED <<setting, row, next, active, judged, overtaken>>
  BY DEF Enable, Busy, history
<1>2. \/ proc' = [proc EXCEPT ![p] = [q EXCEPT !.stage = "end"]]
      \/ \E t \in GroupsOf(q) \ q.covered : \E first \in LessonsOf(q, t) :
           proc' = [proc EXCEPT ![p] = [q EXCEPT !.stage = "end", !.jobs =
             <<Approve(first)>> \o SetToSeq({AlsoApprove(l) : l \in LessonsOf(q, t)})]]
  BY DEF Enable
<1>3. r \in Process /\ Planned(r.plan) /\ Planned(P) /\ C \subseteq Topics
  BY ProcFine, ProcPlanned, CoveredTyped, PresentPlanned DEF Fine
<1>4. Honest
  BY <1>1, QuietIsHonest
<1> HIDE DEF C, P, r
<1>5. q \in Process /\ Planned(q.plan) /\ q.jobs = <<>>
  <2> DEFINE y == [r EXCEPT !.plan = P, !.covered = C]
  <2>1. y \in Process /\ y.plan = P /\ y.jobs = r.jobs
    BY <1>3 DEF Process, Planned
  <2> HIDE DEF y
  <2>2. q = y \/ q = r
    BY DEF y
  <2> HIDE DEF q
  <2>3. QED
    BY <1>1, <1>3, <2>1, <2>2
<1> HIDE DEF q
<1>6. CASE proc' = [proc EXCEPT ![p] = [q EXCEPT !.stage = "end"]]
  <2> DEFINE z == [q EXCEPT !.stage = "end"]
  <2>1. z.jobs = <<>> /\ proc' = [proc EXCEPT ![p] = z]
    BY <1>5, <1>6 DEF Process
  <2> HIDE DEF z
  <2>2. Promises(z.jobs, row', next', active')
    BY <2>1, NothingPromised
  <2>3. QED
    BY <1>4, <2>1, <2>2, PromotedStep
<1>7. ASSUME NEW t \in GroupsOf(q) \ q.covered, NEW first \in LessonsOf(q, t),
             proc' = [proc EXCEPT ![p] = [q EXCEPT !.stage = "end", !.jobs =
               <<Approve(first)>> \o SetToSeq({AlsoApprove(l) : l \in LessonsOf(q, t)})]]
      PROVE  Promoted'
  <2> DEFINE S == LessonsOf(q, t)
             f == [l \in S |-> AlsoApprove(l)]
             s == SetToSeq({f[l] : l \in S})
             a == Approve(first)
             one == <<a>>
             js == one \o s
             z == [q EXCEPT !.stage = "end", !.jobs = js]
  <2>1. S \subseteq Lessons /\ IsFiniteSet(S) /\ first \in Lessons
    BY <1>5, LessonsAreGroup DEF Group
  <2>2. \A l \in S : Topic[l] = t
    BY DEF LessonsOf, Members
  <2>3. proc' = [proc EXCEPT ![p] = z]
    <3>1. {AlsoApprove(l) : l \in S} = {f[l] : l \in S}
      OBVIOUS
    <3>2. QED
      BY <1>7, <3>1
  <2>4. first \in S
    BY <1>7
  <2> HIDE DEF S
  <2>5. \A l \in S : f[l] \in Job /\ f[l].job = "also" /\ f[l].lesson = l
    BY <2>1, JobForms DEF AlsoApprove
  <2>6. a \in Job /\ a.job = "approve" /\ a.lesson = first
    BY <2>1, JobForms DEF Approve
  <2>7. f = [l \in S |-> f[l]]
    OBVIOUS
  <2> HIDE DEF f, a
  <2>8. Holds(s, S, f)
    BY <2>1, <2>7, ListedOfAll
  <2>9. Waiting(s)
    <3>1. \A l \in S : f[l] \in Job /\ f[l].job \in Queued
      BY <2>5 DEF Queued
    <3>2. QED
      BY <2>1, <2>7, <3>1, ListedOf
  <2> HIDE DEF s
  <2>10. js \in Seq(Job) /\ js # <<>> /\ Head(js) = a
    BY <2>6, <2>9, Prefixed
  <2>11. Joined(js, one, s) /\ \A k \in 1..Len(one) : one[k] = a
    <3>1. one \in Seq(Job) /\ s \in Seq(Job) /\ \A k \in 1..Len(one) : one[k] = a
      BY <2>6, <2>9 DEF Waiting
    <3> HIDE DEF one
    <3>2. QED
      BY <3>1, BothJoined
  <2> HIDE DEF one, js
  <2>12. z.jobs = js
    BY <1>5, <2>10 DEF Process
  <2> HIDE DEF z
  <2>13. \A k \in 1..Len(js) : js[k] = a \/ \E l \in S : js[k] = f[l]
    <3>1. \A k \in 1..Len(js) : \/ \E m \in 1..Len(one) : js[k] = one[m]
                                \/ \E m \in 1..Len(s) : js[k] = s[m]
      BY <2>11 DEF Joined
    <3>2. \A m \in 1..Len(one) : one[m] = a
      BY <2>11
    <3>3. \A m \in 1..Len(s) : \E l \in S : s[m] = f[l]
      BY <2>8 DEF Holds
    <3> HIDE DEF a, f
    <3>4. QED
      BY <3>1, <3>2, <3>3
  <2>14. Promises(js, row', next', active')
    <3>1. \A k \in 1..Len(js) : js[k].job = "also" => Topic[js[k].lesson] = Topic[first]
      BY <2>2, <2>4, <2>5, <2>6, <2>13
    <3>2. QED
      BY <2>6, <2>10, <3>1 DEF Promises
  <2>15. QED
    BY <1>4, <2>3, <2>12, <2>14, PromotedStep
<1>8. QED
  BY <1>2, <1>6, <1>7

\* An upload takes an approved row, and no rule.
LEMMA UploadPromotes ==
  ASSUME TriageInv, Promoted, NEW i \in Ids, Upload(i) PROVE Promoted'
<1>1. Mild /\ row' = [row EXCEPT ![i] = NoRow] /\ UNCHANGED <<setting, next, active, proc>>
  BY UploadKeeps DEF Upload
<1>2. row \in [Ids -> Row \cup {NoRow}] /\ Procs \subseteq AllProcs /\ proc \in [AllProcs -> Process]
  BY ProcFine DEF TriageInv, TypeOK
<1>3. \A k \in Ids : row'[k] = row[k] \/ row'[k] = NoRow
  BY <1>1, <1>2
<1>4. Honest
  BY <1>1, <1>3 DEF Honest
<1>5. ASSUME NEW p \in Procs, proc[p].stage \notin {"clean", "fold"}
      PROVE  Promises(proc[p].jobs, row', next', active')
  <2>1. proc[p].jobs \in Seq(Job)
    BY <1>2 DEF Process
  <2>2. Promises(proc[p].jobs, row, next, active)
    BY <1>5 DEF Promoted
  <2>3. QED
    BY <1>4, <2>1, <2>2, PromisesStay DEF Honest
<1>6. \A k \in Rows' : row'[k].approved => Topic[row'[k].lesson] \in active'
  BY <1>4, HonestRows DEF Rows
<1>7. Procs' = Procs
  BY <1>1 DEF Procs
<1>8. QED
  BY <1>1, <1>5, <1>6, <1>7 DEF Promoted

\* The rows that are approved at first have their rules.
LEMMA InitPromoted == ASSUME Init PROVE Promoted
<1>1. \A i \in Rows : row[i].approved => Topic[row[i].lesson] \in active
  <2>1. active = {Topic[row[i].lesson] : i \in {k \in Rows : row[k].approved}}
    BY DEF Init
  <2>2. QED
    BY <2>1
<1>2. Procs \subseteq AllProcs
  BY MemoryTriageAssumption DEF Init, Procs, Setting
<1>3. \A p \in Procs : proc[p].jobs = <<>>
  BY <1>2 DEF Init, Idle
<1>4. QED
  BY <1>1, <1>3, NothingPromised DEF Promoted

\* Every step keeps the promises.
LEMMA NextPromoted == ASSUME TriageInv, FoldInv, Promoted, [Next]_vars PROVE Promoted'
<1>1. CASE UNCHANGED vars
  <2>1. UNCHANGED <<setting, row, next, active, proc>>
    BY <1>1 DEF vars
  <2>2. QED
    BY <2>1 DEF Promoted, Procs, Rows
<1>2. ASSUME NEW p \in Procs, Step(p) PROVE Promoted'
  BY <1>2, ComingsPromote, MinersPromote, RowJobsPromote, ReviewsPromote, EnablePromotes DEF Step
<1>3. ASSUME NEW i \in Ids, Upload(i) PROVE Promoted'
  BY <1>3, UploadPromotes
<1>4. QED
  BY <1>1, <1>2, <1>3 DEF Next

-----------------------------------------------------------------------------
(* The theorems                                                            *)

\* The three invariants hold together: an upload keeps the first because of the third,
\* and the third rests on the other two.
THEOREM TriageAlways == Spec => [](TriageInv /\ FoldInv /\ Promoted)
<1> DEFINE I == TriageInv /\ FoldInv /\ Promoted
<1>1. Init => I
  BY InitTriage, InitFold, InitPromoted
<1>2. I /\ [Next]_vars => I'
  BY NextTriage, NextFold, NextPromoted
<1>3. QED
  BY <1>1, <1>2, PTL DEF Spec

\* The rows, the plans and the jobs always have their types; in particular a hidden
\* candidate names another lesson than its own (set_candidate_triage, memory_inbox.rs),
\* and no id is given out twice.
THEOREM TriageTyped == Spec => []TypeOK
<1>1. TriageInv => TypeOK
  BY DEF TriageInv
<1>2. QED
  BY <1>1, TriageAlways, PTL

\* An approved candidate waits in the outbox until it is uploaded, whatever triage, purge,
\* rejection and mining do, in any number of processes: else only who had chosen it before
\* the approval removes it (delete_session_candidate_by_hash and
\* reject_session_mined_candidate, memory_inbox.rs).
THEOREM ApprovedKept == Spec => ApprovedIsKept
<1>1. TriageInv /\ [Next]_vars =>
        [\A i \in Rows : row[i].approved /\ row'[i] = NoRow => i \in overtaken \/ Upload(i)]_vars
  BY ApprovedStays
<1>2. QED
  BY <1>1, TriageAlways, PTL DEF Spec, ApprovedIsKept

\* A mined lesson that was reported as stored stays in the table, under its own text
\* or a matching one, until a judgement removes a row of its topic, or an upload does
\* when the topic has an active rule.  The miner looks for the row, reads its count and
\* writes it in separate statements while others fold, delete and upload, and an approval
\* promotes its rule before it marks a row for the drain (enqueue_candidate and
\* fold_existing_session_candidate, worker.rs; approve_session_mined_candidate,
\* memory_inbox.rs; confirm, outbox.rs).
THEOREM MinedStaysKept == Spec => []MinedIsKept
<1> DEFINE Stored == \A l \in kept : Backed(l, row, judged)
<1>1. Init => Stored
  BY DEF Init
<1>2. TriageInv /\ Promoted /\ Stored /\ [Next]_vars => Stored'
  BY NextMined
<1>3. Stored => MinedIsKept
  BY DEF MinedIsKept, Matching, Rows, Backed
<1> HIDE DEF Stored
<1>4. QED
  BY <1>1, <1>2, <1>3, TriageAlways, PTL DEF Spec

\* When the triage of a run ends, every candidate it has hidden leads to one in sight,
\* unless the answer folds groups into each other: whatever the answer decides and in
\* whatever order, and whatever miners, reviewers and drains do between its statements,
\* no duplicate ends behind a candidate that the run has deleted (deletion_targets and
\* live_session_candidate_exists, triage.rs).
THEOREM FoldedStaysBehindLive == Spec => []FoldedBehindLive
<1>1. TriageInv /\ FoldInv => FoldedBehindLive
  BY FoldImpliesLive
<1>2. QED
  BY <1>1, TriageAlways, PTL
=============================================================================
