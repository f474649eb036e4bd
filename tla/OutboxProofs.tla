---------------------------- MODULE OutboxProofs ----------------------------
(***************************************************************************)
(* Proofs about Outbox, OutboxHistory and OutboxRefinement, for any number *)
(* of processes, reviewers and rows and any thresholds.                    *)
(***************************************************************************)
EXTENDS OutboxHistory, OutboxRefinement, TLAPS, WellFoundedInduction, NaturalsInduction

-----------------------------------------------------------------------------
(* A non-empty set of row ids has an oldest one.                           *)

\* Oldest picks a member, so a claim takes a row of the table.
LEMMA OldestIn ==
  ASSUME NEW S \in SUBSET Ids, S # {}
  PROVE  Oldest(S) \in S
<1> DEFINE R == OpToRel(<, Nat)
<1>1. S \subseteq Nat
  BY OutboxAssumption DEF Ids
<1>2. R = {ss \in Nat \X Nat : ss[1] < ss[2]}
  BY Zenon DEF OpToRel
<1>3. IsWellFoundedOn(R, Nat)
  BY NatLessThanWellFounded
<1> HIDE DEF R
<1>4. PICK i \in S : \A j \in S : ~(<<j, i>> \in R)
  BY <1>1, <1>3, WFMin, Zenon
<1>5. ASSUME NEW j \in S PROVE i <= j
  <2>1. i \in Nat /\ j \in Nat
    BY <1>1
  <2>2. ~(<<j, i>> \in {ss \in Nat \X Nat : ss[1] < ss[2]})
    BY <1>2, <1>4, Zenon
  <2>3. ~(j < i)
    BY <2>1, <2>2
  <2>4. QED
    BY <2>1, <2>3
<1>6. QED
  BY <1>5 DEF Oldest

-----------------------------------------------------------------------------
(* The inductive invariant.  The safety properties speak of rows and of the *)
(* cloud; what makes them inductive is what each drain knows of the rows it *)
(* holds.  The parts take the tables as parameters, so that a lemma about   *)
(* them serves both the old and the new state of a step.                    *)

\* The locals of a drain at each point of its loop.
Shape(t) ==
  /\ t.pc \in {"post", "receipt", "settle"} => t.held # {}
  /\ t.pc \in {"failread", "failwrite"} => t.cur \in Ids
  /\ t.pc \in {"idle", "claim", "post", "failread"} => t.verdict = "none"
  /\ t.pc = "receipt" => t.verdict = "ok"
  /\ t.pc = "settle" => t.verdict # "none"
  /\ t.pc = "failwrite" => t.verdict # "ok"

\* A drain holds rows that were inserted, candidates only once approved; what
\* it is about to confirm is delivered or retired and has its receipt.
GoodTask(t, table, far, notes) ==
  /\ Shape(t)
  /\ \A i \in t.held :
       /\ table[i].status # "none"
       /\ table[i].kind = "session_mined_candidate" => table[i].approved
       /\ t.verdict = "ok" => i \in far \/ table[i].kind \in Retired
       /\ t.verdict = "ok" /\ t.pc = "settle" /\ table[i].kind = "accepted_edit"
            => i \in notes

\* The safety properties, of one row.
GoodRow(i, r, far, notes, gone) ==
  /\ r.status = "deleted" => i \in far \/ r.kind \in Retired \/ i \in gone
  /\ r.status = "deleted" /\ r.kind = "accepted_edit" => i \in notes
  /\ i \in far => r.status # "none"
  /\ r.status = "none" => r.kind = "none"
  /\ i \in far /\ r.kind = "session_mined_candidate" => r.approved
  /\ r.status \in {"pending", "processing"} => r.retry < MaxRetry
  /\ r.status = "abandoned" => r.retry = MaxRetry

\* A review under way has read a candidate of the table.
GoodReview(x) ==
  x # NoId => row[x].status # "none" /\ row[x].kind = "session_mined_candidate"

\* The inductive invariant: types, each drain's obligations, each row, each review.
IInv ==
  /\ TypeOK
  /\ \A p \in Procs : GoodTask(task[p], row, received, receipts)
  /\ \A i \in Ids : GoodRow(i, row[i], received, receipts, rejected)
  /\ \A r \in Reviewers : GoodReview(review[r])

\* No step takes a row that was inserted out of the table's past, or changes
\* its kind, or withdraws an approval.
Keeps(a, b) ==
  a.status # "none" => /\ b.status # "none" /\ b.kind = a.kind
                       /\ a.approved => b.approved

-----------------------------------------------------------------------------
(* Frame lemmas                                                            *)

\* What a drain knows stays true when tables only grow and payloads are kept.
LEMMA TaskFrame ==
  ASSUME NEW t \in Task, NEW w, NEW w2, NEW d, NEW d2, NEW e, NEW e2,
         GoodTask(t, w, d, e), d \subseteq d2, e \subseteq e2,
         \A i \in Ids : Keeps(w[i], w2[i])
  PROVE  GoodTask(t, w2, d2, e2)
<1>1. t.held \subseteq Ids
  BY DEF Task
<1>2. QED
  BY <1>1 DEF GoodTask, Keeps

\* A step preserves the invariant when the new state is well typed, payloads
\* are kept, the new rows are good and the drains that changed are good.
LEMMA Assemble ==
  ASSUME IInv, TypeOK',
         received \subseteq received', receipts \subseteq receipts',
         \A i \in Ids : Keeps(row[i], row'[i]),
         \A i \in Ids : GoodRow(i, row'[i], received', receipts', rejected'),
         \A p \in Procs : \/ task'[p] = task[p]
                          \/ GoodTask(task'[p], row', received', receipts'),
         \A r \in Reviewers : review'[r] \in {NoId, review[r]} \/ GoodReview(review'[r])
  PROVE  IInv'
<1>1. ASSUME NEW p \in Procs
      PROVE  GoodTask(task'[p], row', received', receipts')
  <2>1. CASE task'[p] = task[p]
    <3>1. task[p] \in Task /\ GoodTask(task[p], row, received, receipts)
      BY DEF IInv, TypeOK
    <3>2. GoodTask(task[p], row', received', receipts')
      BY <3>1, TaskFrame
    <3>3. QED
      BY <2>1, <3>2
  <2>2. QED
    BY <2>1
<1>2. ASSUME NEW r \in Reviewers
      PROVE  GoodReview(review[r])'
  <2>1. review'[r] = NoId \/ review'[r] \in Ids
    BY DEF TypeOK
  <2>2. review'[r] = NoId \/ GoodReview(review'[r])
    BY DEF IInv, GoodReview
  <2>3. QED
    BY <2>1, <2>2 DEF GoodReview, Keeps
<1>3. QED
  BY <1>1, <1>2 DEF IInv

\* Edits of a drain's locals that stay in their type.
LEMMA TaskEdit ==
  ASSUME NEW t \in Task
  PROVE  /\ [t EXCEPT !.attempted = @ + 1, !.taken = @ + 1] \in Task
         /\ \A i : [t EXCEPT !.held = @ \ {i}, !.cur = NoId, !.seen = 0] \in Task
<1>1. /\ t.attempted + 1 \in Nat /\ t.taken + 1 \in Nat
      /\ \A i : t.held \ {i} \in SUBSET Ids
      /\ 0 \in 0..MaxRetry
  BY OutboxAssumption DEF Task
<1>2. ASSUME NEW m \in Nat, NEW n \in Nat
      PROVE  [t EXCEPT !.attempted = m, !.taken = n] \in Task
  BY DEF Task
<1>3. ASSUME NEW h \in SUBSET Ids
      PROVE  [t EXCEPT !.held = h, !.cur = NoId, !.seen = 0] \in Task
  BY <1>1 DEF Task
<1>4. QED
  BY <1>1, <1>2, <1>3

\* Steps that leave the tables alone and change one drain.
LEMMA TaskOnly ==
  ASSUME IInv, NEW p \in Procs, NEW t \in Task,
         GoodTask(t, row, received, receipts),
         task' = [task EXCEPT ![p] = t],
         UNCHANGED <<row, received, receipts, rejected, review>>,
         brk' \in [Procs -> Breaker], faults' \in 0..MaxFaults
  PROVE  IInv'
<1>1. TypeOK'
  BY DEF IInv, TypeOK
<1>2. \A i \in Ids : Keeps(row[i], row'[i])
  BY DEF Keeps
<1>3. \A i \in Ids : GoodRow(i, row'[i], received', receipts', rejected')
  BY DEF IInv
<1>4. \A q \in Procs : \/ task'[q] = task[q]
                       \/ GoodTask(task'[q], row', received', receipts')
  BY DEF IInv, TypeOK
<1>5. QED
  BY <1>1, <1>2, <1>3, <1>4, Assemble

\* Steps that replace one row, and may change one drain.
LEMMA RowStep ==
  ASSUME IInv, NEW p \in Procs, NEW i \in Ids, NEW r \in Row, NEW t \in Task,
         row' = [row EXCEPT ![i] = r], Keeps(row[i], r),
         GoodRow(i, r, received, receipts, rejected'),
         task' = [task EXCEPT ![p] = t],
         t = task[p] \/ GoodTask(t, row', received, receipts),
         UNCHANGED <<received, receipts>>,
         rejected \subseteq rejected', rejected' \subseteq Ids,
         brk' \in [Procs -> Breaker], faults' \in 0..MaxFaults,
         review' \in [Reviewers -> Ids \cup {NoId}],
         \A x \in Reviewers : review'[x] \in {NoId, review[x]}
  PROVE  IInv'
<1>1. TypeOK'
  BY DEF IInv, TypeOK
<1>2. \A j \in Ids : Keeps(row[j], row'[j])
  BY DEF Keeps, IInv, TypeOK
<1>3. ASSUME NEW j \in Ids
      PROVE  GoodRow(j, row'[j], received', receipts', rejected')
  <2>1. CASE j = i
    BY <2>1 DEF IInv, TypeOK
  <2>2. CASE j # i
    <3>1. row'[j] = row[j] /\ GoodRow(j, row[j], received, receipts, rejected)
      BY <2>2 DEF IInv, TypeOK
    <3>2. QED
      BY <3>1 DEF GoodRow
  <2>3. QED
    BY <2>1, <2>2
<1>4. \A q \in Procs : \/ task'[q] = task[q]
                       \/ GoodTask(task'[q], row', received', receipts')
  BY DEF IInv, TypeOK
<1>5. QED
  BY <1>1, <1>2, <1>3, <1>4, Assemble

\* A drain that has not started meets every obligation on its record.
LEMMA IdleGood == Idle \in Task /\ GoodTask(Idle, row, received, receipts)
<1>1. Idle \in Task
  BY OutboxAssumption DEF Idle, Task
<1>2. QED
  BY <1>1 DEF Idle, GoodTask, Shape

\* The loop after a row is dealt with.
LEMMA AfterGood ==
  ASSUME IInv, NEW p \in Procs, NEW i,
         task[p].pc \in {"settle", "failread", "failwrite"}
  PROVE  After(p, i) \in Task /\ GoodTask(After(p, i), row, received, receipts)
<1> DEFINE t == [task[p] EXCEPT !.held = @ \ {i}, !.cur = NoId, !.seen = 0]
<1>1. task[p] \in Task /\ GoodTask(task[p], row, received, receipts)
  BY DEF IInv, TypeOK
<1>2. /\ t \in Task
      /\ t.held = task[p].held \ {i}
      /\ t.verdict = task[p].verdict /\ t.want = task[p].want /\ t.pc = task[p].pc
  <2>1. t \in Task
    BY <1>1, TaskEdit
  <2>2. QED
    BY <1>1, <2>1 DEF Task
<1>3. After(p, i) = IF t.verdict = "none" THEN [t EXCEPT !.pc = "claim"]
                    ELSE IF t.held # {} THEN [t EXCEPT !.pc = "settle"]
                    ELSE IF t.verdict = "fail" /\ t.want = "observation" THEN Idle
                    ELSE [t EXCEPT !.pc = "claim", !.verdict = "none"]
  BY DEF After
<1> HIDE DEF t
<1>4. CASE t.verdict = "none"
  <2>1. After(p, i) = [t EXCEPT !.pc = "claim"]
    BY <1>3, <1>4
  <2>2. QED
    BY <1>1, <1>2, <1>4, <2>1 DEF GoodTask, Shape, Task
<1>5. CASE t.verdict # "none" /\ t.held # {}
  <2>1. After(p, i) = [t EXCEPT !.pc = "settle"]
    BY <1>3, <1>5
  <2>2. QED
    BY <1>1, <1>2, <1>5, <2>1 DEF GoodTask, Shape, Task
<1>6. CASE t.verdict # "none" /\ t.held = {} /\ After(p, i) = Idle
  BY <1>6, IdleGood
<1>7. CASE /\ t.verdict # "none" /\ t.held = {}
           /\ After(p, i) = [t EXCEPT !.pc = "claim", !.verdict = "none"]
  BY <1>2, <1>7 DEF GoodTask, Shape, Task
<1>8. QED
  BY <1>3, <1>4, <1>5, <1>6, <1>7

\* claim: the oldest claimable row goes to "processing".
LEMMA ClaimInv ==
  ASSUME IInv, NEW p \in Procs, Claim(p)
  PROVE  IInv'
<1> DEFINE i == Oldest(Claimable(task[p].want))
           r == [row[i] EXCEPT !.status = "processing", !.claimAge = 0]
           u == [task[p] EXCEPT !.attempted = @ + 1, !.taken = @ + 1]
           t == IF u.want = "observation" /\ ~row[i].valid
                THEN [u EXCEPT !.pc = "failread", !.cur = i]
                ELSE [u EXCEPT !.held = @ \cup {i}]
<1>1. i \in Claimable(task[p].want)
  BY OldestIn DEF Claim, MayClaim, Claimable
<1>2. /\ i \in Ids
      /\ row[i].status \in {"pending", "processing"}
      /\ row[i].kind = "session_mined_candidate" => row[i].approved
  BY <1>1 DEF Claimable, IsStale
<1>3. /\ row' = [row EXCEPT ![i] = r] /\ task' = [task EXCEPT ![p] = t]
      /\ UNCHANGED <<received, receipts, rejected, brk, review, faults>>
      /\ task[p].pc = "claim"
  BY <1>2 DEF Claim, farVars, IInv, TypeOK
<1> HIDE DEF i
<1>4. row[i] \in Row /\ GoodRow(i, row[i], received, receipts, rejected)
  BY <1>2 DEF IInv, TypeOK
<1>5. task[p] \in Task /\ GoodTask(task[p], row, received, receipts)
  BY DEF IInv, TypeOK
<1>6. /\ r \in Row /\ Keeps(row[i], r) /\ r.status = "processing"
      /\ r.kind = row[i].kind /\ r.approved = row[i].approved
  <2>1. 0 \in 0..MaxClaimAge
    BY OutboxAssumption DEF MaxClaimAge
  <2>2. r \in Row
    BY <1>4, <2>1 DEF Row
  <2>3. QED
    BY <1>4, <2>2 DEF Row, Keeps
<1>7. GoodRow(i, r, received, receipts, rejected')
  BY <1>2, <1>3, <1>4, <1>6 DEF GoodRow, Row
<1>8. u \in Task /\ u.pc = "claim" /\ u.held = task[p].held /\ u.verdict = task[p].verdict
  <2>1. u \in Task
    BY <1>5, TaskEdit
  <2>2. QED
    BY <1>3, <1>5, <2>1 DEF Task
<1> HIDE DEF u, r
<1>9. /\ t \in Task /\ t.held \subseteq task[p].held \cup {i} /\ t.verdict = "none"
      /\ t.pc \in {"claim", "failread"} /\ (t.pc = "failread" => t.cur \in Ids)
  BY <1>2, <1>3, <1>5, <1>8 DEF Task, GoodTask, Shape
<1> HIDE DEF t
<1>10. GoodTask(t, row', received, receipts)
  <2>1. \A j \in Ids : row'[j] = IF j = i THEN r ELSE row[j]
    BY <1>2, <1>3 DEF IInv, TypeOK
  <2>2. task[p].held \subseteq Ids
    BY <1>5 DEF Task
  <2>3. QED
    BY <1>2, <1>5, <1>6, <1>9, <2>1, <2>2 DEF GoodTask, Shape
<1>11. QED
  BY <1>2, <1>3, <1>6, <1>7, <1>9, <1>10, RowStep DEF IInv, TypeOK

\* The claim loop ends: the batch is posted, rescanned, or there was nothing.
LEMMA EndClaimsInv ==
  ASSUME IInv, NEW p \in Procs, EndClaims(p)
  PROVE  IInv'
<1> DEFINE t == IF task[p].held # {} THEN [task[p] EXCEPT !.pc = "post", !.taken = 0]
                ELSE IF task[p].taken > 0 THEN [task[p] EXCEPT !.taken = 0]
                ELSE Idle
<1>1. /\ task[p].pc = "claim" /\ task' = [task EXCEPT ![p] = t]
      /\ UNCHANGED <<row, received, receipts, rejected, brk, review, faults>>
  BY DEF EndClaims, farVars
<1>2. task[p] \in Task /\ GoodTask(task[p], row, received, receipts)
  BY DEF IInv, TypeOK
<1>3. t \in Task /\ GoodTask(t, row, received, receipts)
  <2>1. CASE task[p].held # {}
    BY <1>1, <1>2, <2>1 DEF Task, GoodTask, Shape
  <2>2. CASE task[p].held = {} /\ task[p].taken > 0
    BY <1>1, <1>2, <2>2 DEF Task, GoodTask, Shape
  <2>3. CASE task[p].held = {} /\ ~(task[p].taken > 0)
    BY <2>3, IdleGood
  <2>4. QED
    BY <2>1, <2>2, <2>3
<1> HIDE DEF t
<1>4. QED
  BY <1>1, <1>3, TaskOnly DEF IInv, TypeOK

\* A drain starts with an empty batch.
LEMMA StartDrainInv ==
  ASSUME IInv, NEW p \in Procs, NEW w \in Kinds \cup {"any"}, StartDrain(p, w)
  PROVE  IInv'
<1> DEFINE t == [Idle EXCEPT !.pc = "claim", !.want = w]
<1>1. /\ task' = [task EXCEPT ![p] = t]
      /\ UNCHANGED <<row, received, receipts, rejected, brk, review, faults>>
  BY DEF StartDrain, farVars
<1>2. t \in Task
  BY IdleGood DEF Task
<1>3. t.pc = "claim" /\ t.verdict = "none" /\ t.held = {}
  BY DEF Idle
<1> HIDE DEF t
<1>4. GoodTask(t, row, received, receipts)
  BY <1>3 DEF GoodTask, Shape
<1>5. QED
  BY <1>1, <1>2, <1>4, TaskOnly DEF IInv, TypeOK

\* The cloud may accept rows that are held: they were inserted, and the
\* candidates among them approved.
LEMMA PostInv ==
  ASSUME IInv, NEW p \in Procs, Post(p)
  PROVE  IInv'
<1>1. task[p] \in Task /\ GoodTask(task[p], row, received, receipts)
  BY DEF IInv, TypeOK
<1> DEFINE h == task[p].held
           unsent == \A i \in h : row[i].kind \in Retired
           broken == \E i \in h : ~row[i].valid \/ row[i].kind = "other"
           edit == \E i \in h : row[i].kind = "accepted_edit"
<1>2. PICK accepted \in BOOLEAN, answered \in BOOLEAN :
        /\ unsent \/ broken => ~accepted
        /\ answered => accepted
        /\ received' = IF accepted THEN received \cup h ELSE received
        /\ task' = [task EXCEPT
                      ![p].pc = IF Succeeded(unsent, broken, answered) /\ edit
                                THEN "receipt" ELSE "settle",
                      ![p].verdict = IF Succeeded(unsent, broken, answered)
                                     THEN "ok" ELSE "fail"]
  BY DEF Post
<1>3. /\ task[p].pc = "post" /\ h # {} /\ h \subseteq Ids
      /\ UNCHANGED <<row, receipts, rejected, brk, review, faults>>
  BY <1>1 DEF Post, Task, GoodTask, Shape
<1> DEFINE ok == Succeeded(unsent, broken, answered)
           t == [task[p] EXCEPT !.pc = IF ok /\ edit THEN "receipt" ELSE "settle",
                                !.verdict = IF ok THEN "ok" ELSE "fail"]
<1>4. ok => unsent \/ received' = received \cup h
  BY <1>2 DEF Succeeded
<1>5. task' = [task EXCEPT ![p] = t]
  BY <1>2 DEF IInv, TypeOK
<1> HIDE DEF ok
<1>6. /\ t \in Task /\ t.held = h
      /\ t.pc = IF ok /\ edit THEN "receipt" ELSE "settle"
      /\ t.verdict = IF ok THEN "ok" ELSE "fail"
  BY <1>1 DEF Task
<1> HIDE DEF t
<1>7. received \subseteq received' /\ received' \subseteq received \cup h
  BY <1>2
<1>8. GoodTask(t, row', received', receipts')
  BY <1>1, <1>3, <1>4, <1>6 DEF GoodTask, Shape
<1>9. TypeOK'
  BY <1>2, <1>3, <1>5, <1>6 DEF IInv, TypeOK
<1>10. ASSUME NEW i \in Ids
       PROVE  GoodRow(i, row'[i], received', receipts', rejected')
  <2>1. GoodRow(i, row[i], received, receipts, rejected)
    BY DEF IInv
  <2>2. i \in h => /\ row[i].status # "none"
                   /\ row[i].kind = "session_mined_candidate" => row[i].approved
    BY <1>1 DEF GoodTask
  <2>3. QED
    BY <1>3, <1>7, <2>1, <2>2 DEF GoodRow
<1>11. \A i \in Ids : Keeps(row[i], row'[i])
  BY <1>3 DEF Keeps
<1>12. \A q \in Procs : \/ task'[q] = task[q]
                        \/ GoodTask(task'[q], row', received', receipts')
  BY <1>5, <1>8 DEF IInv, TypeOK
<1>13. QED
  BY <1>3, <1>7, <1>9, <1>10, <1>11, <1>12, Assemble

\* The receipts of accepted edits are stored before the rows are confirmed.
LEMMA RecordReceiptInv ==
  ASSUME IInv, NEW p \in Procs, RecordReceipt(p)
  PROVE  IInv'
<1> DEFINE t == [task[p] EXCEPT !.pc = "settle"]
<1>1. task[p] \in Task /\ GoodTask(task[p], row, received, receipts)
  BY DEF IInv, TypeOK
<1>2. /\ task[p].pc = "receipt"
      /\ receipts' = receipts \cup task[p].held
      /\ task' = [task EXCEPT ![p] = t]
      /\ UNCHANGED <<row, received, rejected, brk, review, faults>>
  BY DEF RecordReceipt, IInv, TypeOK
<1>3. /\ t \in Task /\ t.held = task[p].held /\ t.verdict = task[p].verdict
      /\ t.pc = "settle"
  BY <1>1 DEF Task
<1> HIDE DEF t
<1>4. GoodTask(t, row', received', receipts')
  BY <1>1, <1>2, <1>3 DEF GoodTask, Shape
<1>5. TypeOK'
  BY <1>1, <1>2, <1>3 DEF IInv, TypeOK, Task
<1>6. \A i \in Ids : GoodRow(i, row'[i], received', receipts', rejected')
  BY <1>2 DEF IInv, GoodRow
<1>7. \A i \in Ids : Keeps(row[i], row'[i])
  BY <1>2 DEF Keeps
<1>8. \A q \in Procs : \/ task'[q] = task[q]
                       \/ GoodTask(task'[q], row', received', receipts')
  BY <1>2, <1>4 DEF IInv, TypeOK
<1>9. QED
  BY <1>2, <1>5, <1>6, <1>7, <1>8, Assemble

\* A confirmed row is delivered or retired, and an edit has its receipt.
LEMMA ConfirmInv ==
  ASSUME IInv, NEW p \in Procs, Confirm(p)
  PROVE  IInv'
<1> DEFINE i == Oldest(task[p].held)
           r == [row[i] EXCEPT !.status = "deleted", !.retry = 0, !.age = 0,
                               !.claimAge = Null]
           t == After(p, i)
<1>1. task[p] \in Task /\ GoodTask(task[p], row, received, receipts)
  BY DEF IInv, TypeOK
<1>2. /\ task[p].pc = "settle" /\ task[p].verdict = "ok"
      /\ row' = [row EXCEPT ![i] = r] /\ task' = [task EXCEPT ![p] = t]
      /\ brk' = [brk EXCEPT ![p].failures = 0]
      /\ UNCHANGED <<received, receipts, rejected, review, faults>>
  BY DEF Confirm, Without, farVars
<1>3. i \in task[p].held /\ i \in Ids
  BY <1>1, <1>2, OldestIn DEF GoodTask, Shape, Task
<1> HIDE DEF i
<1>4. t \in Task /\ GoodTask(t, row, received, receipts)
  BY <1>2, AfterGood
<1> HIDE DEF t
<1>5. row[i] \in Row /\ GoodRow(i, row[i], received, receipts, rejected)
  BY <1>3 DEF IInv, TypeOK
<1>6. /\ r \in Row /\ r.status = "deleted"
      /\ r.kind = row[i].kind /\ r.approved = row[i].approved
  <2>1. 0 \in 0..MaxRetry /\ 0 \in 0..MaxAge
    BY OutboxAssumption DEF MaxAge
  <2>2. QED
    BY <1>5, <2>1 DEF Row
<1>7. Keeps(row[i], r) /\ GoodRow(i, r, received, receipts, rejected')
  BY <1>1, <1>2, <1>3, <1>5, <1>6 DEF Keeps, GoodRow, GoodTask
<1> HIDE DEF r
<1>8. GoodTask(t, row', received, receipts)
  <2>1. \A j \in Ids : Keeps(row[j], row'[j])
    BY <1>2, <1>3, <1>7 DEF IInv, TypeOK, Keeps
  <2>2. QED
    BY <1>4, <2>1, TaskFrame
<1>9. brk' \in [Procs -> Breaker]
  BY <1>2, OutboxAssumption DEF IInv, TypeOK, Breaker
<1>10. QED
  BY <1>2, <1>3, <1>4, <1>6, <1>7, <1>8, <1>9, RowStep DEF IInv, TypeOK

\* mark_failed is called with the id of a row.
LEMMA FailingIn ==
  ASSUME IInv, NEW p \in Procs, AtFailRead(p) \/ task[p].pc = "failwrite"
  PROVE  Failing(p) \in Ids /\ task[p].pc \in {"settle", "failread", "failwrite"}
<1>1. task[p] \in Task /\ GoodTask(task[p], row, received, receipts)
  BY DEF IInv, TypeOK
<1>2. QED
  BY <1>1, OldestIn DEF AtFailRead, Failing, GoodTask, Shape, Task

\* The first statement of mark_failed reads the retry count.
LEMMA MarkFailedReadInv ==
  ASSUME IInv, NEW p \in Procs, MarkFailedRead(p)
  PROVE  IInv'
<1> DEFINE i == Failing(p)
           t == IF Exists(i)
                THEN [task[p] EXCEPT !.pc = "failwrite", !.cur = i, !.seen = row[i].retry]
                ELSE After(p, i)
<1>1. task[p] \in Task /\ GoodTask(task[p], row, received, receipts)
  BY DEF IInv, TypeOK
<1>2. /\ task' = [task EXCEPT ![p] = t] /\ AtFailRead(p)
      /\ UNCHANGED <<row, received, receipts, rejected, brk, review, faults>>
  BY DEF MarkFailedRead, farVars, IInv, TypeOK
<1>3. i \in Ids /\ task[p].pc \in {"settle", "failread", "failwrite"}
  BY <1>2, FailingIn
<1> HIDE DEF i
<1>4. t \in Task /\ GoodTask(t, row, received, receipts)
  <2>1. CASE Exists(i)
    <3>1. row[i].retry \in 0..MaxRetry
      BY <1>3 DEF IInv, TypeOK, Row
    <3>2. ASSUME NEW n \in 0..MaxRetry
          PROVE  LET s == [task[p] EXCEPT !.pc = "failwrite", !.cur = i, !.seen = n]
                 IN  /\ s \in Task /\ s.held = task[p].held /\ s.cur = i
                     /\ s.verdict = task[p].verdict /\ s.pc = "failwrite"
      BY <1>1, <1>3 DEF Task
    <3>3. /\ t \in Task /\ t.held = task[p].held /\ t.cur = i
          /\ t.verdict = task[p].verdict /\ t.pc = "failwrite"
      BY <2>1, <3>1, <3>2
    <3>4. task[p].verdict # "ok"
      BY <1>1, <1>2 DEF AtFailRead, GoodTask, Shape
    <3>5. QED
      BY <1>1, <1>3, <3>3, <3>4 DEF GoodTask, Shape
  <2>2. CASE ~Exists(i)
    BY <1>3, <2>2, AfterGood
  <2>3. QED
    BY <2>1, <2>2
<1> HIDE DEF t
<1>5. QED
  BY <1>2, <1>4, TaskOnly DEF IInv, TypeOK

\* mark_failed writes the status and the count from one reading, so they
\* agree with each other whatever happened to the row in between.
LEMMA MarkFailedWriteInv ==
  ASSUME IInv, NEW p \in Procs, MarkFailedWrite(p)
  PROVE  IInv'
<1> DEFINE i == task[p].cur
           n == task[p].seen
           r == [row[i] EXCEPT !.status = NextStatus(n), !.retry = NextCount(n),
                               !.claimAge = Null]
           t == After(p, i)
<1>1. task[p] \in Task /\ GoodTask(task[p], row, received, receipts)
  BY DEF IInv, TypeOK
<1>2. /\ task[p].pc = "failwrite" /\ task' = [task EXCEPT ![p] = t]
      /\ row' = IF Exists(i) THEN [row EXCEPT ![i] = r] ELSE row
      /\ UNCHANGED <<received, receipts, rejected, review, faults>>
  BY <1>1 DEF MarkFailedWrite, farVars, IInv, TypeOK, GoodTask, Shape
<1>3. brk' \in [Procs -> Breaker]
  <2>1. brk[p] \in Breaker
    BY DEF IInv, TypeOK
  <2> DEFINE f == IF brk[p].failures < Threshold THEN brk[p].failures + 1 ELSE Threshold
             o == IF f >= Threshold THEN OpenTicks ELSE brk[p].openFor
  <2>2. f \in 0..Threshold /\ o \in 0..OpenTicks
    BY <2>1, OutboxAssumption DEF Breaker
  <2>3. brk' = [brk EXCEPT ![p] = [brk[p] EXCEPT !.failures = f, !.openFor = o]]
    BY DEF MarkFailedWrite, IInv, TypeOK, Breaker
  <2> HIDE DEF f, o
  <2>4. [brk[p] EXCEPT !.failures = f, !.openFor = o] \in Breaker
    BY <2>1, <2>2 DEF Breaker
  <2>5. QED
    BY <2>3, <2>4 DEF IInv, TypeOK
<1>4. i \in Ids /\ n \in 0..MaxRetry
  BY <1>1, <1>2 DEF GoodTask, Shape, Task
<1>5. t \in Task /\ GoodTask(t, row, received, receipts)
  BY <1>2, AfterGood
<1> HIDE DEF t, i, n
<1>6. CASE Exists(i)
  <2>1. row[i] \in Row /\ GoodRow(i, row[i], received, receipts, rejected)
    BY <1>4 DEF IInv, TypeOK
  <2>2. /\ NextStatus(n) \in {"pending", "abandoned"} /\ NextCount(n) \in 0..MaxRetry
        /\ NextStatus(n) = "pending" => NextCount(n) < MaxRetry
        /\ NextStatus(n) = "abandoned" => NextCount(n) = MaxRetry
    BY <1>4, OutboxAssumption DEF NextStatus, NextCount
  <2>3. /\ r \in Row /\ r.status = NextStatus(n) /\ r.retry = NextCount(n)
        /\ r.kind = row[i].kind /\ r.approved = row[i].approved
    BY <2>1, <2>2 DEF Row
  <2> HIDE DEF r
  <2>4. Keeps(row[i], r) /\ GoodRow(i, r, received, receipts, rejected')
    BY <1>2, <1>6, <2>1, <2>2, <2>3 DEF Keeps, GoodRow, Exists
  <2>5. row' = [row EXCEPT ![i] = r]
    BY <1>2, <1>6
  <2>6. \A j \in Ids : Keeps(row[j], row'[j])
    BY <1>4, <2>4, <2>5 DEF IInv, TypeOK, Keeps
  <2>7. GoodTask(t, row', received, receipts)
    BY <1>5, <2>6, TaskFrame
  <2>8. QED
    BY <1>2, <1>3, <1>4, <1>5, <2>3, <2>4, <2>5, <2>7, RowStep DEF IInv, TypeOK
<1>7. CASE ~Exists(i)
  BY <1>2, <1>3, <1>5, <1>7, TaskOnly DEF IInv, TypeOK
<1>8. QED
  BY <1>6, <1>7

\* Faults and the end of a command touch no table.
LEMMA FaultInv ==
  ASSUME IInv, NEW p \in Procs,
         MarkFailedError(p) \/ ReceiptError(p) \/ DrainError(p) \/ Crash(p)
  PROVE  IInv'
<1>1. task[p] \in Task /\ GoodTask(task[p], row, received, receipts)
  BY DEF IInv, TypeOK
<1>2. faults' \in 0..MaxFaults
  BY OutboxAssumption DEF MarkFailedError, ReceiptError, DrainError, Crash, Fault, IInv, TypeOK
<1>3. /\ UNCHANGED <<row, received, receipts, rejected, review>>
      /\ brk' \in [Procs -> Breaker]
  BY OutboxAssumption
  DEF MarkFailedError, ReceiptError, DrainError, Crash, farVars, IInv, TypeOK, Closed, Breaker
<1>4. CASE MarkFailedError(p)
  <2>1. After(p, Failing(p)) \in Task
        /\ GoodTask(After(p, Failing(p)), row, received, receipts)
    BY <1>4, FailingIn, AfterGood DEF MarkFailedError
  <2>2. QED
    BY <1>2, <1>3, <1>4, <2>1, TaskOnly DEF MarkFailedError
<1>5. CASE ReceiptError(p)
  <2> DEFINE t == [task[p] EXCEPT !.pc = "settle", !.verdict = "fail"]
  <2>1. task' = [task EXCEPT ![p] = t] /\ task[p].pc = "receipt"
    BY <1>5 DEF ReceiptError, IInv, TypeOK
  <2>2. t \in Task /\ t.held = task[p].held /\ t.verdict = "fail" /\ t.pc = "settle"
    BY <1>1 DEF Task
  <2> HIDE DEF t
  <2>3. GoodTask(t, row, received, receipts)
    BY <1>1, <2>1, <2>2 DEF GoodTask, Shape
  <2>4. QED
    BY <1>2, <1>3, <2>1, <2>2, <2>3, TaskOnly
<1>6. CASE DrainError(p) \/ Crash(p)
  <2>1. task' = [task EXCEPT ![p] = Idle]
    BY <1>6 DEF DrainError, Crash
  <2>2. QED
    BY <1>2, <1>3, <2>1, IdleGood, TaskOnly
<1>7. QED
  BY <1>4, <1>5, <1>6

\* A new OutboxQueue has a closed breaker and no other effect.
LEMMA NewHandleInv ==
  ASSUME IInv, NEW p \in Procs, NewHandle(p)
  PROVE  IInv'
<1>1. /\ UNCHANGED <<row, received, receipts, rejected, task, review, faults>>
      /\ brk' \in [Procs -> Breaker]
  BY OutboxAssumption DEF NewHandle, farVars, IInv, TypeOK, Closed, Breaker
<1>2. task' = [task EXCEPT ![p] = task[p]]
  BY <1>1 DEF IInv, TypeOK
<1>3. QED
  BY <1>1, <1>2, TaskOnly DEF IInv, TypeOK

\* Steps that edit many rows at once and leave the rest alone.
LEMMA TableStep ==
  ASSUME IInv, row' \in [Ids -> Row], brk' \in [Procs -> Breaker],
         UNCHANGED <<received, receipts, rejected, task, review, faults>>,
         \A i \in Ids : Keeps(row[i], row'[i]),
         \A i \in Ids : GoodRow(i, row'[i], received, receipts, rejected)
  PROVE  IInv'
<1>1. TypeOK'
  BY DEF IInv, TypeOK
<1>2. QED
  BY <1>1, Assemble DEF IInv, TypeOK

\* The maintenance statements: reset_stale and drain_abandoned_older_than.
LEMMA BulkInv ==
  ASSUME IInv, ResetStale \/ (\E p \in Procs : DrainAbandoned(p))
  PROVE  IInv'
<1>1. UNCHANGED <<received, receipts, rejected, task, review, faults>>
  BY DEF ResetStale, DrainAbandoned, farVars
<1>2. brk' \in [Procs -> Breaker]
  <2>1. Closed \in Breaker
    BY OutboxAssumption DEF Closed, Breaker
  <2>2. CASE ResetStale
    BY <2>2 DEF ResetStale, IInv, TypeOK
  <2>3. CASE \E p \in Procs : DrainAbandoned(p)
    BY <2>1, <2>3 DEF DrainAbandoned, IInv, TypeOK
  <2>4. QED
    BY <2>2, <2>3
<1>3. ASSUME NEW i \in Ids
      PROVE  /\ row'[i] \in Row /\ Keeps(row[i], row'[i])
             /\ GoodRow(i, row'[i], received, receipts, rejected)
  <2>1. row[i] \in Row /\ GoodRow(i, row[i], received, receipts, rejected)
    BY DEF IInv, TypeOK
  <2>2. CASE row'[i] = row[i]
    BY <2>1, <2>2 DEF Keeps
  <2>3. CASE /\ row'[i] = [row[i] EXCEPT !.status = "pending", !.claimAge = Null]
             /\ row[i].status = "processing"
    BY <2>1, <2>3 DEF Row, Keeps, GoodRow
  <2>4. CASE /\ row'[i] = [row[i] EXCEPT !.status = "pending", !.retry = 0, !.claimAge = Null]
             /\ row[i].status = "abandoned"
    <3>1. 0 \in 0..MaxRetry /\ 0 < MaxRetry
      BY OutboxAssumption
    <3>2. /\ row'[i] \in Row /\ row'[i].status = "pending" /\ row'[i].retry = 0
          /\ row'[i].kind = row[i].kind /\ row'[i].approved = row[i].approved
      BY <2>1, <2>4, <3>1 DEF Row
    <3>3. QED
      BY <2>1, <2>4, <3>1, <3>2 DEF Keeps, GoodRow
  <2>5. QED
    BY <2>2, <2>3, <2>4 DEF ResetStale, DrainAbandoned, IsStale, Resurrectable
<1>4. row' \in [Ids -> Row]
  <2>1. row' = [i \in Ids |-> row'[i]]
    BY DEF ResetStale, DrainAbandoned
  <2>2. QED
    BY <1>3, <2>1
<1>5. QED
  BY <1>1, <1>2, <1>3, <1>4, TableStep

\* Time changes ages only.
LEMMA TickInv ==
  ASSUME IInv, Tick
  PROVE  IInv'
<1>1. UNCHANGED <<received, receipts, rejected, task, review, faults>>
  BY DEF Tick, farVars
<1>2. brk' \in [Procs -> Breaker]
  <2>1. ASSUME NEW p \in Procs
        PROVE  [brk[p] EXCEPT !.openFor = IF @ > 0 THEN @ - 1 ELSE 0] \in Breaker
    <3>1. brk[p] \in Breaker
      BY DEF IInv, TypeOK
    <3>2. (IF brk[p].openFor > 0 THEN brk[p].openFor - 1 ELSE 0) \in 0..OpenTicks
      BY <3>1, OutboxAssumption DEF Breaker
    <3>3. ASSUME NEW o \in 0..OpenTicks PROVE [brk[p] EXCEPT !.openFor = o] \in Breaker
      BY <3>1 DEF Breaker
    <3>4. QED
      BY <3>2, <3>3
  <2>2. QED
    BY <2>1 DEF Tick
<1>3. ASSUME NEW i \in Ids
      PROVE  /\ row'[i] \in Row /\ Keeps(row[i], row'[i])
             /\ GoodRow(i, row'[i], received, receipts, rejected)
  <2>1. row[i] \in Row /\ GoodRow(i, row[i], received, receipts, rejected)
    BY DEF IInv, TypeOK
  <2> DEFINE a == Grow(row[i].age, MaxAge)
             c == IF row[i].claimAge = Null THEN Null ELSE Grow(row[i].claimAge, MaxClaimAge)
  <2>2. a \in 0..MaxAge /\ c \in 0..MaxClaimAge \cup {Null}
    <3>1. /\ row[i].age \in 0..MaxAge /\ MaxAge \in Nat /\ MaxClaimAge \in Nat
          /\ row[i].claimAge \in 0..MaxClaimAge \cup {Null}
      BY <2>1, OutboxAssumption DEF Row, MaxAge, MaxClaimAge
    <3>2. QED
      BY <3>1 DEF Grow, Null
  <2>3. row'[i] = row[i] \/ row'[i] = [row[i] EXCEPT !.age = a, !.claimAge = c]
    BY DEF Tick, Aged
  <2> HIDE DEF a, c
  <2>4. CASE row'[i] = [row[i] EXCEPT !.age = a, !.claimAge = c]
    <3>1. /\ row'[i] \in Row /\ row'[i].status = row[i].status
          /\ row'[i].retry = row[i].retry
          /\ row'[i].kind = row[i].kind /\ row'[i].approved = row[i].approved
      BY <2>1, <2>2, <2>4 DEF Row
    <3>2. QED
      BY <2>1, <3>1 DEF Keeps, GoodRow
  <2>5. CASE row'[i] = row[i]
    BY <2>1, <2>5 DEF Keeps
  <2>6. QED
    BY <2>3, <2>4, <2>5
<1>4. row' \in [Ids -> Row]
  BY <1>3 DEF Tick
<1>5. QED
  BY <1>1, <1>2, <1>3, <1>4, TableStep

\* enqueue adds a row nobody has a claim on.
LEMMA EnqueueInv ==
  ASSUME IInv, NEW i \in Ids, NEW k \in Kinds, NEW v \in Parses, Enqueue(i, k, v)
  PROVE  IInv'
<1> DEFINE r == [NoRow EXCEPT !.status = "pending", !.kind = k, !.valid = v]
<1>1. /\ row[i].status = "none" /\ row' = [row EXCEPT ![i] = r]
      /\ UNCHANGED <<received, receipts, rejected, task, brk, review, faults>>
  BY DEF Enqueue, farVars
<1>2. /\ r \in Row /\ r.status = "pending" /\ r.retry = 0
  <2>1. NoRow \in Row
    BY OutboxAssumption DEF NoRow, Row, MaxAge
  <2>2. v \in BOOLEAN
    BY OutboxAssumption
  <2>3. QED
    BY <2>1, <2>2 DEF Row, NoRow
<1> HIDE DEF r
<1>3. GoodRow(i, row[i], received, receipts, rejected)
  BY DEF IInv
<1>4. Keeps(row[i], r) /\ GoodRow(i, r, received, receipts, rejected)
  BY <1>1, <1>2, <1>3, OutboxAssumption DEF Keeps, GoodRow
<1>5. \A j \in Ids : /\ Keeps(row[j], row'[j])
                     /\ GoodRow(j, row'[j], received, receipts, rejected)
  BY <1>1, <1>4 DEF IInv, TypeOK, Keeps
<1>6. QED
  BY <1>1, <1>2, <1>5, TableStep DEF IInv, TypeOK

\* A person approves or rejects a session-mined candidate.
LEMMA ReviewInv ==
  ASSUME IInv, NEW x \in Reviewers,
         (\E i \in Ids : ReviewFind(x, i)) \/ ReviewApprove(x) \/ ReviewReject(x)
  PROVE  IInv'
<1>1. CASE \E i \in Ids : ReviewFind(x, i)
  <2>1. PICK i \in Ids : ReviewFind(x, i)
    BY <1>1
  <2>2. /\ UNCHANGED <<row, received, receipts, rejected, task, brk, faults>>
        /\ review' = [review EXCEPT ![x] = i] /\ GoodReview(i)
    BY <2>1 DEF ReviewFind, farVars, GoodReview, Exists
  <2>3. TypeOK'
    BY <2>2 DEF IInv, TypeOK
  <2>4. \A j \in Ids : Keeps(row[j], row'[j])
    BY <2>2 DEF Keeps
  <2>5. \A z \in Reviewers : review'[z] \in {NoId, review[z]} \/ GoodReview(review'[z])
    BY <2>2 DEF IInv, TypeOK
  <2>6. QED
    BY <2>2, <2>3, <2>4, <2>5, Assemble DEF IInv, TypeOK
<1>2. CASE (ReviewApprove(x) \/ ReviewReject(x)) /\ review[x] # NoId
  <2> DEFINE i == review[x]
             a == [row[i] EXCEPT !.approved = TRUE, !.status = "pending",
                                 !.retry = 0, !.claimAge = Null]
             d == [row[i] EXCEPT !.status = "deleted", !.retry = 0, !.age = 0,
                                 !.claimAge = Null]
  <2>1. i \in Ids /\ row[i].status # "none" /\ row[i].kind = "session_mined_candidate"
    BY <1>2 DEF IInv, TypeOK, GoodReview
  <2>2. /\ UNCHANGED <<received, receipts, task, brk, faults>>
        /\ review' = [review EXCEPT ![x] = NoId]
        /\ \/ row' = row /\ rejected' = rejected
           \/ Exists(i) /\ row' = [row EXCEPT ![i] = a] /\ rejected' = rejected
           \/ /\ row' = [row EXCEPT ![i] = d]
              /\ rejected' = IF Exists(i) THEN rejected \cup {i} ELSE rejected
    BY <1>2, <2>1 DEF ReviewApprove, ReviewReject, Without, farVars, IInv, TypeOK
  <2>3. row[i] \in Row /\ GoodRow(i, row[i], received, receipts, rejected)
    BY <2>1 DEF IInv, TypeOK
  <2>4. 0 \in 0..MaxRetry /\ 0 < MaxRetry /\ 0 \in 0..MaxAge
    BY OutboxAssumption DEF MaxAge
  <2>5. /\ a \in Row /\ a.status = "pending" /\ a.retry = 0 /\ a.approved = TRUE
        /\ a.kind = row[i].kind
    BY <2>3, <2>4 DEF Row
  <2>6. /\ d \in Row /\ d.status = "deleted" /\ d.approved = row[i].approved
        /\ d.kind = row[i].kind
    BY <2>3, <2>4 DEF Row
  <2> HIDE DEF a, d
  <2>7. PICK p \in Procs : TRUE
    BY OutboxAssumption
  <2>8. /\ task[p] \in Task /\ task' = [task EXCEPT ![p] = task[p]]
        /\ brk' \in [Procs -> Breaker] /\ faults' \in 0..MaxFaults
        /\ review' \in [Reviewers -> Ids \cup {NoId}]
        /\ \A z \in Reviewers : review'[z] \in {NoId, review[z]}
    BY <2>2 DEF IInv, TypeOK
  <2>9. CASE row' = row /\ rejected' = rejected
    <3>1. /\ row' = [row EXCEPT ![i] = row[i]] /\ Keeps(row[i], row[i])
          /\ UNCHANGED <<received, receipts>>
          /\ rejected \subseteq rejected' /\ rejected' \subseteq Ids
          /\ GoodRow(i, row[i], received, receipts, rejected')
      BY <2>2, <2>3, <2>9 DEF IInv, TypeOK, Keeps
    <3>2. QED
      BY <2>1, <2>3, <2>8, <3>1, RowStep
  <2>10. CASE Exists(i) /\ row' = [row EXCEPT ![i] = a] /\ rejected' = rejected
    <3>1. Keeps(row[i], a) /\ GoodRow(i, a, received, receipts, rejected')
      BY <2>1, <2>3, <2>4, <2>5, <2>10 DEF Keeps, GoodRow
    <3>2. /\ UNCHANGED <<received, receipts>> /\ row' = [row EXCEPT ![i] = a]
          /\ rejected \subseteq rejected' /\ rejected' \subseteq Ids
      BY <2>2, <2>10 DEF IInv, TypeOK
    <3>3. QED
      BY <2>1, <2>5, <2>8, <3>1, <3>2, RowStep
  <2>11. CASE /\ row' = [row EXCEPT ![i] = d]
              /\ rejected' = IF Exists(i) THEN rejected \cup {i} ELSE rejected
    <3>1. Keeps(row[i], d) /\ GoodRow(i, d, received, receipts, rejected')
      BY <2>1, <2>3, <2>6, <2>11 DEF Keeps, GoodRow, Exists
    <3>2. rejected \subseteq rejected' /\ rejected' \subseteq Ids
      BY <2>1, <2>11 DEF IInv, TypeOK
    <3>3. UNCHANGED <<received, receipts>> /\ row' = [row EXCEPT ![i] = d]
      BY <2>2, <2>11
    <3>4. QED
      BY <2>1, <2>6, <2>8, <3>1, <3>2, <3>3, RowStep
  <2>12. QED
    BY <2>2, <2>9, <2>10, <2>11
<1>3. QED
  BY <1>1, <1>2 DEF ReviewApprove, ReviewReject

-----------------------------------------------------------------------------
(* The invariant and the properties it implies                             *)

\* The empty table satisfies the inductive invariant.
LEMMA InitInv == Init => IInv
<1> SUFFICES ASSUME Init PROVE IInv
  OBVIOUS
<1>1. NoRow \in Row
  BY OutboxAssumption DEF NoRow, Row, MaxAge
<1>2. Closed \in Breaker
  BY OutboxAssumption DEF Closed, Breaker
<1>3. TypeOK
  BY <1>1, <1>2, IdleGood, OutboxAssumption DEF Init, TypeOK
<1>4. \A p \in Procs : GoodTask(task[p], row, received, receipts)
  BY IdleGood DEF Init
<1>5. \A i \in Ids : GoodRow(i, row[i], received, receipts, rejected)
  BY DEF Init, NoRow, GoodRow
<1>6. \A r \in Reviewers : GoodReview(review[r])
  BY DEF Init, GoodReview
<1>7. QED
  BY <1>3, <1>4, <1>5, <1>6 DEF IInv

\* Every step preserves the inductive invariant.
LEMMA NextInv == IInv /\ [Next]_vars => IInv'
<1> SUFFICES ASSUME IInv, [Next]_vars PROVE IInv'
  OBVIOUS
<1>1. ASSUME NEW i \in Ids, NEW k \in Kinds, NEW v \in Parses, Enqueue(i, k, v)
      PROVE  IInv'
  BY <1>1, EnqueueInv
<1>2. ASSUME NEW p \in Procs, NEW w \in Wants(p), StartDrain(p, w)
      PROVE  IInv'
  BY <1>2, StartDrainInv DEF Wants
<1>3. ASSUME NEW p \in Procs, DrainStep(p)
      PROVE  IInv'
  BY <1>3, ClaimInv, EndClaimsInv, PostInv, RecordReceiptInv, ConfirmInv,
     MarkFailedReadInv, MarkFailedWriteInv DEF DrainStep
<1>4. ASSUME NEW p \in Procs,
             MarkFailedError(p) \/ ReceiptError(p) \/ DrainError(p) \/ Crash(p)
      PROVE  IInv'
  BY <1>4, FaultInv
<1>5. ASSUME NEW p \in Procs, NewHandle(p)
      PROVE  IInv'
  BY <1>5, NewHandleInv
<1>6. CASE ResetStale \/ (\E p \in Procs : DrainAbandoned(p))
  BY <1>6, BulkInv
<1>7. ASSUME NEW x \in Reviewers,
             (\E i \in Ids : ReviewFind(x, i)) \/ ReviewApprove(x) \/ ReviewReject(x)
      PROVE  IInv'
  BY <1>7, ReviewInv
<1>8. CASE Tick
  BY <1>8, TickInv
<1>9. CASE UNCHANGED vars
  BY <1>9 DEF vars, IInv, TypeOK, GoodReview
<1>10. QED
  BY <1>1, <1>2, <1>3, <1>4, <1>5, <1>6, <1>7, <1>8, <1>9 DEF Next

\* The inductive invariant holds in every reachable state of the outbox, whatever
\* the order of drains, failures, crashes, maintenance and reviews.
THEOREM Invariance == Spec => []IInv
BY InitInv, NextInv, PTL DEF Spec

\* The variables keep their types in every reachable state.
THEOREM TypeCorrect == Spec => []TypeOK
<1>1. IInv => TypeOK
  BY DEF IInv
<1>2. QED
  BY <1>1, Invariance, PTL

\* At-least-once delivery: a row that has left the table was accepted by the
\* cloud, is of a retired kind, or was rejected by the user.
THEOREM NothingIsLost == Spec => []NoSilentLoss
<1>1. IInv => NoSilentLoss
  BY DEF IInv, GoodRow, NoSilentLoss
<1>2. QED
  BY <1>1, Invariance, PTL

\* The review gate holds against every race of claims, retries and reviews.
THEOREM OnlyApprovedIsUploaded == Spec => []OnlyApprovedUploaded
<1>1. IInv => OnlyApprovedUploaded
  BY DEF IInv, TypeOK, GoodRow, OnlyApprovedUploaded
<1>2. QED
  BY <1>1, Invariance, PTL

\* Every accepted edit that was confirmed has its local receipt.
THEOREM EditsKeepReceipts == Spec => []ConfirmedEditHasReceipt
<1>1. IInv => ConfirmedEditHasReceipt
  BY DEF IInv, GoodRow, ConfirmedEditHasReceipt
<1>2. QED
  BY <1>1, Invariance, PTL

\* Status and retry budget agree although mark_failed is not atomic.
THEOREM RetryAndStatusAgree == Spec => []RetryMatchesStatus
<1>1. IInv => RetryMatchesStatus
  BY DEF IInv, GoodRow, RetryMatchesStatus
<1>2. QED
  BY <1>1, Invariance, PTL

-----------------------------------------------------------------------------
(* Exclusive holding.  A claim can be taken over only once it is stale; what *)
(* keeps a held row from being stale is that its claim is no older than the  *)
(* time its drain has been holding rows.                                     *)

\* A row that process p works on is a candidate, is gone, or is claimed, and
\* since no longer than p holds rows.
FreshlyHeld(i, p) ==
  \/ row[i].kind = "session_mined_candidate"
  \/ row[i].status = "deleted"
  \/ /\ row[i].status = "processing"
     /\ row[i].claimAge \in Nat /\ row[i].claimAge <= hold[p]

\* The inductive invariant of the history: no drain past the threshold, every
\* row held freshly, no row held twice.
HoldInv ==
  /\ IInv
  /\ hold \in [Procs -> Nat]
  /\ ~overrun => /\ \A p \in Procs : hold[p] <= Stale
                 /\ \A p \in Procs : \A i \in Owned(p) : FreshlyHeld(i, p)
  /\ ExclusiveUnlessOverrun

\* What a step does to a held row that is no candidate: one that is gone stays
\* gone, a claim that is not stale is kept, ages, or is deleted.
Spares(i) ==
  \/ row[i].kind = "session_mined_candidate"
  \/ /\ row[i].status = "deleted" => row'[i].status = "deleted"
     /\ row[i].status = "processing" /\ ~IsStale(i) =>
          \/ row'[i].status = "deleted"
          \/ /\ row'[i].status = "processing"
             /\ \/ row'[i].claimAge = row[i].claimAge
                \/ Tick /\ row'[i].claimAge = Grow(row[i].claimAge, MaxClaimAge)

\* Held rows are rows of the table.
LEMMA OwnedIn ==
  ASSUME TypeOK, NEW p \in Procs
  PROVE  Owned(p) \subseteq Ids
<1>1. task[p] \in Task
  BY DEF TypeOK
<1>2. QED
  BY <1>1 DEF Owned, Task

\* The hold of a drain that goes on holding never shrinks.
LEMMA HoldGrows ==
  ASSUME HoldInv, HNext
  PROVE  /\ hold' \in [Procs -> Nat]
         /\ \A p \in Procs : Owned(p)' # {} => hold[p] <= hold'[p]
         /\ Tick => \A p \in Procs :
              Owned(p)' # {} => hold'[p] = Grow(hold[p], MaxClaimAge)
<1>1. MaxClaimAge \in Nat
  BY OutboxAssumption DEF MaxClaimAge
<1>2. \A p \in Procs : /\ Grow(hold[p], MaxClaimAge) \in Nat
                       /\ hold[p] <= Grow(hold[p], MaxClaimAge)
  BY <1>1 DEF HoldInv, Grow
<1>3. hold' = [p \in Procs |->
                 IF Owned(p)' = {} THEN 0
                 ELSE IF Tick THEN Grow(hold[p], MaxClaimAge) ELSE hold[p]]
  BY DEF HNext
<1>4. \A p \in Procs : hold[p] \in Nat /\ hold[p] <= hold[p]
  BY DEF HoldInv
<1> HIDE DEF Tick, Grow
<1>5. QED
  BY <1>2, <1>3, <1>4, Zenon, 0 \in Nat

\* A step after which every drain holds at most what it held, and which spares
\* those rows, preserves the invariant.
LEMMA Shrinking ==
  ASSUME HoldInv, HNext, IInv',
         ~overrun => \A p \in Procs : \A i \in Owned(p)' :
           /\ i \in Owned(p)
           /\ Spares(i)
           /\ row[i].kind = "session_mined_candidate"
                => row'[i].kind = "session_mined_candidate"
  PROVE  HoldInv'
<1>1. /\ hold' \in [Procs -> Nat]
      /\ \A p \in Procs : Owned(p)' # {} => hold[p] <= hold'[p]
      /\ Tick => \A p \in Procs :
           Owned(p)' # {} => hold'[p] = Grow(hold[p], MaxClaimAge)
  BY HoldGrows
<1>2. overrun' = (overrun \/ \E p \in Procs : hold'[p] > Stale)
  BY DEF HNext
<1>3. ASSUME ~overrun'
      PROVE  /\ \A p \in Procs : hold'[p] <= Stale
             /\ \A p \in Procs : \A i \in Owned(p)' : FreshlyHeld(i, p)'
             /\ \A p, q \in Procs : p # q => \A i \in Owned(p)' \cap Owned(q)' :
                  row'[i].kind = "session_mined_candidate"
  <2>1. ~overrun /\ \A p \in Procs : ~(hold'[p] > Stale)
    BY <1>2, <1>3
  <2>2. \A p \in Procs : hold'[p] <= Stale
    BY <1>1, <2>1, OutboxAssumption
  <2>3. \A p, q \in Procs : p # q => \A i \in Owned(p)' \cap Owned(q)' :
          row'[i].kind = "session_mined_candidate"
    BY <2>1, Zenon DEF HoldInv, ExclusiveUnlessOverrun
  <2>4. ASSUME NEW p \in Procs, NEW i \in Owned(p)'
        PROVE  FreshlyHeld(i, p)'
    <3>1. /\ i \in Owned(p) /\ Spares(i)
          /\ row[i].kind = "session_mined_candidate"
               => row'[i].kind = "session_mined_candidate"
      BY <2>1
    <3>2. FreshlyHeld(i, p) /\ hold[p] <= Stale /\ hold[p] \in Nat
      BY <2>1, <3>1 DEF HoldInv
    <3>3. CASE row[i].kind = "session_mined_candidate"
      BY <3>1, <3>3 DEF FreshlyHeld
    <3>4. CASE row[i].kind # "session_mined_candidate" /\ row[i].status = "deleted"
      BY <3>1, <3>4 DEF FreshlyHeld, Spares
    <3>5. CASE /\ row[i].kind # "session_mined_candidate"
               /\ row[i].status = "processing"
               /\ row[i].claimAge \in Nat /\ row[i].claimAge <= hold[p]
      <4>1. ~IsStale(i)
        BY <3>2, <3>5, OutboxAssumption DEF IsStale
      <4>2. \/ row'[i].status = "deleted"
            \/ /\ row'[i].status = "processing"
               /\ \/ row'[i].claimAge = row[i].claimAge
                  \/ Tick /\ row'[i].claimAge = Grow(row[i].claimAge, MaxClaimAge)
        BY <3>1, <3>5, <4>1 DEF Spares
      <4>3. CASE row'[i].status = "deleted"
        BY <4>3 DEF FreshlyHeld
      <4>4. CASE row'[i].status = "processing" /\ row'[i].claimAge = row[i].claimAge
        <5>1. hold[p] <= hold'[p] /\ hold'[p] \in Nat
          BY <1>1
        <5>2. QED
          BY <3>2, <3>5, <4>4, <5>1 DEF FreshlyHeld
      <4>5. CASE /\ row'[i].status = "processing" /\ Tick
                 /\ row'[i].claimAge = Grow(row[i].claimAge, MaxClaimAge)
        <5>1. hold'[p] = Grow(hold[p], MaxClaimAge) /\ hold'[p] \in Nat
          BY <1>1, <4>5
        <5>2. MaxClaimAge \in Nat
          BY OutboxAssumption DEF MaxClaimAge
        <5>3. Grow(row[i].claimAge, MaxClaimAge) \in Nat
          BY <3>5, <5>2 DEF Grow
        <5>4. Grow(row[i].claimAge, MaxClaimAge) <= Grow(hold[p], MaxClaimAge)
          BY <3>2, <3>5, <5>2 DEF Grow
        <5>5. QED
          BY <4>5, <5>1, <5>3, <5>4 DEF FreshlyHeld
      <4>6. QED
        BY <4>2, <4>3, <4>4, <4>5
    <3>6. QED
      BY <3>2, <3>3, <3>4, <3>5 DEF FreshlyHeld
  <2>5. QED
    BY <2>2, <2>3, <2>4
<1>4. QED
  BY <1>1, <1>3 DEF HoldInv, ExclusiveUnlessOverrun

\* A row that a drain has dealt with is its own no longer.
LEMMA AfterReleases ==
  ASSUME TypeOK, NEW p \in Procs, NEW i
  PROVE  After(p, i).held \subseteq task[p].held \ {i} /\ After(p, i).cur = NoId
<1>1. task[p] \in Task
  BY DEF TypeOK
<1>2. QED
  BY <1>1 DEF After, Task, Idle

\* A step of drain p that leaves the table alone and claims nothing.
LEMMA TaskHold ==
  ASSUME HoldInv, HNext, IInv', NEW p \in Procs, row' = row, NEW t,
         task' = [task EXCEPT ![p] = t],
         t.held \cup ({t.cur} \ {NoId}) \subseteq Owned(p)
  PROVE  HoldInv'
<1>1. TypeOK /\ task \in [Procs -> Task]
  BY DEF HoldInv, IInv, TypeOK
<1>2. \A i : Spares(i)
  BY DEF Spares
<1>3. \A q \in Procs : q # p => task'[q] = task[q]
  BY <1>1
<1>4. task'[p] = t
  BY <1>1
<1>5. \A q \in Procs : Owned(q)' \subseteq Owned(q)
  BY <1>3, <1>4, Zenon DEF Owned
<1>6. QED
  BY <1>2, <1>5, Shrinking

\* The steps of a drain between its claims and its settlements.
LEMMA DrainHold ==
  ASSUME HoldInv, HNext, IInv', NEW p \in Procs,
         \/ \E w \in Wants(p) : StartDrain(p, w)
         \/ EndClaims(p) \/ Post(p) \/ RecordReceipt(p) \/ ReceiptError(p)
         \/ DrainError(p) \/ Crash(p)
  PROVE  HoldInv'
<1>1. TypeOK /\ task \in [Procs -> Task] /\ task[p] \in Task
  BY DEF HoldInv, IInv, TypeOK
<1>2. ASSUME NEW w \in Wants(p), StartDrain(p, w)
      PROVE  HoldInv'
  <2> DEFINE t == [Idle EXCEPT !.pc = "claim", !.want = w]
  <2>1. row' = row /\ task' = [task EXCEPT ![p] = t]
    BY <1>2 DEF StartDrain
  <2>2. t.held \cup ({t.cur} \ {NoId}) \subseteq Owned(p)
    BY DEF Idle
  <2> HIDE DEF t
  <2>3. QED
    BY <2>1, <2>2, TaskHold
<1>3. CASE EndClaims(p)
  <2> DEFINE t == IF task[p].held # {} THEN [task[p] EXCEPT !.pc = "post", !.taken = 0]
                  ELSE IF task[p].taken > 0 THEN [task[p] EXCEPT !.taken = 0]
                  ELSE Idle
  <2>1. row' = row /\ task' = [task EXCEPT ![p] = t]
    BY <1>3 DEF EndClaims
  <2>2. t.held \cup ({t.cur} \ {NoId}) \subseteq Owned(p)
    BY <1>1 DEF Idle, Owned, Task
  <2> HIDE DEF t
  <2>3. QED
    BY <2>1, <2>2, TaskHold
<1>4. CASE Post(p)
  <2>1. PICK v \in {"receipt", "settle"}, w \in {"ok", "fail"} :
          task' = [task EXCEPT ![p].pc = v, ![p].verdict = w]
    BY <1>4 DEF Post
  <2> DEFINE t == [task[p] EXCEPT !.pc = v, !.verdict = w]
  <2>2. row' = row /\ task' = [task EXCEPT ![p] = t]
    BY <1>1, <1>4, <2>1 DEF Post
  <2>3. t.held \cup ({t.cur} \ {NoId}) \subseteq Owned(p)
    BY <1>1 DEF Owned, Task
  <2> HIDE DEF t
  <2>4. QED
    BY <2>2, <2>3, TaskHold
<1>5. CASE RecordReceipt(p) \/ ReceiptError(p)
  <2>1. PICK w \in {task[p].verdict, "fail"} :
          task' = [task EXCEPT ![p] = [task[p] EXCEPT !.pc = "settle", !.verdict = w]]
    BY <1>1, <1>5 DEF RecordReceipt, ReceiptError, Task
  <2> DEFINE t == [task[p] EXCEPT !.pc = "settle", !.verdict = w]
  <2>2. row' = row /\ task' = [task EXCEPT ![p] = t]
    BY <1>5, <2>1 DEF RecordReceipt, ReceiptError
  <2>3. t.held \cup ({t.cur} \ {NoId}) \subseteq Owned(p)
    BY <1>1 DEF Owned, Task
  <2> HIDE DEF t
  <2>4. QED
    BY <2>2, <2>3, TaskHold
<1>6. CASE DrainError(p) \/ Crash(p)
  <2>1. row' = row /\ task' = [task EXCEPT ![p] = Idle]
    BY <1>6 DEF DrainError, Crash
  <2>2. Idle.held \cup ({Idle.cur} \ {NoId}) \subseteq Owned(p)
    BY DEF Idle
  <2>3. QED
    BY <2>1, <2>2, TaskHold
<1>7. QED
  BY <1>2, <1>3, <1>4, <1>5, <1>6

\* The first statement of mark_failed, and an error of either one.
LEMMA FailingHold ==
  ASSUME HoldInv, HNext, IInv', NEW p \in Procs,
         MarkFailedRead(p) \/ MarkFailedError(p)
  PROVE  HoldInv'
<1> DEFINE i == Failing(p)
           u == [task[p] EXCEPT !.pc = "failwrite", !.cur = i, !.seen = row[i].retry]
<1>1. IInv /\ TypeOK /\ task[p] \in Task
  BY DEF HoldInv, IInv, TypeOK
<1>2. row' = row /\ (task' = [task EXCEPT ![p] = u] \/ task' = [task EXCEPT ![p] = After(p, i)])
  BY DEF MarkFailedRead, MarkFailedError
<1>3. After(p, i).held \cup ({After(p, i).cur} \ {NoId}) \subseteq Owned(p)
  BY <1>1, AfterReleases, Zenon DEF Owned
<1>4. i \in Owned(p)
  <2>1. GoodTask(task[p], row, received, receipts) /\ task[p].held \subseteq Ids
    BY <1>1 DEF IInv, Task
  <2>2. AtFailRead(p) \/ task[p].pc = "failwrite"
    BY DEF MarkFailedRead, MarkFailedError
  <2>3. CASE task[p].pc = "settle"
    BY <2>1, <2>3, OldestIn DEF Failing, Owned, GoodTask, Shape
  <2>4. CASE task[p].pc # "settle"
    <3>1. task[p].cur \in Ids /\ 0 \notin Ids
      BY <2>1, <2>2, <2>4 DEF AtFailRead, GoodTask, Shape, Ids
    <3>2. QED
      BY <2>4, <3>1 DEF Failing, Owned, NoId
  <2>5. QED
    BY <2>3, <2>4
<1>5. u.held \cup ({u.cur} \ {NoId}) \subseteq Owned(p)
  <2>1. u.held = task[p].held /\ u.cur = i
    BY <1>1 DEF Task
  <2>2. task[p].held \subseteq Owned(p)
    BY DEF Owned
  <2> HIDE DEF u, i
  <2>3. QED
    BY <1>4, <2>1, <2>2
<1> HIDE DEF u, i
<1>6. CASE task' = [task EXCEPT ![p] = u]
  BY <1>2, <1>5, <1>6, TaskHold
<1>7. CASE task' = [task EXCEPT ![p] = After(p, i)]
  BY <1>2, <1>3, <1>7, TaskHold
<1>8. QED
  BY <1>2, <1>6, <1>7

\* A confirmed row is gone, and no longer held.
LEMMA ConfirmHold ==
  ASSUME HoldInv, HNext, IInv', NEW p \in Procs, Confirm(p)
  PROVE  HoldInv'
<1> DEFINE i == Oldest(task[p].held)
<1>1. TypeOK /\ task \in [Procs -> Task] /\ row \in [Ids -> Row]
  BY DEF HoldInv, IInv, TypeOK
<1>2. task' = [task EXCEPT ![p] = After(p, i)] /\ row' = Without(i)
  BY DEF Confirm
<1>3. After(p, i).held \cup ({After(p, i).cur} \ {NoId}) \subseteq Owned(p)
  BY <1>1, AfterReleases, Zenon DEF Owned
<1>4. \A q \in Procs : Owned(q)' \subseteq Owned(q)
  <2>1. \A q \in Procs : q # p => task'[q] = task[q]
    BY <1>1, <1>2
  <2>2. task'[p] = After(p, i)
    BY <1>1, <1>2
  <2>3. QED
    BY <1>3, <2>1, <2>2, Zenon DEF Owned
<1>5. \A j \in Ids : Spares(j) /\ row'[j].kind = row[j].kind
  BY <1>1, <1>2 DEF Without, Spares, Row
<1>6. \A q \in Procs : Owned(q) \subseteq Ids
  BY <1>1, OwnedIn
<1>7. QED
  BY <1>4, <1>5, <1>6, Shrinking

\* A failure is recorded for a row that only the failing drain holds, unless it
\* is a candidate.
LEMMA MarkFailedWriteHold ==
  ASSUME HoldInv, HNext, IInv', NEW p \in Procs, MarkFailedWrite(p)
  PROVE  HoldInv'
<1> DEFINE i == task[p].cur
<1>1. TypeOK /\ task \in [Procs -> Task] /\ row \in [Ids -> Row]
  BY DEF HoldInv, IInv, TypeOK
<1>2. task' = [task EXCEPT ![p] = After(p, i)]
  BY DEF MarkFailedWrite
<1>3. After(p, i).held \cup ({After(p, i).cur} \ {NoId}) \subseteq Owned(p) \ {i}
  BY <1>1, AfterReleases, Zenon DEF Owned
<1>4. i \in Owned(p)
  <2>1. GoodTask(task[p], row, received, receipts) /\ task[p].pc = "failwrite"
    BY DEF HoldInv, IInv, MarkFailedWrite
  <2>2. task[p].cur \in Ids /\ 0 \notin Ids
    BY <2>1 DEF GoodTask, Shape, Ids
  <2>3. QED
    BY <2>2 DEF Owned, NoId
<1>5. \A q \in Procs : q # p => task'[q] = task[q]
  BY <1>1, <1>2
<1>6. task'[p] = After(p, i)
  BY <1>1, <1>2
<1>7. \A q \in Procs : Owned(q)' \subseteq Owned(q)
  BY <1>3, <1>5, <1>6, Zenon DEF Owned
<1>8. i \notin Owned(p)'
  BY <1>3, <1>6, Zenon DEF Owned
<1>9. \A j \in Ids : row'[j].kind = row[j].kind /\ (j # i => row'[j] = row[j])
  BY <1>1 DEF MarkFailedWrite, Row
<1>10. \A j \in Ids : j # i => Spares(j)
  BY <1>9 DEF Spares
<1>11. ASSUME ~overrun, NEW q \in Procs, i \in Owned(q)'
       PROVE  Spares(i)
  <2>1. q # p /\ i \in Owned(q)
    BY <1>7, <1>8, <1>11
  <2>2. row[i].kind = "session_mined_candidate"
    BY <1>4, <1>11, <2>1, Zenon DEF HoldInv, ExclusiveUnlessOverrun
  <2>3. QED
    BY <2>2 DEF Spares
<1>12. \A q \in Procs : Owned(q) \subseteq Ids
  BY <1>1, OwnedIn
<1> HIDE DEF i
<1>13. QED
  BY <1>7, <1>9, <1>10, <1>11, <1>12, Shrinking, Zenon

\* Steps that change no drain: new rows, maintenance, reviews and time.
LEMMA TableHold ==
  ASSUME HoldInv, HNext, IInv', task' = task,
         \A i \in Ids : row[i].status # "none" =>
           Spares(i) /\ row'[i].kind = row[i].kind
  PROVE  HoldInv'
<1>1. TypeOK
  BY DEF HoldInv, IInv
<1>2. \A q \in Procs : Owned(q)' = Owned(q) /\ Owned(q) \subseteq Ids
  BY <1>1, OwnedIn DEF Owned
<1>3. ASSUME ~overrun, NEW p \in Procs, NEW i \in Owned(p)
      PROVE  row[i].status # "none"
  <2>1. FreshlyHeld(i, p) /\ i \in Ids
    BY <1>2, <1>3 DEF HoldInv
  <2>2. row[i].status = "none" => row[i].kind = "none"
    BY <2>1 DEF HoldInv, IInv, GoodRow
  <2>3. QED
    BY <2>1, <2>2 DEF FreshlyHeld
<1>4. QED
  BY <1>2, <1>3, Shrinking, Zenon

\* New rows, maintenance and fresh handles.
LEMMA MaintenanceHold ==
  ASSUME HoldInv, HNext, IInv',
         \/ \E i \in Ids, k \in Kinds, v \in Parses : Enqueue(i, k, v)
         \/ ResetStale
         \/ \E p \in Procs : NewHandle(p) \/ DrainAbandoned(p)
  PROVE  HoldInv'
<1>1. row \in [Ids -> Row]
  BY DEF HoldInv, IInv, TypeOK
<1>2. task' = task
  BY DEF Enqueue, ResetStale, NewHandle, DrainAbandoned
<1>3. ASSUME NEW i \in Ids, row[i].status # "none"
      PROVE  Spares(i) /\ row'[i].kind = row[i].kind
  <2>1. CASE \E j \in Ids, k \in Kinds, v \in Parses : Enqueue(j, k, v)
    <3>1. row'[i] = row[i]
      BY <1>1, <1>3, <2>1 DEF Enqueue
    <3>2. QED
      BY <3>1 DEF Spares
  <2>2. CASE ResetStale
    <3>1. row'[i] = IF IsStale(i) THEN [row[i] EXCEPT !.status = "pending", !.claimAge = Null]
                    ELSE row[i]
      BY <2>2 DEF ResetStale
    <3>2. QED
      BY <1>1, <3>1 DEF Spares, IsStale, Row
  <2>3. CASE \E p \in Procs : NewHandle(p)
    BY <2>3 DEF NewHandle, Spares
  <2>4. CASE \E p \in Procs : DrainAbandoned(p)
    <3>1. row'[i] = IF Resurrectable(i)
                    THEN [row[i] EXCEPT !.status = "pending", !.retry = 0, !.claimAge = Null]
                    ELSE row[i]
      BY <2>4 DEF DrainAbandoned
    <3>2. QED
      BY <1>1, <3>1 DEF Spares, Resurrectable, Row
  <2>5. QED
    BY <2>1, <2>2, <2>3, <2>4
<1>4. QED
  BY <1>2, <1>3, TableHold

\* Reviews work on candidates only.
LEMMA ReviewHold ==
  ASSUME HoldInv, HNext, IInv', NEW r \in Reviewers,
         (\E i \in Ids : ReviewFind(r, i)) \/ ReviewApprove(r) \/ ReviewReject(r)
  PROVE  HoldInv'
<1>1. row \in [Ids -> Row] /\ review[r] \in Ids \cup {NoId}
  BY DEF HoldInv, IInv, TypeOK
<1>2. task' = task
  BY DEF ReviewFind, ReviewApprove, ReviewReject
<1>3. review[r] # NoId => row[review[r]].kind = "session_mined_candidate"
  BY DEF HoldInv, IInv, GoodReview
<1>4. ASSUME NEW i \in Ids
      PROVE  Spares(i) /\ row'[i].kind = row[i].kind
  <2>1. CASE \E j \in Ids : ReviewFind(r, j)
    BY <2>1 DEF ReviewFind, Spares
  <2>2. CASE ReviewApprove(r) \/ ReviewReject(r)
    <3>1. row'[i].kind = row[i].kind /\ (i # review[r] => row'[i] = row[i])
      <4>1. CASE ReviewApprove(r)
        BY <1>1, <4>1 DEF ReviewApprove, Row
      <4>2. CASE ReviewReject(r)
        BY <1>1, <4>2 DEF ReviewReject, Without, Row
      <4>3. QED
        BY <2>2, <4>1, <4>2
    <3>2. review[r] # NoId
      BY <2>2 DEF ReviewApprove, ReviewReject
    <3>3. QED
      BY <1>3, <3>1, <3>2 DEF Spares
  <2>3. QED
    BY <2>1, <2>2
<1>5. QED
  BY <1>2, <1>4, TableHold

\* Time ages a claim and the hold of its drain alike.
LEMMA TickHold ==
  ASSUME HoldInv, HNext, IInv', Tick
  PROVE  HoldInv'
<1>1. row \in [Ids -> Row] /\ task' = task
  BY DEF HoldInv, IInv, TypeOK, Tick
<1>2. ASSUME NEW i \in Ids
      PROVE  Spares(i) /\ row'[i].kind = row[i].kind
  <2>1. row'[i] = IF Exists(i) THEN Aged(row[i]) ELSE row[i]
    BY DEF Tick
  <2>2. row'[i].kind = row[i].kind /\ row'[i].status = row[i].status
    BY <1>1, <2>1 DEF Aged, Row
  <2>3. row[i].status = "processing" =>
          \/ row'[i].claimAge = row[i].claimAge
          \/ row'[i].claimAge = Grow(row[i].claimAge, MaxClaimAge)
    BY <1>1, <2>1 DEF Aged, Row
  <2>4. QED
    BY <2>2, <2>3, Zenon DEF Spares
<1>3. QED
  BY <1>1, <1>2, TableHold

\* A claim takes no row that is held, unless it is a candidate: what is held is
\* neither pending nor stale.
LEMMA ClaimHold ==
  ASSUME HoldInv, HNext, IInv', NEW p \in Procs, Claim(p)
  PROVE  HoldInv'
<1> DEFINE i == Oldest(Claimable(task[p].want))
<1>1. TypeOK /\ task \in [Procs -> Task] /\ row \in [Ids -> Row] /\ hold \in [Procs -> Nat]
  BY DEF HoldInv, IInv, TypeOK
<1>2. i \in Ids /\ (row[i].status = "pending" \/ IsStale(i))
  <2>1. Claimable(task[p].want) # {} /\ Claimable(task[p].want) \in SUBSET Ids
    BY DEF Claim, MayClaim, Claimable
  <2>2. i \in Claimable(task[p].want)
    BY <2>1, OldestIn
  <2>3. QED
    BY <2>2 DEF Claimable
<1>3. /\ row'[i].status = "processing" /\ row'[i].claimAge = 0
      /\ \A j \in Ids : row'[j].kind = row[j].kind /\ (j # i => row'[j] = row[j])
  <2>1. row' = [row EXCEPT ![i].status = "processing", ![i].claimAge = 0]
    BY DEF Claim
  <2> HIDE DEF i
  <2>2. QED
    BY <1>1, <1>2, <2>1 DEF Row
<1>4. \A q \in Procs : Owned(q) \subseteq Ids
  BY <1>1, OwnedIn
<1>5. \A q \in Procs : q # p => Owned(q)' = Owned(q)
  <2>1. \A q \in Procs : q # p => task'[q] = task[q]
    BY <1>1 DEF Claim
  <2>2. QED
    BY <2>1 DEF Owned
<1>6. Owned(p)' \subseteq Owned(p) \cup {i}
  <2> DEFINE t == [task[p] EXCEPT !.attempted = @ + 1, !.taken = @ + 1]
             bad == t.want = "observation" /\ ~row[i].valid
             u == [t EXCEPT !.pc = "failread", !.cur = i]
             v == [t EXCEPT !.held = @ \cup {i}]
  <2>1. task' = [task EXCEPT ![p] = IF bad THEN u ELSE v]
    BY DEF Claim
  <2>2. t.held = task[p].held /\ t.cur = task[p].cur /\ t \in Task
    <3>1. task[p] \in Task
      BY <1>1
    <3>2. t \in Task
      BY <3>1, TaskEdit
    <3>3. QED
      BY <3>1, <3>2 DEF Task
  <2> HIDE DEF t, i
  <2>3. /\ u.held = task[p].held /\ u.cur = i
        /\ v.held = task[p].held \cup {i} /\ v.cur = task[p].cur
    BY <2>2 DEF Task
  <2> HIDE DEF u, v, bad
  <2>4. task'[p] = u \/ task'[p] = v
    BY <1>1, <2>1
  <2>5. QED
    BY <2>3, <2>4, Zenon DEF Owned
<1> HIDE DEF i
<1>7. /\ hold' \in [Procs -> Nat]
      /\ \A q \in Procs : Owned(q)' # {} => hold[q] <= hold'[q]
  BY HoldGrows
<1>8. overrun' = (overrun \/ \E q \in Procs : hold'[q] > Stale)
  BY DEF HNext
<1>9. ASSUME ~overrun'
      PROVE  /\ \A q \in Procs : hold'[q] <= Stale
             /\ \A q \in Procs : \A j \in Owned(q)' : FreshlyHeld(j, q)'
             /\ \A q, r \in Procs : q # r => \A j \in Owned(q)' \cap Owned(r)' :
                  row'[j].kind = "session_mined_candidate"
  <2>1. ~overrun /\ \A q \in Procs : hold'[q] <= Stale
    <3>1. ~overrun /\ \A q \in Procs : ~(hold'[q] > Stale)
      BY <1>8, <1>9
    <3>2. QED
      BY <1>7, <3>1, OutboxAssumption
  <2>2. \A q \in Procs : \A j \in Owned(q) : FreshlyHeld(j, q) /\ hold[q] <= Stale
    BY <2>1 DEF HoldInv
  <2>3. ASSUME NEW q \in Procs, i \in Owned(q)
        PROVE  row[i].kind = "session_mined_candidate"
    <3>1. FreshlyHeld(i, q) /\ hold[q] <= Stale /\ hold[q] \in Nat
      BY <1>1, <2>2, <2>3
    <3>2. QED
      BY <1>2, <3>1, OutboxAssumption DEF FreshlyHeld, IsStale
  <2>4. ASSUME NEW q \in Procs, NEW j \in Owned(q)'
        PROVE  FreshlyHeld(j, q)'
    <3>1. hold[q] <= hold'[q] /\ hold[q] \in Nat /\ hold'[q] \in Nat
      BY <1>1, <1>7
    <3>2. CASE j = i
      BY <1>3, <3>1, <3>2 DEF FreshlyHeld
    <3>3. CASE j # i
      <4>1. j \in Owned(q) /\ j \in Ids
        BY <1>4, <1>5, <1>6, <3>3
      <4>2. FreshlyHeld(j, q) /\ row'[j] = row[j]
        BY <1>3, <2>2, <3>3, <4>1
      <4>3. QED
        BY <3>1, <4>2 DEF FreshlyHeld
    <3>4. QED
      BY <3>2, <3>3
  <2>5. ASSUME NEW q \in Procs, NEW r \in Procs, q # r, NEW j \in Owned(q)' \cap Owned(r)'
        PROVE  row'[j].kind = "session_mined_candidate"
    <3>1. CASE j = i
      <4>1. i \in Owned(q) \/ i \in Owned(r)
        BY <1>5, <2>5, <3>1
      <4>2. QED
        BY <1>2, <1>3, <2>3, <3>1, <4>1
    <3>2. CASE j # i
      <4>1. j \in Owned(q) /\ j \in Owned(r) /\ j \in Ids
        BY <1>4, <1>5, <1>6, <3>2
      <4>2. row[j].kind = "session_mined_candidate"
        BY <2>1, <2>5, <4>1, Zenon DEF HoldInv, ExclusiveUnlessOverrun
      <4>3. QED
        BY <1>3, <4>1, <4>2
    <3>3. QED
      BY <3>1, <3>2
  <2>6. QED
    BY <2>1, <2>4, <2>5
<1>10. QED
  BY <1>7, <1>9 DEF HoldInv, ExclusiveUnlessOverrun

\* Nothing is held at first.
LEMMA InitHold == HInit => HoldInv
<1> SUFFICES ASSUME HInit PROVE HoldInv
  OBVIOUS
<1>1. IInv /\ hold \in [Procs -> Nat] /\ \A p \in Procs : hold[p] <= Stale
  BY InitInv, OutboxAssumption DEF HInit
<1>2. \A p \in Procs : Owned(p) = {}
  BY DEF HInit, Init, Idle, Owned
<1>3. QED
  BY <1>1, <1>2 DEF HoldInv, ExclusiveUnlessOverrun

\* Every step keeps what the history says.
LEMMA NextHold == HoldInv /\ [HNext]_hvars => HoldInv'
<1> SUFFICES ASSUME HoldInv, [HNext]_hvars PROVE HoldInv'
  OBVIOUS
<1>1. CASE UNCHANGED hvars
  BY <1>1 DEF hvars, vars, HoldInv, IInv, TypeOK, GoodReview, ExclusiveUnlessOverrun,
     Owned, FreshlyHeld
<1>2. CASE HNext
  <2>1. Next /\ IInv'
    BY <1>2, NextInv DEF HNext, HoldInv
  <2>2. CASE \/ \E i \in Ids, k \in Kinds, v \in Parses : Enqueue(i, k, v)
             \/ ResetStale
             \/ \E p \in Procs : NewHandle(p) \/ DrainAbandoned(p)
    BY <1>2, <2>1, <2>2, MaintenanceHold
  <2>3. ASSUME NEW p \in Procs, (\E w \in Wants(p) : StartDrain(p, w)) \/ DrainStep(p)
               \/ MarkFailedError(p) \/ ReceiptError(p) \/ DrainError(p) \/ Crash(p)
        PROVE  HoldInv'
    <3>1. CASE Claim(p)
      BY <1>2, <2>1, <3>1, ClaimHold
    <3>2. CASE Confirm(p)
      BY <1>2, <2>1, <3>2, ConfirmHold
    <3>3. CASE MarkFailedRead(p) \/ MarkFailedError(p)
      BY <1>2, <2>1, <3>3, FailingHold
    <3>4. CASE MarkFailedWrite(p)
      BY <1>2, <2>1, <3>4, MarkFailedWriteHold
    <3>5. CASE \/ \E w \in Wants(p) : StartDrain(p, w)
               \/ EndClaims(p) \/ Post(p) \/ RecordReceipt(p) \/ ReceiptError(p)
               \/ DrainError(p) \/ Crash(p)
      BY <1>2, <2>1, <3>5, DrainHold
    <3>6. QED
      BY <2>3, <3>1, <3>2, <3>3, <3>4, <3>5 DEF DrainStep
  <2>4. ASSUME NEW r \in Reviewers,
               (\E i \in Ids : ReviewFind(r, i)) \/ ReviewApprove(r) \/ ReviewReject(r)
        PROVE  HoldInv'
    BY <1>2, <2>1, <2>4, ReviewHold
  <2>5. CASE Tick
    BY <1>2, <2>1, <2>5, TickHold
  <2>6. QED
    BY <2>1, <2>2, <2>3, <2>4, <2>5 DEF Next
<1>3. QED
  BY <1>1, <1>2

\* While no drain holds rows for longer than the stale threshold, no row but a
\* candidate is worked on by two processes: neither crashes, nor SQL errors, nor
\* late failures, nor maintenance by other processes hand out a held row.
THEOREM HeldByOne == HSpec => []ExclusiveUnlessOverrun
<1>1. HoldInv => ExclusiveUnlessOverrun
  BY DEF HoldInv
<1>2. QED
  BY <1>1, InitHold, NextHold, PTL DEF HSpec

-----------------------------------------------------------------------------
(* Refinement.  Every step of the outbox is one of the delivery queue or a *)
(* stutter.                                                                *)

\* A step that keeps what the queue sees of every row is a stutter.
LEMMA Stutter ==
  ASSUME UNCHANGED <<received, rejected>>,
         \A i \in Ids : /\ ItemState(row'[i].status) = ItemState(row[i].status)
                        /\ GateState(row'[i]) = GateState(row[i])
                        /\ row'[i].kind = row[i].kind
  PROVE  UNCHANGED Queue!qvars
BY DEF Queue!qvars, itemState, itemGate, retiredItems

\* What replacing one row does to the queue.
LEMMA MapRow ==
  ASSUME row \in [Ids -> Row], NEW i \in Ids, NEW r, row' = [row EXCEPT ![i] = r]
  PROVE  /\ itemState' = [itemState EXCEPT ![i] = ItemState(r.status)]
         /\ itemGate' = [itemGate EXCEPT ![i] = GateState(r)]
         /\ r.kind = row[i].kind => retiredItems' = retiredItems
         /\ row[i].kind = "none" => retiredItems' \in {retiredItems, retiredItems \cup {i}}
<1>1. \A j \in Ids : row'[j] = IF j = i THEN r ELSE row[j]
  OBVIOUS
<1>2. row[i].kind = "none" => retiredItems' \in {retiredItems, retiredItems \cup {i}}
  <2> SUFFICES ASSUME row[i].kind = "none"
               PROVE  retiredItems' \in {retiredItems, retiredItems \cup {i}}
    OBVIOUS
  <2>1. i \notin retiredItems
    BY DEF retiredItems, Retired
  <2>2. \A j \in Ids \ {i} : j \in retiredItems' <=> j \in retiredItems
    BY <1>1 DEF retiredItems
  <2>3. retiredItems \subseteq Ids /\ retiredItems' \subseteq Ids
    BY DEF retiredItems
  <2>4. CASE i \in retiredItems'
    <3>1. retiredItems' = retiredItems \cup {i}
      BY <2>2, <2>3, <2>4
    <3>2. QED
      BY <3>1
  <2>5. CASE i \notin retiredItems'
    <3>1. retiredItems' = retiredItems
      BY <2>1, <2>2, <2>3, <2>5
    <3>2. QED
      BY <3>1
  <2>6. QED
    BY <2>4, <2>5
<1>3. QED
  BY <1>1, <1>2 DEF itemState, itemGate, retiredItems

\* Replacing a row by one with the same kind and approval moves only its state.
LEMMA MapStatus ==
  ASSUME row \in [Ids -> Row], NEW i \in Ids, NEW r, row' = [row EXCEPT ![i] = r],
         r.kind = row[i].kind, r.approved = row[i].approved
  PROVE  /\ itemState' = [itemState EXCEPT ![i] = ItemState(r.status)]
         /\ itemGate' = itemGate /\ retiredItems' = retiredItems
<1>1. \A j \in Ids : GateState(row'[j]) = GateState(row[j])
  BY DEF GateState
<1>2. itemGate' = itemGate
  BY <1>1 DEF itemGate
<1>3. QED
  BY <1>2, MapRow

\* Steps that touch neither the table, the cloud nor the rejections.
LEMMA TaskStepStutters ==
  ASSUME UNCHANGED <<row, received, rejected>>
  PROVE  UNCHANGED Queue!qvars
BY Stutter

\* An insert is a Put.
LEMMA EnqueueRefines ==
  ASSUME IInv, NEW i \in Ids, NEW k \in Kinds, NEW v \in Parses, Enqueue(i, k, v)
  PROVE  Queue!QNext
<1> DEFINE r == [NoRow EXCEPT !.status = "pending", !.kind = k, !.valid = v]
<1>1. /\ row[i].status = "none" /\ row' = [row EXCEPT ![i] = r]
      /\ UNCHANGED <<received, rejected>> /\ row \in [Ids -> Row]
  BY DEF Enqueue, farVars, IInv, TypeOK
<1>2. r.status = "pending" /\ r.kind = k
  BY DEF NoRow
<1> HIDE DEF r
<1>3. /\ itemState[i] = "absent"
      /\ itemState' = [itemState EXCEPT ![i] = "queued"]
  BY <1>1, <1>2, MapRow DEF itemState, ItemState
<1>4. itemGate' = [itemGate EXCEPT ![i] = GateState(r)] /\ GateState(r) \in {"open", "closed"}
  BY <1>1, MapRow DEF GateState
<1>5. retiredItems' \in {retiredItems, retiredItems \cup {i}}
  <2>1. row[i].kind = "none"
    BY <1>1 DEF IInv, GoodRow
  <2>2. QED
    BY <1>1, <2>1, MapRow
<1>6. QED
  BY <1>1, <1>3, <1>4, <1>5 DEF Queue!QNext, Queue!Put

\* A drain confirms only what the cloud has or what is retired: Finish.
LEMMA ConfirmRefines ==
  ASSUME IInv, NEW p \in Procs, Confirm(p)
  PROVE  Queue!QNext
<1> DEFINE i == Oldest(task[p].held)
           r == [row[i] EXCEPT !.status = "deleted", !.retry = 0, !.age = 0,
                               !.claimAge = Null]
<1>1. task[p] \in Task /\ GoodTask(task[p], row, received, receipts)
  BY DEF IInv, TypeOK
<1>2. /\ task[p].pc = "settle" /\ task[p].verdict = "ok"
      /\ row' = [row EXCEPT ![i] = r] /\ UNCHANGED <<received, rejected>>
      /\ row \in [Ids -> Row]
  BY DEF Confirm, Without, farVars, IInv, TypeOK
<1>3. i \in task[p].held /\ i \in Ids
  BY <1>1, <1>2, OldestIn DEF GoodTask, Shape, Task
<1> HIDE DEF i
<1>4. /\ row[i].status # "none"
      /\ i \in received \/ row[i].kind \in Retired
  BY <1>1, <1>2, <1>3 DEF GoodTask
<1>5. /\ r.status = "deleted" /\ r.kind = row[i].kind /\ r.approved = row[i].approved
  BY <1>2, <1>3 DEF Row
<1> HIDE DEF r
<1>6. /\ itemState' = [itemState EXCEPT ![i] = "gone"]
      /\ itemGate' = itemGate /\ retiredItems' = retiredItems
  BY <1>2, <1>3, <1>5, MapStatus DEF ItemState
<1>7. itemState[i] # "absent" /\ i \in received \cup retiredItems
  BY <1>3, <1>4 DEF itemState, ItemState, retiredItems
<1>8. QED
  BY <1>2, <1>3, <1>6, <1>7 DEF Queue!QNext, Queue!Finish

\* An accepted request delivers the rows held; they were inserted, and the
\* candidates among them are approved: Deliver.
LEMMA PostRefines ==
  ASSUME IInv, NEW p \in Procs, Post(p)
  PROVE  Queue!QNext \/ UNCHANGED Queue!qvars
<1>1. task[p] \in Task /\ GoodTask(task[p], row, received, receipts)
  BY DEF IInv, TypeOK
<1>2. /\ received' = received \/ received' = received \cup task[p].held
      /\ UNCHANGED <<row, rejected>>
  BY DEF Post
<1>3. CASE received' = received
  BY <1>2, <1>3, TaskStepStutters
<1>4. CASE received' = received \cup task[p].held
  <2>1. task[p].held \in SUBSET Ids
    BY <1>1 DEF Task
  <2>2. \A i \in task[p].held : itemState[i] # "absent" /\ itemGate[i] = "open"
    BY <1>1, <2>1 DEF GoodTask, itemState, ItemState, itemGate, GateState
  <2>3. UNCHANGED <<itemState, itemGate, retiredItems>>
    BY <1>2 DEF itemState, itemGate, retiredItems
  <2>4. QED
    BY <1>2, <1>4, <2>1, <2>2, <2>3 DEF Queue!QNext, Queue!Deliver
<1>5. QED
  BY <1>2, <1>3, <1>4

\* A claim only moves a queued row to 'processing'.
LEMMA ClaimRefines ==
  ASSUME IInv, NEW p \in Procs, Claim(p)
  PROVE  UNCHANGED Queue!qvars
<1> DEFINE i == Oldest(Claimable(task[p].want))
           r == [row[i] EXCEPT !.status = "processing", !.claimAge = 0]
<1>1. i \in Claimable(task[p].want)
  BY OldestIn DEF Claim, MayClaim, Claimable
<1>2. i \in Ids /\ row[i].status \in {"pending", "processing"}
  BY <1>1 DEF Claimable, IsStale
<1>3. /\ row' = [row EXCEPT ![i] = r] /\ UNCHANGED <<received, rejected>>
      /\ row \in [Ids -> Row]
  BY <1>2 DEF Claim, farVars, IInv, TypeOK
<1> HIDE DEF i
<1>4. r.status = "processing" /\ r.kind = row[i].kind /\ r.approved = row[i].approved
  BY <1>2, <1>3 DEF Row
<1> HIDE DEF r
<1>5. QED
  BY <1>2, <1>3, <1>4, Stutter DEF ItemState, GateState

\* mark_failed gives a row up, keeps it queued, or, when another process gave
\* it up between the SELECT and the UPDATE, revives it.
LEMMA MarkFailedWriteRefines ==
  ASSUME IInv, NEW p \in Procs, MarkFailedWrite(p)
  PROVE  Queue!QNext \/ UNCHANGED Queue!qvars
<1> DEFINE i == task[p].cur
           n == task[p].seen
           r == [row[i] EXCEPT !.status = NextStatus(n), !.retry = NextCount(n),
                               !.claimAge = Null]
<1>1. task[p] \in Task /\ GoodTask(task[p], row, received, receipts)
  BY DEF IInv, TypeOK
<1>2. i \in Ids /\ n \in 0..MaxRetry /\ row \in [Ids -> Row]
  BY <1>1 DEF MarkFailedWrite, GoodTask, Shape, Task, IInv, TypeOK
<1>3. /\ row' = IF Exists(i) THEN [row EXCEPT ![i] = r] ELSE row
      /\ UNCHANGED <<received, rejected>>
  BY <1>2 DEF MarkFailedWrite, farVars
<1>4. NextStatus(n) \in {"pending", "abandoned"}
  BY DEF NextStatus
<1>5. /\ r.status = NextStatus(n) /\ r.kind = row[i].kind
      /\ r.approved = row[i].approved
  BY <1>2 DEF Row
<1> HIDE DEF i, n, r
<1>6. CASE ~Exists(i)
  BY <1>3, <1>6, TaskStepStutters
<1>7. CASE Exists(i)
  <2>1. row[i].status \in {"pending", "processing", "abandoned"}
    BY <1>2, <1>7 DEF Exists, Row
  <2>2. row' = [row EXCEPT ![i] = r]
    BY <1>3, <1>7
  <2>3. /\ itemState' = [itemState EXCEPT ![i] = ItemState(NextStatus(n))]
        /\ itemGate' = itemGate /\ retiredItems' = retiredItems
    BY <1>2, <1>5, <2>2, MapStatus
  <2>4. itemState[i] \in {"queued", "dead"} /\ DOMAIN itemState = Ids
    BY <1>2, <2>1 DEF itemState, ItemState
  <2>5. CASE NextStatus(n) = "abandoned"
    <3>1. itemState' = [itemState EXCEPT ![i] = "dead"]
      BY <2>3, <2>5 DEF ItemState
    <3>2. QED
      BY <1>2, <1>3, <2>3, <2>4, <3>1 DEF Queue!QNext, Queue!GiveUp
  <2>6. CASE NextStatus(n) = "pending"
    <3>1. itemState' = [itemState EXCEPT ![i] = "queued"]
      BY <2>3, <2>6 DEF ItemState
    <3>2. CASE itemState[i] = "queued"
      BY <1>2, <1>3, <2>3, <2>4, <3>1, <3>2 DEF Queue!qvars, itemState
    <3>3. CASE itemState[i] = "dead"
      <4>1. itemState' = [j \in Ids |-> IF j \in {i} THEN "queued" ELSE itemState[j]]
        BY <1>2, <3>1 DEF itemState
      <4>2. {i} \in SUBSET Ids /\ \A j \in {i} : itemState[j] = "dead"
        BY <1>2, <3>3
      <4>3. Queue!Revive({i})
        BY <1>3, <2>3, <4>1, <4>2 DEF Queue!Revive
      <4>4. QED
        BY <4>2, <4>3 DEF Queue!QNext
    <3>4. QED
      BY <2>4, <3>2, <3>3
  <2>7. QED
    BY <1>4, <2>5, <2>6
<1>8. QED
  BY <1>6, <1>7

\* reset_stale and the passing of time change nothing the queue sees.
LEMMA TableStutters ==
  ASSUME IInv, ResetStale \/ Tick
  PROVE  UNCHANGED Queue!qvars
<1>1. UNCHANGED <<received, rejected>>
  BY DEF ResetStale, Tick, farVars
<1>2. ASSUME NEW i \in Ids
      PROVE  /\ ItemState(row'[i].status) = ItemState(row[i].status)
             /\ GateState(row'[i]) = GateState(row[i]) /\ row'[i].kind = row[i].kind
  <2>1. row[i] \in Row
    BY DEF IInv, TypeOK
  <2>2. CASE row'[i] = row[i]
    BY <2>2
  <2>3. CASE /\ row'[i] = [row[i] EXCEPT !.status = "pending", !.claimAge = Null]
             /\ row[i].status = "processing"
    <3>1. /\ row'[i].status = "pending" /\ row'[i].kind = row[i].kind
          /\ row'[i].approved = row[i].approved
      BY <2>1, <2>3 DEF Row
    <3>2. QED
      BY <2>3, <3>1 DEF ItemState, GateState
  <2>4. ASSUME NEW a, NEW c, row'[i] = [row[i] EXCEPT !.age = a, !.claimAge = c]
        PROVE  /\ ItemState(row'[i].status) = ItemState(row[i].status)
               /\ GateState(row'[i]) = GateState(row[i]) /\ row'[i].kind = row[i].kind
    <3>1. /\ row'[i].status = row[i].status /\ row'[i].kind = row[i].kind
          /\ row'[i].approved = row[i].approved
      BY <2>1, <2>4 DEF Row
    <3>2. QED
      BY <3>1 DEF GateState
  <2>5. CASE ResetStale
    BY <2>2, <2>3, <2>5 DEF ResetStale, IsStale
  <2>6. CASE Tick
    BY <2>2, <2>4, <2>6 DEF Tick, Aged
  <2>7. QED
    BY <2>5, <2>6
<1>3. QED
  BY <1>1, <1>2, Stutter

\* drain_abandoned_older_than revives the rows it selects.
LEMMA DrainAbandonedRefines ==
  ASSUME IInv, NEW p \in Procs, DrainAbandoned(p)
  PROVE  Queue!QNext
<1> DEFINE S == {i \in Ids : Resurrectable(i)}
<1>1. UNCHANGED <<received, rejected>>
  BY DEF DrainAbandoned, farVars
<1>2. ASSUME NEW i \in Ids
      PROVE  /\ ItemState(row'[i].status) =
                  IF i \in S THEN "queued" ELSE ItemState(row[i].status)
             /\ i \in S => ItemState(row[i].status) = "dead"
             /\ GateState(row'[i]) = GateState(row[i]) /\ row'[i].kind = row[i].kind
  <2>1. row[i] \in Row
    BY DEF IInv, TypeOK
  <2>2. CASE i \notin S
    BY <2>2 DEF DrainAbandoned
  <2>3. CASE i \in S
    <3>1. row'[i] = [row[i] EXCEPT !.status = "pending", !.retry = 0, !.claimAge = Null]
      BY <2>3 DEF DrainAbandoned
    <3>2. /\ row'[i].status = "pending" /\ row'[i].kind = row[i].kind
          /\ row'[i].approved = row[i].approved
      BY <2>1, <3>1 DEF Row
    <3>3. row[i].status = "abandoned"
      BY <2>3 DEF Resurrectable
    <3>4. QED
      BY <2>3, <3>2, <3>3 DEF ItemState, GateState
  <2>4. QED
    BY <2>2, <2>3
<1> HIDE DEF S
<1>3. itemState' = [i \in Ids |-> IF i \in S THEN "queued" ELSE itemState[i]]
  BY <1>2 DEF itemState
<1>4. itemGate' = itemGate /\ retiredItems' = retiredItems
  BY <1>2 DEF itemGate, retiredItems
<1>5. S \in SUBSET Ids /\ \A i \in S : itemState[i] = "dead"
  <2>1. S \in SUBSET Ids
    BY DEF S
  <2>2. QED
    BY <1>2, <2>1 DEF itemState
<1>6. Queue!Revive(S)
  BY <1>1, <1>3, <1>4, <1>5 DEF Queue!Revive
<1>7. QED
  BY <1>5, <1>6 DEF Queue!QNext

\* An approval opens the gate of a candidate, a rejection cancels it; both do
\* nothing to a row that has left the table meanwhile.
LEMMA ReviewRefines ==
  ASSUME IInv, NEW x \in Reviewers, ReviewApprove(x) \/ ReviewReject(x)
  PROVE  Queue!QNext \/ UNCHANGED Queue!qvars
<1> DEFINE i == review[x]
           a == [row[i] EXCEPT !.approved = TRUE, !.status = "pending",
                               !.retry = 0, !.claimAge = Null]
           d == [row[i] EXCEPT !.status = "deleted", !.retry = 0, !.age = 0,
                               !.claimAge = Null]
<1>1. /\ i \in Ids /\ row[i].status # "none" /\ row[i].kind = "session_mined_candidate"
      /\ row \in [Ids -> Row]
  BY DEF ReviewApprove, ReviewReject, IInv, TypeOK, GoodReview
<1>2. /\ received' = received
      /\ \/ row' = row /\ rejected' = rejected
         \/ Exists(i) /\ row' = [row EXCEPT ![i] = a] /\ rejected' = rejected
         \/ /\ row' = [row EXCEPT ![i] = d]
            /\ rejected' = IF Exists(i) THEN rejected \cup {i} ELSE rejected
  BY <1>1 DEF ReviewApprove, ReviewReject, Without, farVars
<1>3. a.status = "pending" /\ a.approved = TRUE /\ a.kind = row[i].kind
  BY <1>1 DEF Row
<1>4. d.status = "deleted" /\ d.approved = row[i].approved /\ d.kind = row[i].kind
  BY <1>1 DEF Row
<1> HIDE DEF a, d, i
<1>5. CASE row' = row /\ rejected' = rejected
  BY <1>2, <1>5, TaskStepStutters
<1>6. Exists(i) => itemState[i] \in {"queued", "dead"}
  BY <1>1 DEF Exists, Row, itemState, ItemState
<1>7. CASE Exists(i) /\ row' = [row EXCEPT ![i] = a] /\ rejected' = rejected
  <2>1. /\ itemState' = [itemState EXCEPT ![i] = "queued"]
        /\ itemGate' = [itemGate EXCEPT ![i] = "open"]
        /\ retiredItems' = retiredItems
    BY <1>1, <1>3, <1>7, MapRow DEF ItemState, GateState
  <2>2. QED
    BY <1>1, <1>2, <1>6, <1>7, <2>1 DEF Queue!QNext, Queue!Open
<1>8. CASE /\ row' = [row EXCEPT ![i] = d]
           /\ rejected' = IF Exists(i) THEN rejected \cup {i} ELSE rejected
  <2>1. /\ itemState' = [itemState EXCEPT ![i] = "gone"]
        /\ itemGate' = itemGate /\ retiredItems' = retiredItems
    BY <1>1, <1>4, <1>8, MapStatus DEF ItemState
  <2>2. CASE Exists(i)
    BY <1>1, <1>2, <1>6, <1>8, <2>1, <2>2 DEF Queue!QNext, Queue!Cancel
  <2>3. CASE ~Exists(i)
    <3>1. itemState[i] = "gone" /\ DOMAIN itemState = Ids
      BY <1>1, <2>3 DEF Exists, itemState, ItemState
    <3>2. itemState' = itemState
      BY <2>1, <3>1 DEF itemState
    <3>3. QED
      BY <1>2, <1>8, <2>1, <2>3, <3>2 DEF Queue!qvars
  <2>4. QED
    BY <2>2, <2>3
<1>9. QED
  BY <1>2, <1>5, <1>7, <1>8

\* The initial state is the empty queue.
LEMMA InitRefines == Init => Queue!QInit
<1> SUFFICES ASSUME Init PROVE Queue!QInit
  OBVIOUS
<1>1. \A i \in Ids : ItemState(row[i].status) = "absent" /\ GateState(row[i]) = "open"
  BY DEF Init, NoRow, ItemState, GateState
<1>2. retiredItems = {}
  BY DEF Init, NoRow, Retired, retiredItems
<1>3. QED
  BY <1>1, <1>2 DEF Init, Queue!QInit, itemState, itemGate

\* Every step of the outbox is one of the queue, or a stutter.
LEMMA NextRefines == IInv /\ [Next]_vars => [Queue!QNext]_(Queue!qvars)
<1> SUFFICES ASSUME IInv, [Next]_vars PROVE Queue!QNext \/ UNCHANGED Queue!qvars
  OBVIOUS
<1>1. ASSUME NEW i \in Ids, NEW k \in Kinds, NEW v \in Parses, Enqueue(i, k, v)
      PROVE  Queue!QNext
  BY <1>1, EnqueueRefines
<1>2. ASSUME NEW p \in Procs, NEW w \in Wants(p), StartDrain(p, w)
      PROVE  UNCHANGED Queue!qvars
  BY <1>2, TaskStepStutters DEF StartDrain, farVars
<1>3. ASSUME NEW p \in Procs, DrainStep(p)
      PROVE  Queue!QNext \/ UNCHANGED Queue!qvars
  <2>1. CASE EndClaims(p) \/ RecordReceipt(p) \/ MarkFailedRead(p)
    BY <2>1, TaskStepStutters DEF EndClaims, RecordReceipt, MarkFailedRead, farVars
  <2>2. QED
    BY <1>3, <2>1, ClaimRefines, PostRefines, ConfirmRefines, MarkFailedWriteRefines
    DEF DrainStep
<1>4. ASSUME NEW p \in Procs,
             \/ MarkFailedError(p) \/ ReceiptError(p) \/ DrainError(p) \/ Crash(p)
             \/ NewHandle(p)
      PROVE  UNCHANGED Queue!qvars
  BY <1>4, TaskStepStutters
  DEF MarkFailedError, ReceiptError, DrainError, Crash, NewHandle, farVars
<1>5. ASSUME NEW p \in Procs, DrainAbandoned(p)
      PROVE  Queue!QNext
  BY <1>5, DrainAbandonedRefines
<1>6. CASE ResetStale \/ Tick
  BY <1>6, TableStutters
<1>7. ASSUME NEW x \in Reviewers, NEW i \in Ids, ReviewFind(x, i)
      PROVE  UNCHANGED Queue!qvars
  BY <1>7, TaskStepStutters DEF ReviewFind, farVars
<1>8. ASSUME NEW x \in Reviewers, ReviewApprove(x) \/ ReviewReject(x)
      PROVE  Queue!QNext \/ UNCHANGED Queue!qvars
  BY <1>8, ReviewRefines
<1>9. CASE UNCHANGED vars
  BY <1>9, TaskStepStutters DEF vars
<1>10. QED
  BY <1>1, <1>2, <1>3, <1>4, <1>5, <1>6, <1>7, <1>8, <1>9 DEF Next

\* Whatever processes, reviewers, crashes and lost answers do, the outbox is an
\* at-least-once delivery queue behind the local review gate.
THEOREM OutboxImplementsQueue == Spec => ImplementsDeliveryQueue
<1>1. Init => Queue!QInit
  BY InitRefines
<1>2. IInv /\ [Next]_vars => [Queue!QNext]_(Queue!qvars)
  BY NextRefines
<1>3. QED
  BY <1>1, <1>2, Invariance, PTL DEF Spec, ImplementsDeliveryQueue, Queue!QSpec

=============================================================================
