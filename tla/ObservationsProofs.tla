------------------------ MODULE ObservationsProofs ------------------------
(***************************************************************************)
(* Proofs about Observations, for any number of processes and rows, any    *)
(* lease, delays, batch size and cap, and any number of crashes and of     *)
(* changes of mind of the cloud.                                           *)
(***************************************************************************)
EXTENDS Observations, TLAPS, FiniteSetTheorems, WellFoundedInduction, NaturalsInduction

-----------------------------------------------------------------------------
(* Facts about the operators of the model                                  *)

\* The setting of a behaviour is well formed.
LEMMA SettingTyped == ASSUME setting \in Settings PROVE setting \in Setting
BY ObservationsAssumption

\* The ids are finitely many, so that the rows of a table can be counted.
LEMMA SubsetsCounted ==
  ASSUME NEW S \in SUBSET Ids
  PROVE  IsFiniteSet(S) /\ Cardinality(S) \in Nat
<1>1. IsFiniteSet(Ids)
  BY FS_Interval, ObservationsAssumption DEF Ids
<1>2. IsFiniteSet(S)
  BY <1>1, FS_Subset
<1>3. QED
  BY <1>2, FS_CardinalityType

\* A flush that goes on is still a flush.
LEMMA OnwardTyped == ASSUME NEW f \in Flush PROVE Onward(f) \in Flush
BY DEF Onward, Flush, Idle, Capping, Classes

\* A failure leaves a row.
LEMMA FailedTyped ==
  ASSUME NEW r \in Row, NEW c \in Classes, NEW aged \in BOOLEAN, NEW d \in Nat, now \in Nat
  PROVE  Failed(r, c, aged, d) \in Row
<1> DEFINE w == [r EXCEPT !.status = "pending", !.next = now + d]
<1>1. [r EXCEPT !.status = "parked"] \in Row /\ [r EXCEPT !.status = "abandoned"] \in Row
  BY DEF Row
<1>2. now + d \in Nat
  OBVIOUS
<1>3. w \in Row
  BY <1>2 DEF Row
<1> HIDE DEF w
<1>4. Failed(r, c, aged, d) \in {[r EXCEPT !.status = "parked"], [r EXCEPT !.status = "abandoned"], w}
  BY DEF Failed, w
<1>5. QED
  BY <1>1, <1>3, <1>4

\* The classes of the cloud's failures.
LEMMA ClassifyTyped == ASSUME NEW a PROVE Classify(a) \in Classes
BY DEF Classify, Classes

\* A process that does nothing, and one about to trim, are of the type of a flush.
LEMMA IdleTyped == Idle \in Flush /\ Capping \in Flush
BY DEF Idle, Capping, Flush, Classes

-----------------------------------------------------------------------------
(* Types                                                                   *)

\* The types hold at the start.
LEMMA InitTyped == Init => TypeOK
<1> SUFFICES ASSUME Init PROVE TypeOK
  OBVIOUS
<1>1. setting \in Setting
  BY SettingTyped DEF Init
<1>2. NoRow \in Row
  BY DEF NoRow, Row
<1>3. drift \in BOOLEAN
  BY Zenon DEF Init
<1>4. claimer \in [Ids -> SUBSET Procs] /\ row \in [Ids -> Row] /\ flush \in [AllProcs -> Flush]
  BY <1>2, IdleTyped DEF Init
<1>5. 0 \in 0..setting.maxDrifts /\ 0 \in 0..setting.maxFaults
  BY <1>1 DEF Setting
<1>6. QED
  BY <1>3, <1>4, <1>5 DEF Init, TypeOK

\* Each step keeps the types, one step of the proof per action.
LEMMA NextTyped == TypeOK /\ [Next]_vars => TypeOK'
<1> SUFFICES ASSUME TypeOK, [Next]_vars PROVE TypeOK'
  OBVIOUS
<1>s. setting \in Setting
  BY SettingTyped DEF TypeOK
<1>d. Delays \subseteq Nat /\ Lease \in Nat
  BY ObservationsAssumption
<1>f. flush \in [AllProcs -> Flush]
  BY DEF TypeOK
<1>1. ASSUME NEW p \in Procs, NEW i \in Ids, NEW v \in Payloads, Enqueue(p, i, v) PROVE TypeOK'
  BY <1>1, <1>s, IdleTyped DEF TypeOK, Enqueue, envVars, Procs, Payloads, Setting, Row
<1>2. ASSUME NEW p \in Procs, Claim(p) PROVE TypeOK'
  <2> DEFINE S == Oldest(Claimable, BatchSize)
             garbled == {i \in S : row[i].payload = "garbled"}
             f == [Idle EXCEPT !.pc = "settle", !.lease = now + Lease,
                               !.size = Cardinality(S \ garbled),
                               !.left = S \ garbled, !.fail = garbled, !.class = "invalid"]
  <2>1. S \subseteq Ids
    BY DEF Oldest, Claimable, WithStatus
  <2>2. Cardinality(S \ garbled) \in Nat
    BY <2>1, SubsetsCounted
  <2>3. now + Lease \in Nat
    BY <1>d DEF TypeOK
  <2>4. garbled \subseteq Ids /\ S \ garbled \subseteq Ids
    BY <2>1
  <2>5. f \in Flush
    BY <2>2, <2>3, <2>4 DEF Idle, Flush, Classes
  <2>6. Onward(f) \in Flush
    BY <2>5, OnwardTyped
  <2>7. row' = [i \in Ids |-> IF i \in S
                              THEN [row[i] EXCEPT !.status = "sending", !.next = now + Lease]
                              ELSE row[i]]
    BY <1>2 DEF Claim
  <2>8. row' \in [Ids -> Row]
    BY <2>3, <2>7 DEF TypeOK, Row
  <2>9. flush' = [flush EXCEPT ![p] = Onward(f)]
    BY <1>2 DEF Claim
  <2>10. claimer' = [i \in Ids |-> IF i \in S THEN {p} ELSE claimer[i]]
    BY <1>2 DEF Claim
  <2> HIDE DEF S, f
  <2>11. claimer' \in [Ids -> SUBSET Procs]
    BY <2>10 DEF TypeOK
  <2>12. QED
    BY <1>2, <2>6, <2>8, <2>9, <2>11 DEF TypeOK, Claim, envVars, Procs
<1>3. ASSUME NEW p \in Procs, PostBatch(p) PROVE TypeOK'
  <2>1. flush[p] \in Flush
    BY <1>s DEF TypeOK, Procs, Setting
  <2>2. PICK a \in Answers, taken \in BOOLEAN : flush' = [flush EXCEPT ![p] =
            CASE Delivered(a) -> [flush[p] EXCEPT !.pc = "settle", !.posted = TRUE,
                                    !.win = flush[p].left, !.left = {}, !.sent = TRUE]
              [] ~Delivered(a) /\ Classify(a) = "invalid"
                   -> [flush[p] EXCEPT !.pc = "each", !.posted = TRUE]
              [] OTHER -> [flush[p] EXCEPT !.pc = "settle", !.posted = TRUE,
                             !.fail = flush[p].left, !.left = {}, !.class = Classify(a)]]
    BY <1>3 DEF PostBatch
  <2>3. Classify(a) \in Classes
    BY ClassifyTyped
  <2>4. flush' \in [AllProcs -> Flush]
    BY <2>1, <2>2, <2>3 DEF TypeOK, Flush
  <2>5. received' \subseteq Ids
    BY <1>3, <2>1 DEF PostBatch, TypeOK, Flush
  <2>6. QED
    BY <1>3, <2>4, <2>5 DEF TypeOK, PostBatch, envVars, Procs
<1>4. ASSUME NEW p \in Procs, NEW i \in Ids, PostEach(p, i) PROVE TypeOK'
  <2> DEFINE f == [flush[p] EXCEPT !.left = @ \ {i}]
  <2>1. f \in Flush
    BY <1>s DEF TypeOK, Flush, Procs, Setting
  <2>2. Onward([f EXCEPT !.pc = "settle", !.doubt = @ \cup {i}]) \in Flush
    <3>1. [f EXCEPT !.pc = "settle", !.doubt = @ \cup {i}] \in Flush
      BY <2>1 DEF Flush
    <3>2. QED
      BY <3>1, OnwardTyped
  <2>3. PICK a \in Answers, taken \in BOOLEAN : flush' = [flush EXCEPT ![p] =
            CASE Delivered(a) ->
                   [f EXCEPT !.pc = "settle", !.win = {i}, !.sent = TRUE,
                             !.fail = f.doubt, !.doubt = {}, !.class = "invalid"]
              [] ~Delivered(a) /\ Classify(a) = "invalid" ->
                   IF Proven(f)
                   THEN [f EXCEPT !.pc = "settle", !.fail = {i}, !.class = "invalid"]
                   ELSE Onward([f EXCEPT !.pc = "settle", !.doubt = @ \cup {i}])
              [] OTHER ->
                   [f EXCEPT !.pc = "settle", !.fail = f.doubt \cup flush[p].left,
                             !.left = {}, !.doubt = {}, !.class = Classify(a)]]
    BY <1>4 DEF PostEach
  <2>4. Classify(a) \in Classes
    BY ClassifyTyped
  <2>5. flush[p] \in Flush
    BY <1>s DEF TypeOK, Procs, Setting
  <2>6. received' \subseteq Ids
    BY <1>4 DEF PostEach, TypeOK
  <2> HIDE DEF f
  <2>7. /\ [f EXCEPT !.pc = "settle", !.win = {i}, !.sent = TRUE, !.fail = f.doubt,
                     !.doubt = {}, !.class = "invalid"] \in Flush
        /\ [f EXCEPT !.pc = "settle", !.fail = {i}, !.class = "invalid"] \in Flush
    BY <2>1 DEF Flush, Classes
  <2>8. [f EXCEPT !.pc = "settle", !.fail = f.doubt \cup flush[p].left,
                  !.left = {}, !.doubt = {}, !.class = Classify(a)] \in Flush
    BY <2>1, <2>4, <2>5 DEF Flush
  <2>9. flush' \in [AllProcs -> Flush]
    BY <2>2, <2>3, <2>7, <2>8 DEF TypeOK
  <2>10. QED
    BY <1>4, <2>6, <2>9 DEF TypeOK, PostEach, envVars, Procs
<1>5. ASSUME NEW p \in Procs, NEW i \in Ids, MarkSent(p, i) PROVE TypeOK'
  <2>1. [flush[p] EXCEPT !.win = @ \ {i}] \in Flush
    BY <1>s DEF TypeOK, Flush, Procs, Setting
  <2>2. row' \in [Ids -> Row]
    BY <1>5 DEF MarkSent, TypeOK, Row
  <2>3. QED
    <3> DEFINE g == Onward([flush[p] EXCEPT !.win = @ \ {i}])
    <3>1. g \in Flush
      BY <2>1, OnwardTyped
    <3>0. flush' = [flush EXCEPT ![p] = g]
      BY <1>5 DEF MarkSent
    <3> HIDE DEF g
    <3>2. flush' \in [AllProcs -> Flush]
      BY <1>f, <3>0, <3>1
    <3>3. QED
      BY <1>5, <2>2, <3>2 DEF TypeOK, MarkSent, envVars, Procs
<1>6. ASSUME NEW p \in Procs, NEW i \in Ids, MarkFailed(p, i) PROVE TypeOK'
  <2>1. [flush[p] EXCEPT !.fail = @ \ {i}] \in Flush /\ flush[p].class \in Classes
    BY <1>s DEF TypeOK, Flush, Procs, Setting
  <2>2. AgedOut(i) \in BOOLEAN
    BY DEF AgedOut
  <2>3. row' \in [Ids -> Row]
    BY <1>6, <1>d, <2>1, <2>2, FailedTyped DEF MarkFailed, TypeOK
  <2>4. QED
    <3> DEFINE g == Onward([flush[p] EXCEPT !.fail = @ \ {i}])
    <3>1. g \in Flush
      BY <2>1, OnwardTyped
    <3>0. flush' = [flush EXCEPT ![p] = g]
      BY <1>6 DEF MarkFailed
    <3> HIDE DEF g
    <3>2. flush' \in [AllProcs -> Flush]
      BY <1>f, <3>0, <3>1
    <3>3. QED
      BY <1>6, <2>3, <3>2 DEF TypeOK, MarkFailed, envVars, Procs
<1>7. ASSUME NEW p \in Procs, Unpark(p) PROVE TypeOK'
  BY <1>7, IdleTyped DEF TypeOK, Unpark, envVars, Procs, Row
<1>8. ASSUME NEW p \in Procs, CapCount(p) PROVE TypeOK'
  <2>1. Table \in SUBSET Ids /\ Cap \in Nat
    BY <1>s DEF Table, Cap, Setting
  <2>2. Overflow \in Int
    BY <2>1, SubsetsCounted DEF Overflow
  <2>3. flush[p] \in Flush
    BY <1>s DEF TypeOK, Procs, Setting
  <2>4. /\ Overflow > 0 => [flush[p] EXCEPT !.pc = "capdelete", !.over = Overflow] \in Flush
        /\ [flush[p] EXCEPT !.level = "any"] \in Flush
    <3>1. ASSUME NEW n \in Nat PROVE [flush[p] EXCEPT !.pc = "capdelete", !.over = n] \in Flush
      BY <2>3 DEF Flush
    <3>2. Overflow > 0 => Overflow \in Nat
      BY <2>2
    <3>3. [flush[p] EXCEPT !.level = "any"] \in Flush
      BY <2>3 DEF Flush
    <3>4. QED
      BY <3>1, <3>2, <3>3
  <2>5. flush' \in [AllProcs -> Flush]
    BY <1>8, <1>f, <2>4, IdleTyped DEF CapCount
  <2>6. QED
    BY <1>8, <2>5 DEF TypeOK, CapCount, envVars, Procs
<1>9. ASSUME NEW p \in Procs, CapDelete(p) PROVE TypeOK'
  <2>1. row' \in [Ids -> Row]
    <3>1. PICK D \in Trims(flush[p].level, flush[p].over) :
            row' = [i \in Ids |-> IF i \in D THEN Gone(row[i]) ELSE row[i]]
      BY <1>9 DEF CapDelete
    <3>2. QED
      BY <3>1 DEF TypeOK, Row, Gone
  <2>2. [Capping EXCEPT !.level = NextLevel(flush[p].level)] \in Flush
    BY IdleTyped DEF Flush, NextLevel
  <2>3. flush' \in [AllProcs -> Flush]
    BY <1>9, <1>f, <2>2, IdleTyped DEF CapDelete
  <2>4. QED
    BY <1>9, <2>1, <2>3 DEF TypeOK, CapDelete, envVars, Procs
<1>10. ASSUME NEW p \in Procs, Abort(p) \/ UnparkError(p) PROVE TypeOK'
  BY <1>10, <1>s, IdleTyped DEF TypeOK, Abort, UnparkError, Fault, envVars, Procs, Setting
<1>11. CASE RetryNow
  BY <1>11 DEF RetryNow, TypeOK, envVars, Row, Procs
<1>12. CASE DrainAbandoned
  BY <1>12 DEF DrainAbandoned, TypeOK, envVars, Row, Procs
<1>13. CASE Drift
  <2>1. flush' \in [AllProcs -> Flush]
    <3>1. ASSUME NEW g \in Flush, NEW b \in BOOLEAN PROVE [g EXCEPT !.steady = b] \in Flush
      BY DEF Flush
    <3>2. ASSUME NEW q \in AllProcs
          PROVE  [flush[q] EXCEPT !.steady = (flush[q].pc = "idle")] \in Flush
      <4>1. (flush[q].pc = "idle") \in BOOLEAN
        OBVIOUS
      <4>2. QED
        BY <1>f, <3>1, <4>1
    <3>3. QED
      BY <1>13, <3>2, Zenon DEF Drift
  <2>2. drift' \in BOOLEAN
    BY <1>13, Zenon DEF Drift
  <2>3. drifts' \in 0..setting.maxDrifts
    BY <1>13, <1>s DEF Drift, TypeOK, Setting
  <2>4. QED
    BY <1>13, <2>1, <2>2, <2>3 DEF Drift, TypeOK, Procs
<1>14. CASE Tick
  BY <1>14 DEF Tick, TypeOK, Procs
<1>15. CASE UNCHANGED vars
  BY <1>15 DEF vars, TypeOK, Procs
<1>16. QED
  BY <1>1, <1>2, <1>3, <1>4, <1>5, <1>6, <1>7, <1>8, <1>9, <1>10, <1>11, <1>12, <1>13,
     <1>14, <1>15 DEF Next

\* Every variable of the queue keeps its type.
THEOREM ObservationsTyped == Spec => []TypeOK
<1>1. QED
  BY InitTyped, NextTyped, PTL DEF Spec
-----------------------------------------------------------------------------
(* What a step does to the flush of a process                              *)

\* The setting never changes, and the cloud changes its mind by itself.
LEMMA EnvSteps == ASSUME [Next]_vars PROVE setting' = setting /\ (drift' = drift \/ Drift)
<1> USE DEF envVars
<1>1. ASSUME NEW p \in Procs, NEW i \in Ids, NEW v \in Payloads, Enqueue(p, i, v)
      PROVE  setting' = setting /\ drift' = drift
  BY <1>1 DEF Enqueue
<1>2. ASSUME NEW p \in Procs, Claim(p) \/ PostBatch(p) PROVE setting' = setting /\ drift' = drift
  BY <1>2 DEF Claim, PostBatch
<1>3. ASSUME NEW p \in Procs, NEW i \in Ids, PostEach(p, i) \/ MarkSent(p, i) \/ MarkFailed(p, i)
      PROVE  setting' = setting /\ drift' = drift
  BY <1>3 DEF PostEach, MarkSent, MarkFailed
<1>4. ASSUME NEW p \in Procs,
             Unpark(p) \/ CapCount(p) \/ CapDelete(p) \/ Abort(p) \/ UnparkError(p)
      PROVE  setting' = setting /\ drift' = drift
  BY <1>4 DEF Unpark, CapCount, CapDelete, Abort, UnparkError
<1>5. ASSUME RetryNow \/ DrainAbandoned \/ Tick \/ UNCHANGED vars
      PROVE  setting' = setting /\ drift' = drift
  BY <1>5 DEF RetryNow, DrainAbandoned, Tick, vars
<1>6. ASSUME Drift PROVE setting' = setting
  BY <1>6 DEF Drift
<1>7. QED
  BY <1>1, <1>2, <1>3, <1>4, <1>5, <1>6 DEF Next

\* The rows a flush may still have to mark as failed.
Owned(f) == f.left \cup f.doubt \cup f.fail

\* A row is in at most one of the three, so that it is marked once.
Apart(f) ==
  f.left \cap f.doubt = {} /\ f.left \cap f.fail = {} /\ f.doubt \cap f.fail = {}

\* g is f with the rows in the same places or, once the others are marked, with
\* the doubtful ones failed as transient; or g has no rows left.
Regrouped(f, g) ==
  \/ g \in {Idle, Capping}
  \/ /\ g.win = f.win /\ g.left = f.left /\ g.lease = f.lease /\ g.size = f.size
     /\ g.sent = f.sent /\ g.steady = f.steady /\ (g.pc = "idle" => f.pc = "idle")
     /\ \/ g.doubt = f.doubt /\ g.fail = f.fail /\ g.class = f.class
        \/ f.fail = {} /\ g.doubt = {} /\ g.fail = f.doubt /\ g.class = "transient"

\* g has no row that f does not have, under the same lease.
Lesser(f, g) ==
  /\ Apart(f) => Apart(g)
  /\ Owned(g) \subseteq Owned(f)
  /\ Owned(g) = {} \/ g.lease = f.lease

\* The loop of flush_to_cloud between two writes only regroups the rows.
LEMMA OnwardRegroups == ASSUME NEW f \in Flush PROVE Regrouped(f, Onward(f))
BY DEF Onward, Regrouped, Flush

\* An idle process and one that trims the queue hold no rows.
LEMMA NoneOwned ==
  ASSUME NEW g \in {Idle, Capping}
  PROVE  g.left = {} /\ g.doubt = {} /\ g.fail = {} /\ g.win = {} /\ ~g.sent
BY DEF Idle, Capping

\* So do the levels of cap_queue.
LEMMA CappingOwnsNone ==
  ASSUME NEW l
  PROVE  LET g == [Capping EXCEPT !.level = l]
         IN g.left = {} /\ g.doubt = {} /\ g.fail = {} /\ g.win = {} /\ ~g.sent
BY DEF Idle, Capping

\* Regrouping loses rows at most.
LEMMA RegroupedLesser ==
  ASSUME NEW f \in Flush, NEW g \in Flush, Regrouped(f, g)
  PROVE  Lesser(f, g)
<1>1. CASE g \in {Idle, Capping}
  BY <1>1, NoneOwned DEF Lesser, Apart, Owned
<1>2. CASE g \notin {Idle, Capping}
  BY <1>2 DEF Regrouped, Lesser, Apart, Owned
<1>3. QED
  BY <1>1, <1>2

\* The flush of a process of the setting.
LEMMA FlushTyped ==
  ASSUME TypeOK
  PROVE  /\ Procs \subseteq AllProcs
         /\ \A p \in Procs : flush[p] \in Flush
BY SettingTyped DEF TypeOK, Procs, Setting

\* What the answer to the batch makes of a flush.
BatchAnswered(f, a) ==
  CASE Delivered(a) -> [f EXCEPT !.pc = "settle", !.posted = TRUE, !.win = f.left,
                                 !.left = {}, !.sent = TRUE]
    [] ~Delivered(a) /\ Classify(a) = "invalid" -> [f EXCEPT !.pc = "each", !.posted = TRUE]
    [] OTHER -> [f EXCEPT !.pc = "settle", !.posted = TRUE, !.fail = f.left,
                          !.left = {}, !.class = Classify(a)]

\* PostBatch in terms of it.
LEMMA PostBatchStep ==
  ASSUME TypeOK, NEW p \in Procs, PostBatch(p)
  PROVE  \E a \in Answers, taken \in BOOLEAN :
           /\ Possible(flush[p].left, a)
           /\ a = "ok" => taken
           /\ received' = IF taken THEN received \cup flush[p].left ELSE received
           /\ flush' = [flush EXCEPT ![p] = BatchAnswered(flush[p], a)]
BY DEF PostBatch, BatchAnswered

\* What the answer to the request for row i alone makes of it.
EachAnswered(f, i, a) ==
  LET g == [f EXCEPT !.left = @ \ {i}] IN
  CASE Delivered(a) ->
         [g EXCEPT !.pc = "settle", !.win = {i}, !.sent = TRUE,
                   !.fail = g.doubt, !.doubt = {}, !.class = "invalid"]
    [] ~Delivered(a) /\ Classify(a) = "invalid" ->
         IF Proven(g)
         THEN [g EXCEPT !.pc = "settle", !.fail = {i}, !.class = "invalid"]
         ELSE Onward([g EXCEPT !.pc = "settle", !.doubt = @ \cup {i}])
    [] OTHER ->
         [g EXCEPT !.pc = "settle", !.fail = g.doubt \cup f.left,
                   !.left = {}, !.doubt = {}, !.class = Classify(a)]

\* PostEach in terms of it.
LEMMA PostEachStep ==
  ASSUME TypeOK, NEW p \in Procs, NEW i \in Ids, PostEach(p, i)
  PROVE  \E a \in Answers, taken \in BOOLEAN :
           /\ Possible({i}, a)
           /\ a = "ok" => taken
           /\ received' = IF taken THEN received \cup {i} ELSE received
           /\ flush' = [flush EXCEPT ![p] = EachAnswered(flush[p], i, a)]
BY DEF PostEach, EachAnswered

\* The locals of a flush after the answer to the batch.
LEMMA BatchCases ==
  ASSUME NEW f \in Flush, NEW a
  PROVE  LET g == BatchAnswered(f, a) IN
         /\ g.doubt = f.doubt /\ g.size = f.size /\ g.steady = f.steady /\ g.pc # "idle"
         /\ \/ a = "ok" /\ g.win = f.left /\ g.sent /\ g.fail = f.fail /\ g.class = f.class
            \/ /\ a = "422" /\ g.win = f.win /\ g.sent = f.sent /\ g.fail = f.fail
               /\ g.class = f.class
            \/ /\ a \notin {"ok", "422"} /\ g.win = f.win /\ g.sent = f.sent
               /\ g.class # "invalid"
<1> DEFINE g == BatchAnswered(f, a)
<1>1. CASE a = "ok"
  <2>1. g = [f EXCEPT !.pc = "settle", !.posted = TRUE, !.win = f.left, !.left = {}, !.sent = TRUE]
    BY <1>1 DEF BatchAnswered, Delivered
  <2> HIDE DEF g
  <2>2. g.pc # "idle" /\ g.doubt = f.doubt /\ g.size = f.size /\ g.steady = f.steady
        /\ g.win = f.left /\ g.sent /\ g.fail = f.fail /\ g.class = f.class
    BY <2>1 DEF Flush
  <2>3. QED
    BY <1>1, <2>2 DEF g
<1>2. CASE a = "422"
  <2>0. ~Delivered(a) /\ Classify(a) = "invalid"
    BY <1>2 DEF Delivered, Classify
  <2>1. g = [f EXCEPT !.pc = "each", !.posted = TRUE]
    BY <2>0 DEF BatchAnswered
  <2> HIDE DEF g
  <2>2. g.pc # "idle" /\ g.doubt = f.doubt /\ g.size = f.size /\ g.steady = f.steady
        /\ g.win = f.win /\ g.sent = f.sent /\ g.fail = f.fail /\ g.class = f.class
    BY <2>1 DEF Flush
  <2>3. QED
    BY <1>2, <2>2 DEF g
<1>3. CASE a \notin {"ok", "422"}
  <2>0. ~Delivered(a) /\ Classify(a) # "invalid"
    BY <1>3 DEF Delivered, Classify
  <2>1. g = [f EXCEPT !.pc = "settle", !.posted = TRUE, !.fail = f.left,
                      !.left = {}, !.class = Classify(a)]
    BY <2>0 DEF BatchAnswered
  <2> HIDE DEF g
  <2>2. g.pc # "idle" /\ g.doubt = f.doubt /\ g.size = f.size /\ g.steady = f.steady
        /\ g.win = f.win /\ g.sent = f.sent /\ g.class = Classify(a)
    BY <2>1 DEF Flush
  <2>3. QED
    BY <1>3, <2>0, <2>2 DEF g
<1>4. QED
  BY <1>1, <1>2, <1>3

\* The locals of a flush after the answer to a single row.  A 4xx that is not
\* believed puts the row in doubt, and the flush goes on.
LEMMA EachCases ==
  ASSUME NEW f \in Flush, NEW i \in f.left, NEW a
  PROVE  LET g == EachAnswered(f, i, a) IN
         \/ /\ a = "ok" /\ g.win = {i} /\ g.sent /\ g.fail = f.doubt /\ g.doubt = {}
            /\ g.size = f.size /\ g.steady = f.steady /\ g.pc # "idle"
         \/ /\ a = "422" /\ (f.sent \/ f.size = 1) /\ g.win = f.win /\ g.sent = f.sent
            /\ g.fail = {i} /\ g.doubt = f.doubt /\ g.size = f.size /\ g.steady = f.steady
            /\ g.pc # "idle"
         \/ /\ a = "422"
            /\ \E h \in Flush :
                 /\ h.win = f.win /\ h.sent = f.sent /\ h.fail = f.fail /\ h.class = f.class
                 /\ h.doubt = f.doubt \cup {i} /\ h.size = f.size /\ h.steady = f.steady
                 /\ h.pc # "idle"
                 /\ g = Onward(h)
         \/ /\ a \notin {"ok", "422"} /\ g.win = f.win /\ g.sent = f.sent /\ g.doubt = {}
            /\ g.class # "invalid" /\ g.size = f.size /\ g.steady = f.steady /\ g.pc # "idle"
<1> DEFINE e == [f EXCEPT !.left = @ \ {i}]
           h == [e EXCEPT !.pc = "settle", !.doubt = @ \cup {i}]
           g == EachAnswered(f, i, a)
<1>0. e \in Flush /\ e.doubt = f.doubt /\ e.win = f.win /\ e.sent = f.sent /\ e.fail = f.fail
      /\ e.size = f.size /\ e.steady = f.steady /\ e.class = f.class /\ i \in Ids
  BY DEF Flush
<1> HIDE DEF e
<1>1. CASE a = "ok"
  <2>1. g = [e EXCEPT !.pc = "settle", !.win = {i}, !.sent = TRUE,
                      !.fail = e.doubt, !.doubt = {}, !.class = "invalid"]
    BY <1>1 DEF EachAnswered, Delivered, e
  <2> HIDE DEF g
  <2>2. g.pc # "idle" /\ g.win = {i} /\ g.sent /\ g.fail = e.doubt /\ g.doubt = {} /\ g.size = e.size
        /\ g.steady = e.steady
    BY <1>0, <2>1 DEF Flush
  <2>3. QED
    BY <1>0, <1>1, <2>2 DEF g
<1>2. CASE a = "422" /\ Proven(e)
  <2>0. ~Delivered(a) /\ Classify(a) = "invalid"
    BY <1>2 DEF Delivered, Classify
  <2>1. g = [e EXCEPT !.pc = "settle", !.fail = {i}, !.class = "invalid"]
    BY <1>2, <2>0 DEF EachAnswered, e
  <2> HIDE DEF g
  <2>2. g.pc # "idle" /\ g.win = e.win /\ g.sent = e.sent /\ g.fail = {i} /\ g.doubt = e.doubt
        /\ g.size = e.size /\ g.steady = e.steady
    BY <1>0, <2>1 DEF Flush
  <2>3. f.sent \/ f.size = 1
    BY <1>0, <1>2 DEF Proven
  <2>4. QED
    BY <1>0, <1>2, <2>2, <2>3 DEF g
<1>3. CASE a = "422" /\ ~Proven(e)
  <2>0. ~Delivered(a) /\ Classify(a) = "invalid"
    BY <1>3 DEF Delivered, Classify
  <2>1. g = Onward(h)
    BY <1>3, <2>0 DEF EachAnswered, e
  <2>2. h \in Flush /\ h.pc # "idle" /\ h.win = e.win /\ h.sent = e.sent /\ h.fail = e.fail /\ h.class = e.class
        /\ h.doubt = e.doubt \cup {i} /\ h.size = e.size /\ h.steady = e.steady
    BY <1>0 DEF Flush
  <2> HIDE DEF g, h
  <2>3. QED
    BY <1>0, <1>3, <2>1, <2>2 DEF g
<1>4. CASE a \notin {"ok", "422"}
  <2>0. ~Delivered(a) /\ Classify(a) # "invalid"
    BY <1>4 DEF Delivered, Classify
  <2>1. g = [e EXCEPT !.pc = "settle", !.fail = e.doubt \cup f.left,
                      !.left = {}, !.doubt = {}, !.class = Classify(a)]
    BY <2>0 DEF EachAnswered, e
  <2> HIDE DEF g
  <2>2. g.pc # "idle" /\ g.win = e.win /\ g.sent = e.sent /\ g.doubt = {} /\ g.class = Classify(a)
        /\ g.size = e.size /\ g.steady = e.steady
    BY <1>0, <2>1 DEF Flush
  <2>3. QED
    BY <1>0, <1>4, <2>0, <2>2 DEF g
<1>5. QED
  BY <1>1, <1>2, <1>3, <1>4

\* An answer to the batch, and one to a single row, only moves the rows.
LEMMA BatchAnsweredLesser ==
  ASSUME NEW f \in Flush, NEW a PROVE Lesser(f, BatchAnswered(f, a))
BY DEF BatchAnswered, Lesser, Apart, Owned, Flush

\* An answer to one isolated row moves that row out of the queue of the isolation only.
LEMMA EachAnsweredLesser ==
  ASSUME NEW f \in Flush, NEW i \in f.left, NEW a PROVE Lesser(f, EachAnswered(f, i, a))
<1> DEFINE g == [f EXCEPT !.left = @ \ {i}]
           h == [g EXCEPT !.pc = "settle", !.doubt = @ \cup {i}]
<1>1. g \in Flush /\ Owned(g) \subseteq Owned(f) /\ g.lease = f.lease
  BY DEF Flush, Owned
<1>2. h \in Flush /\ Lesser(f, h)
  BY DEF Lesser, Apart, Owned, Flush
<1>3. Onward(h) \in Flush /\ Lesser(h, Onward(h))
  BY <1>2, OnwardTyped, OnwardRegroups, RegroupedLesser
<1>4. Lesser(f, Onward(h))
  BY <1>2, <1>3 DEF Lesser
<1>5. Lesser(f, [g EXCEPT !.pc = "settle", !.win = {i}, !.sent = TRUE,
                          !.fail = g.doubt, !.doubt = {}, !.class = "invalid"])
  BY DEF Lesser, Apart, Owned, Flush
<1>6. Lesser(f, [g EXCEPT !.pc = "settle", !.fail = {i}, !.class = "invalid"])
  BY DEF Lesser, Apart, Owned, Flush
<1>7. Lesser(f, [g EXCEPT !.pc = "settle", !.fail = g.doubt \cup f.left,
                          !.left = {}, !.doubt = {}, !.class = Classify(a)])
  BY DEF Lesser, Apart, Owned, Flush
<1>8. EachAnswered(f, i, a) \in
        {Onward(h),
         [g EXCEPT !.pc = "settle", !.win = {i}, !.sent = TRUE,
                   !.fail = g.doubt, !.doubt = {}, !.class = "invalid"],
         [g EXCEPT !.pc = "settle", !.fail = {i}, !.class = "invalid"],
         [g EXCEPT !.pc = "settle", !.fail = g.doubt \cup f.left,
                   !.left = {}, !.doubt = {}, !.class = Classify(a)]}
  BY DEF EachAnswered
<1> HIDE DEF g, h
<1>9. QED
  BY <1>4, <1>5, <1>6, <1>7, <1>8

\* Whatever step is taken, every flush but the one that claims loses rows at
\* most, and keeps its lease.
LEMMA FlushesLoseRows ==
  ASSUME TypeOK, [Next]_vars, NEW q \in Procs, ~Claim(q)
  PROVE  Lesser(flush[q], flush'[q])
<1> USE FlushTyped
<1>i. Lesser(flush[q], Idle) /\ Lesser(flush[q], Capping)
  BY NoneOwned DEF Lesser, Apart, Owned
<1>f. flush \in [AllProcs -> Flush] /\ q \in AllProcs /\ flush[q] \in Flush
  BY DEF TypeOK
<1>s. Lesser(flush[q], flush[q])
  BY DEF Lesser
<1>1. ASSUME NEW p \in Procs, Claim(p) \/ Unpark(p) \/ Abort(p) \/ UnparkError(p)
      PROVE Lesser(flush[q], flush'[q])
  <2>1. CASE p = q
    BY <1>1, <1>f, <1>i, <2>1 DEF Unpark, Abort, UnparkError
  <2>2. CASE p # q
    BY <1>1, <1>f, <1>s, <2>2 DEF Claim, Unpark, Abort, UnparkError
  <2>3. QED
    BY <2>1, <2>2
<1>2. ASSUME NEW p \in Procs, NEW i \in Ids, NEW v \in Payloads, Enqueue(p, i, v)
      PROVE Lesser(flush[q], flush'[q])
  BY <1>2, <1>f, <1>i, <1>s DEF Enqueue
<1>3. ASSUME NEW p \in Procs, PostBatch(p) PROVE Lesser(flush[q], flush'[q])
  <2>1. PICK a \in Answers : flush' = [flush EXCEPT ![p] = BatchAnswered(flush[p], a)]
    BY <1>3, PostBatchStep
  <2>2. QED
    BY <1>f, <1>s, <2>1, BatchAnsweredLesser
<1>4. ASSUME NEW p \in Procs, NEW i \in Ids, PostEach(p, i) PROVE Lesser(flush[q], flush'[q])
  <2>1. PICK a \in Answers : flush' = [flush EXCEPT ![p] = EachAnswered(flush[p], i, a)]
    BY <1>4, PostEachStep
  <2>2. i \in flush[p].left
    BY <1>4 DEF PostEach
  <2>3. QED
    BY <1>f, <1>s, <2>1, <2>2, EachAnsweredLesser
<1>5. ASSUME NEW p \in Procs, NEW i \in Ids, MarkSent(p, i) PROVE Lesser(flush[q], flush'[q])
  <2> DEFINE h == [flush[p] EXCEPT !.win = @ \ {i}]
  <2>1. flush' = [flush EXCEPT ![p] = Onward(h)]
    BY <1>5 DEF MarkSent
  <2>2. h \in Flush /\ Lesser(flush[p], h)
    BY DEF Lesser, Apart, Owned, Flush
  <2>3. Onward(h) \in Flush /\ Lesser(h, Onward(h))
    BY <2>2, OnwardTyped, OnwardRegroups, RegroupedLesser
  <2>4. Lesser(flush[p], Onward(h))
    BY <2>2, <2>3 DEF Lesser
  <2> HIDE DEF h
  <2>5. QED
    BY <1>f, <1>s, <2>1, <2>4
<1>6. ASSUME NEW p \in Procs, NEW i \in Ids, MarkFailed(p, i) PROVE Lesser(flush[q], flush'[q])
  <2> DEFINE h == [flush[p] EXCEPT !.fail = @ \ {i}]
  <2>1. flush' = [flush EXCEPT ![p] = Onward(h)]
    BY <1>6 DEF MarkFailed
  <2>2. h \in Flush /\ Lesser(flush[p], h)
    BY DEF Lesser, Apart, Owned, Flush
  <2>3. Onward(h) \in Flush /\ Lesser(h, Onward(h))
    BY <2>2, OnwardTyped, OnwardRegroups, RegroupedLesser
  <2>4. Lesser(flush[p], Onward(h))
    BY <2>2, <2>3 DEF Lesser
  <2> HIDE DEF h
  <2>5. QED
    BY <1>f, <1>s, <2>1, <2>4
<1>7. ASSUME NEW p \in Procs, CapCount(p) PROVE Lesser(flush[q], flush'[q])
  <2>1. \A n : Lesser(flush[q], [flush[q] EXCEPT !.pc = "capdelete", !.over = n])
    BY <1>f DEF Lesser, Apart, Owned, Flush
  <2>2. Lesser(flush[q], [flush[q] EXCEPT !.level = "any"])
    BY <1>f DEF Lesser, Apart, Owned, Flush
  <2>3. QED
    BY <1>7, <1>f, <1>i, <1>s, <2>1, <2>2 DEF CapCount
<1>8. ASSUME NEW p \in Procs, CapDelete(p) PROVE Lesser(flush[q], flush'[q])
  <2>1. \A l : Lesser(flush[q], [Capping EXCEPT !.level = l])
    BY CappingOwnsNone DEF Lesser, Apart, Owned
  <2>2. QED
    BY <1>8, <1>f, <1>i, <1>s, <2>1 DEF CapDelete
<1>9. CASE Drift
  <2>1. \A b : Lesser(flush[q], [flush[q] EXCEPT !.steady = b])
    BY <1>f DEF Lesser, Apart, Owned, Flush
  <2>2. flush'[q] = [flush[q] EXCEPT !.steady = (flush[q].pc = "idle")]
    BY <1>9, <1>f, Zenon DEF Drift
  <2>3. QED
    BY <2>1, <2>2
<1>10. CASE RetryNow \/ DrainAbandoned \/ Tick \/ UNCHANGED vars
  BY <1>10, <1>s DEF RetryNow, DrainAbandoned, Tick, vars
<1>11. QED
  BY <1>1, <1>2, <1>3, <1>4, <1>5, <1>6, <1>7, <1>8, <1>9, <1>10 DEF Next

-----------------------------------------------------------------------------
(* The lease of a claim.  A row is claimed again only when its lease is    *)
(* over, and then under a later one: as long as a flush finds its lease on *)
(* a row, nobody has claimed the row since.                                *)

\* What holds of a row that p claimed and has not marked yet.
Leased(p, f, r, c, t) ==
  /\ r.status # "none"
  /\ r.status = "sending" /\ r.next = f.lease => c = {p}
  /\ f.lease > t => \/ r.status \in {"sent", "deleted"}
                    \/ r.status = "sending" /\ r.next = f.lease

LeaseInv ==
  \A p \in Procs :
    /\ Apart(flush[p])
    /\ \A i \in Owned(flush[p]) : Leased(p, flush[p], row[i], claimer[i], now)

\* A flush works on rows of the table.
LEMMA OwnedAreRows == ASSUME NEW f \in Flush PROVE Owned(f) \subseteq Ids
BY DEF Flush, Owned

\* What a step other than a claim or a fenced write may do to a row.
Gentle(r, s) ==
  \/ s = r
  \/ s.status \in {"sent", "deleted"}
  \/ r.status \notin {"sending", "sent", "deleted"} /\ s.status = "pending"

\* Such a step takes no lease away.
LEMMA GentleKeepsLease ==
  ASSUME TypeOK, TypeOK', LeaseInv, setting' = setting, claimer' = claimer,
         now' \in {now, now + 1},
         \A i \in Ids : Gentle(row[i], row'[i]),
         \A p \in Procs : Lesser(flush[p], flush'[p])
  PROVE  LeaseInv'
<1>1. Procs' = Procs
  BY DEF Procs
<1>2. ASSUME NEW p \in Procs, NEW i \in Owned(flush'[p])
      PROVE  Leased(p, flush'[p], row'[i], claimer[i], now')
  <2>1. i \in Owned(flush[p]) /\ flush'[p].lease = flush[p].lease
    BY DEF Lesser
  <2>2. Leased(p, flush[p], row[i], claimer[i], now)
    BY <2>1 DEF LeaseInv
  <2>3. i \in Ids /\ flush[p].lease \in Nat
    BY <2>1, FlushTyped, OwnedAreRows DEF Flush
  <2>4. Gentle(row[i], row'[i]) /\ now \in Nat
    BY <2>3 DEF TypeOK
  <2>5. QED
    BY <2>1, <2>2, <2>3, <2>4 DEF Leased, Gentle
<1>3. QED
  BY <1>1, <1>2 DEF LeaseInv, Lesser

\* No flush holds a row at the start.
LEMMA InitLease == Init => LeaseInv
<1> SUFFICES ASSUME Init PROVE LeaseInv
  OBVIOUS
<1>1. TypeOK
  BY InitTyped
<1>2. \A p \in Procs : flush[p] = Idle
  BY <1>1, FlushTyped DEF Init
<1>3. QED
  BY <1>2, NoneOwned DEF LeaseInv, Apart, Owned

\* A claim takes rows whose lease is over, and grants a later one.
LEMMA ClaimKeepsLease ==
  ASSUME TypeOK, TypeOK', LeaseInv, NEW p \in Procs, Claim(p)
  PROVE  LeaseInv'
<1> DEFINE S == Oldest(Claimable, BatchSize)
           garbled == {i \in S : row[i].payload = "garbled"}
           f == [Idle EXCEPT !.pc = "settle", !.lease = now + Lease,
                             !.size = Cardinality(S \ garbled),
                             !.left = S \ garbled, !.fail = garbled, !.class = "invalid"]
<1>0. S \subseteq Ids /\ \A i \in S : row[i].status \in {"pending", "sending"} /\ row[i].next <= now
  BY DEF Oldest, Claimable, WithStatus
<1>1. /\ flush' = [flush EXCEPT ![p] = Onward(f)]
      /\ row' = [i \in Ids |-> IF i \in S
                              THEN [row[i] EXCEPT !.status = "sending", !.next = now + Lease]
                              ELSE row[i]]
      /\ claimer' = [i \in Ids |-> IF i \in S THEN {p} ELSE claimer[i]]
      /\ setting' = setting /\ now' = now
  BY DEF Claim, envVars
<1>2. now \in Nat /\ Lease \in Nat /\ Lease > 0
  BY ObservationsAssumption DEF TypeOK
<1>3. f \in Flush /\ f.lease = now + Lease /\ Owned(f) = S /\ Apart(f)
  <2>1. Cardinality(S \ garbled) \in Nat
    BY <1>0, SubsetsCounted
  <2>2. garbled \subseteq Ids /\ S \ garbled \subseteq Ids /\ now + Lease \in Nat
    BY <1>0, <1>2
  <2> HIDE DEF S
  <2>3. QED
    BY <2>1, <2>2 DEF Idle, Flush, Classes, Owned, Apart
<1> HIDE DEF S, f
<1>4. Onward(f) \in Flush /\ Lesser(f, Onward(f))
  BY <1>3, OnwardTyped, OnwardRegroups, RegroupedLesser
<1>5. Procs' = Procs /\ Procs \subseteq AllProcs /\ flush \in [AllProcs -> Flush]
  BY <1>1, FlushTyped DEF Procs, TypeOK
<1>6. flush'[p] = Onward(f) /\ \A q \in Procs : q # p => flush'[q] = flush[q]
  BY <1>1, <1>5
<1>7. ASSUME NEW i \in S
      PROVE  row'[i].status = "sending" /\ row'[i].next = now + Lease /\ claimer'[i] = {p}
  <2>1. i \in Ids /\ row[i] \in Row
    BY <1>0 DEF TypeOK
  <2>2. QED
    BY <1>1, <2>1 DEF Row
<1>8. \A i \in Ids \ S : row'[i] = row[i] /\ claimer'[i] = claimer[i]
  BY <1>1
<1>9. Apart(flush'[p])
  BY <1>3, <1>4, <1>6 DEF Lesser
<1>10. ASSUME NEW i \in Owned(flush'[p])
       PROVE  Leased(p, flush'[p], row'[i], claimer'[i], now')
  <2>1. i \in S /\ flush'[p].lease = now + Lease
    BY <1>3, <1>4, <1>6 DEF Lesser
  <2>2. QED
    BY <1>7, <2>1 DEF Leased
<1>11. ASSUME NEW q \in Procs, q # p, NEW i \in Owned(flush[q])
       PROVE  Leased(q, flush[q], row'[i], claimer'[i], now)
  <2>1. Leased(q, flush[q], row[i], claimer[i], now)
    BY DEF LeaseInv
  <2>2. flush[q].lease \in Nat /\ i \in Ids
    BY <1>5, OwnedAreRows, FlushTyped DEF Flush
  <2>3. CASE i \notin S
    BY <1>8, <2>1, <2>2, <2>3
  <2>4. CASE i \in S
    <3>1. row[i].next <= now /\ row[i].status \in {"pending", "sending"} /\ row[i].next \in Nat
      BY <1>0, <2>2, <2>4 DEF TypeOK, Row
    <3>2. flush[q].lease <= now
      BY <1>2, <2>1, <2>2, <3>1 DEF Leased
    <3>3. flush[q].lease # now + Lease /\ ~(flush[q].lease > now)
      BY <1>2, <2>2, <3>2
    <3>4. QED
      BY <1>7, <2>4, <3>3 DEF Leased
  <2>5. QED
    BY <2>3, <2>4
<1>12. QED
  BY <1>1, <1>5, <1>6, <1>9, <1>10, <1>11 DEF LeaseInv

\* A fenced write touches a row that only its writer holds, and is the last the
\* writer does to it.
LEMMA MarkFailedKeepsLease ==
  ASSUME TypeOK, TypeOK', LeaseInv, NEW p \in Procs, NEW i \in Ids, MarkFailed(p, i)
  PROVE  LeaseInv'
<1> DEFINE h == [flush[p] EXCEPT !.fail = @ \ {i}]
<1>1. flush' = [flush EXCEPT ![p] = Onward(h)] /\ i \in flush[p].fail
      /\ setting' = setting /\ now' = now /\ claimer' = claimer
  BY DEF MarkFailed, envVars
<1>2. Procs' = Procs /\ Procs \subseteq AllProcs /\ flush \in [AllProcs -> Flush] /\ now \in Nat
  BY <1>1, FlushTyped DEF Procs, TypeOK
<1>3. h \in Flush /\ Lesser(flush[p], h) /\ (Apart(flush[p]) => i \notin Owned(h))
  BY <1>1, <1>2 DEF Lesser, Apart, Owned, Flush
<1>4. Onward(h) \in Flush /\ Lesser(h, Onward(h))
  BY <1>3, OnwardTyped, OnwardRegroups, RegroupedLesser
<1>5. Lesser(flush[p], Onward(h)) /\ (Apart(flush[p]) => i \notin Owned(Onward(h)))
  BY <1>3, <1>4 DEF Lesser
<1> HIDE DEF h
<1>6. flush'[p] = Onward(h) /\ \A q \in Procs : q # p => flush'[q] = flush[q]
  BY <1>1, <1>2
<1>7. \A j \in Ids : j # i => row'[j] = row[j]
  BY DEF MarkFailed, TypeOK
<1>8. CASE ~Fence(p, i)
  <2>1. row' = row
    BY <1>8 DEF MarkFailed
  <2>2. \A q \in Procs : Lesser(flush[q], flush'[q])
    BY <1>5, <1>6 DEF Lesser
  <2>3. QED
    BY <1>1, <2>1, <2>2, GentleKeepsLease DEF Gentle
<1>9. CASE Fence(p, i)
  <2>1. i \in Owned(flush[p]) /\ Apart(flush[p])
    BY <1>1 DEF Owned, LeaseInv
  <2>2. claimer[i] = {p} /\ row[i].status = "sending"
    BY <1>9, <2>1 DEF LeaseInv, Leased, Fence
  <2>3. row'[i].status \in {"pending", "parked", "abandoned"}
    <3>1. PICK d \in Delays :
            row' = [row EXCEPT ![i] = Failed(row[i], flush[p].class, AgedOut(i), d)]
      BY <1>9 DEF MarkFailed
    <3>2. row[i] \in Row /\ row'[i] = Failed(row[i], flush[p].class, AgedOut(i), d)
      BY <3>1 DEF TypeOK
    <3>3. QED
      BY <3>2 DEF Failed, Row
  <2>4. ASSUME NEW q \in Procs, NEW j \in Owned(flush'[q])
        PROVE  Leased(q, flush'[q], row'[j], claimer[j], now)
    <3>1. Lesser(flush[q], flush'[q])
      BY <1>5, <1>6 DEF Lesser
    <3>2. j \in Owned(flush[q]) /\ flush'[q].lease = flush[q].lease
      BY <3>1 DEF Lesser
    <3>3. Leased(q, flush[q], row[j], claimer[j], now) /\ flush[q].lease \in Nat /\ j \in Ids
      BY <1>2, <3>2, OwnedAreRows, FlushTyped DEF LeaseInv, Flush
    <3>4. CASE j # i
      BY <1>7, <3>2, <3>3, <3>4 DEF Leased
    <3>5. CASE j = i
      <4>1. q # p
        BY <1>5, <1>6, <2>1, <3>5
      <4>2. claimer[i] # {q}
        BY <2>2, <4>1
      <4>3. ~(flush[q].lease > now)
        BY <2>2, <3>3, <3>5, <4>2 DEF Leased
      <4>4. QED
        BY <2>3, <3>2, <3>5, <4>3 DEF Leased
    <3>6. QED
      BY <3>4, <3>5
  <2>5. \A q \in Procs : Apart(flush'[q])
    BY <1>5, <1>6 DEF LeaseInv, Lesser
  <2>6. QED
    BY <1>1, <1>2, <2>4, <2>5 DEF LeaseInv
<1>10. QED
  BY <1>8, <1>9

\* The leases survive each step: only a claim takes rows, and only a fenced write gives one back.
LEMMA NextLease == TypeOK /\ LeaseInv /\ [Next]_vars => LeaseInv'
<1> SUFFICES ASSUME TypeOK, LeaseInv, [Next]_vars PROVE LeaseInv'
  OBVIOUS
<1>t. TypeOK'
  BY NextTyped
<1>1. ASSUME NEW p \in Procs, Claim(p) PROVE LeaseInv'
  BY <1>1, <1>t, ClaimKeepsLease
<1>2. ASSUME NEW p \in Procs, NEW i \in Ids, MarkFailed(p, i) PROVE LeaseInv'
  BY <1>2, <1>t, MarkFailedKeepsLease
<1>3. ASSUME ~\E p \in Procs : Claim(p), ~\E p \in Procs, i \in Ids : MarkFailed(p, i)
      PROVE  LeaseInv'
  <2>1. \A p \in Procs : Lesser(flush[p], flush'[p])
    BY <1>3, FlushesLoseRows
  <2>2. setting' = setting /\ claimer' = claimer /\ now' \in {now, now + 1}
    BY <1>3 DEF Next, Enqueue, PostBatch, PostEach, MarkSent, Unpark, CapCount, CapDelete,
         Abort, UnparkError, RetryNow, DrainAbandoned, Drift, Tick, envVars, vars
  <2>3. ASSUME NEW i \in Ids PROVE Gentle(row[i], row'[i])
    <3>0. row \in [Ids -> Row] /\ row[i] \in Row
      BY DEF TypeOK
    <3>1. ASSUME NEW p \in Procs, NEW j \in Ids, NEW v \in Payloads, Enqueue(p, j, v)
          PROVE  Gentle(row[i], row'[i])
      BY <3>0, <3>1 DEF Enqueue, Gentle
    <3>2. ASSUME NEW p \in Procs, NEW j \in Ids, MarkSent(p, j) PROVE Gentle(row[i], row'[i])
      BY <3>0, <3>2 DEF MarkSent, Gentle, Row
    <3>3. ASSUME NEW p \in Procs, Unpark(p) PROVE Gentle(row[i], row'[i])
      BY <3>0, <3>3 DEF Unpark, Gentle, Row, WithStatus, Oldest
    <3>4. ASSUME NEW p \in Procs, CapDelete(p) PROVE Gentle(row[i], row'[i])
      <4>1. PICK D \in Trims(flush[p].level, flush[p].over) :
              row' = [j \in Ids |-> IF j \in D
                                    THEN Gone(row[j]) ELSE row[j]]
        BY <3>4 DEF CapDelete
      <4>2. QED
        BY <3>0, <4>1 DEF Gentle, Gone, Row
    <3>5. CASE RetryNow \/ DrainAbandoned
      <4>1. \/ row'[i] = row[i]
            \/ /\ row[i].status \in {"parked", "pending", "abandoned"}
               /\ row'[i] = [row[i] EXCEPT !.status = "pending", !.next = now]
        BY <3>5 DEF RetryNow, DrainAbandoned, WithStatus
      <4>2. QED
        BY <3>0, <4>1 DEF Gentle, Row
    <3>6. CASE row' = row
      BY <3>6 DEF Gentle
    <3>7. QED
      BY <1>3, <3>1, <3>2, <3>3, <3>4, <3>5, <3>6 DEF Next, PostBatch, PostEach, CapCount,
         Abort, UnparkError, Drift, Tick, vars
  <2>4. QED
    BY <1>t, <2>1, <2>2, <2>3, GentleKeepsLease
<1>4. QED
  BY <1>1, <1>2, <1>3

\* The inductive invariant of the leases.
THEOREM LeasesHeld == Spec => [](TypeOK /\ LeaseInv)
<1>1. QED
  BY InitTyped, InitLease, NextTyped, NextLease, PTL DEF Spec

\* reschedule, park and abandon never overwrite a row that another flush has
\* claimed since (sync.rs:476-478), for any lease and any number of flushes.
THEOREM WritesAreFenced == Spec => FencedWrites
<1>1. TypeOK /\ LeaseInv /\ [Next]_vars =>
        [\A p \in Procs, i \in Ids :
           MarkFailed(p, i) /\ row'[i] # row[i] => claimer[i] = {p}]_vars
  <2> SUFFICES ASSUME LeaseInv, NEW p \in Procs, NEW i \in Ids,
                      MarkFailed(p, i), row'[i] # row[i]
               PROVE  claimer[i] = {p}
    OBVIOUS
  <2>1. Fence(p, i) /\ i \in Owned(flush[p])
    BY DEF MarkFailed, Owned
  <2>2. QED
    BY <2>1 DEF LeaseInv, Leased, Fence
<1>2. QED
  BY <1>1, LeasesHeld, PTL DEF Spec, FencedWrites

-----------------------------------------------------------------------------
(* What is sent                                                            *)

\* What a step does to a row: a row comes into being once, keeps its payload,
\* and is never changed again once it is sent, but for its removal.
Moved(r, s) ==
  \/ s = r
  \/ r.status = "none"
  \/ /\ r.status # "none" /\ s.status # "none" /\ s.payload = r.payload
     /\ r.status = "sent" => s.status \in {"sent", "deleted"}

\* No step changes a payload or takes a row out of "sent" other than by deleting it.
LEMMA RowsMove ==
  ASSUME TypeOK, [Next]_vars, NEW i \in Ids
  PROVE  Moved(row[i], row'[i])
<1>0. row \in [Ids -> Row] /\ row[i] \in Row
  BY DEF TypeOK
<1>1. ASSUME NEW p \in Procs, NEW j \in Ids, NEW v \in Payloads, Enqueue(p, j, v)
      PROVE  Moved(row[i], row'[i])
  BY <1>0, <1>1 DEF Enqueue, Moved
<1>2. ASSUME NEW p \in Procs, Claim(p) PROVE Moved(row[i], row'[i])
  <2>1. \/ row'[i] = row[i]
        \/ /\ row[i].status \in {"pending", "sending"}
           /\ row'[i] = [row[i] EXCEPT !.status = "sending", !.next = now + Lease]
    BY <1>2 DEF Claim, Oldest, Claimable, WithStatus
  <2>2. QED
    BY <1>0, <2>1 DEF Moved, Row
<1>3. ASSUME NEW p \in Procs, NEW j \in Ids, MarkSent(p, j) PROVE Moved(row[i], row'[i])
  BY <1>0, <1>3 DEF MarkSent, Moved, Row, Exists
<1>4. ASSUME NEW p \in Procs, NEW j \in Ids, MarkFailed(p, j) PROVE Moved(row[i], row'[i])
  <2>1. PICK d \in Delays :
          row' = IF Fence(p, j)
                 THEN [row EXCEPT ![j] = Failed(row[j], flush[p].class, AgedOut(j), d)]
                 ELSE row
    BY <1>4 DEF MarkFailed
  <2>2. \/ row'[i] = row[i]
        \/ /\ row[i].status = "sending"
           /\ row'[i] = Failed(row[i], flush[p].class, AgedOut(i), d)
    BY <1>0, <2>1 DEF Fence
  <2>3. QED
    BY <1>0, <2>2 DEF Moved, Failed, Row
<1>5. ASSUME NEW p \in Procs, Unpark(p) PROVE Moved(row[i], row'[i])
  <2>1. \/ row'[i] = row[i]
        \/ /\ row[i].status = "parked"
           /\ row'[i] = [row[i] EXCEPT !.status = "pending", !.next = now]
    BY <1>5 DEF Unpark, Oldest, WithStatus
  <2>2. QED
    BY <1>0, <2>1 DEF Moved, Row
<1>6. ASSUME NEW p \in Procs, CapDelete(p) PROVE Moved(row[i], row'[i])
  <2>1. \/ row'[i] = row[i]
        \/ row'[i] = Gone(row[i])
    BY <1>6 DEF CapDelete
  <2>2. QED
    BY <1>0, <2>1 DEF Moved, Gone, Row
<1>7. CASE RetryNow \/ DrainAbandoned
  <2>1. \/ row'[i] = row[i]
        \/ /\ row[i].status \in {"parked", "pending", "abandoned"}
           /\ row'[i] = [row[i] EXCEPT !.status = "pending", !.next = now]
    BY <1>7 DEF RetryNow, DrainAbandoned, WithStatus
  <2>2. QED
    BY <1>0, <2>1 DEF Moved, Row
<1>8. CASE row' = row
  BY <1>8 DEF Moved
<1>9. QED
  BY <1>1, <1>2, <1>3, <1>4, <1>5, <1>6, <1>7, <1>8
     DEF Next, PostBatch, PostEach, CapCount, Abort, UnparkError, Drift, Tick, vars

\* No step queues, parks or abandons a row that was delivered (sync.rs:631-633).
THEOREM SentStaysSent == Spec => SentIsFinal
<1>1. TypeOK /\ [Next]_vars =>
        [\A i \in Ids : row[i].status = "sent" => row'[i].status \in {"sent", "deleted"}]_vars
  BY RowsMove DEF Moved
<1>2. QED
  BY <1>1, ObservationsTyped, PTL DEF Spec, SentIsFinal

\* What a flush is about to mark as sent was accepted by the cloud.
WinReceived == \A p \in Procs : flush[p].win \subseteq received

SentInv == SentWasReceived /\ WinReceived

\* A flush that neither claims nor posts winds down: it marks rows, gives up the
\* doubtful ones as transient failures, or ends.
Winds(f, g) ==
  /\ g.win \subseteq f.win /\ g.fail \subseteq f.fail \cup f.doubt
  /\ \/ g.doubt = {} /\ g.fail = {} /\ ~g.sent
     \/ /\ g.sent = f.sent /\ g.size = f.size /\ g.steady = f.steady
        /\ g.pc = "idle" => f.pc = "idle"
        /\ \/ g.doubt = f.doubt /\ g.fail \subseteq f.fail /\ g.class = f.class
           \/ g.doubt = {} /\ g.class = "transient"

\* Regrouping the rows of a flush leaves it at most the doubts and failures it had.
LEMMA RegroupedWinds ==
  ASSUME NEW f, NEW g, Regrouped(f, g) PROVE Winds(f, g)
<1>1. CASE g \in {Idle, Capping}
  BY <1>1, NoneOwned DEF Winds
<1>2. CASE g \notin {Idle, Capping}
  BY <1>2 DEF Regrouped, Winds
<1>3. QED
  BY <1>1, <1>2

\* Only a claim, a post and a change of the cloud give a flush new doubts or failures.
LEMMA FlushesWindDown ==
  ASSUME TypeOK, [Next]_vars, NEW q \in Procs, ~Claim(q), ~PostBatch(q),
         \A i \in Ids : ~PostEach(q, i), ~Drift
  PROVE  Winds(flush[q], flush'[q])
<1> USE FlushTyped
<1>f. flush \in [AllProcs -> Flush] /\ q \in AllProcs /\ flush[q] \in Flush
  BY DEF TypeOK
<1>s. flush'[q] = flush[q] => Winds(flush[q], flush'[q])
  BY DEF Winds
<1>i. flush'[q] \in {Idle, Capping} => Winds(flush[q], flush'[q])
  BY NoneOwned DEF Winds
<1>1. ASSUME NEW p \in Procs, p # q, Claim(p) \/ PostBatch(p) PROVE Winds(flush[q], flush'[q])
  BY <1>1, <1>f, <1>s DEF Claim, PostBatch
<1>2. ASSUME NEW p \in Procs, p # q, NEW i \in Ids, PostEach(p, i) PROVE Winds(flush[q], flush'[q])
  BY <1>2, <1>f, <1>s DEF PostEach
<1>3. ASSUME NEW p \in Procs, NEW i \in Ids, NEW v \in Payloads, Enqueue(p, i, v)
      PROVE Winds(flush[q], flush'[q])
  BY <1>3, <1>f, <1>i, <1>s DEF Enqueue
<1>4. ASSUME NEW p \in Procs, Unpark(p) \/ Abort(p) \/ UnparkError(p)
      PROVE Winds(flush[q], flush'[q])
  BY <1>4, <1>f, <1>i, <1>s DEF Unpark, Abort, UnparkError
<1>5. ASSUME NEW p \in Procs, NEW i \in Ids, MarkSent(p, i) PROVE Winds(flush[q], flush'[q])
  <2> DEFINE h == [flush[p] EXCEPT !.win = @ \ {i}]
  <2>1. flush' = [flush EXCEPT ![p] = Onward(h)]
    BY <1>5 DEF MarkSent
  <2>2. /\ h \in Flush /\ h.win \subseteq flush[p].win
        /\ h.doubt = flush[p].doubt /\ h.fail = flush[p].fail /\ h.class = flush[p].class
        /\ h.sent = flush[p].sent /\ h.size = flush[p].size /\ h.steady = flush[p].steady
        /\ h.pc = flush[p].pc
    BY DEF Flush
  <2>3. Winds(h, Onward(h))
    BY <2>2, OnwardRegroups, RegroupedWinds
  <2> HIDE DEF h
  <2>4. Winds(flush[p], Onward(h))
    BY <2>2, <2>3 DEF Winds
  <2>5. QED
    BY <1>f, <1>s, <2>1, <2>4
<1>6. ASSUME NEW p \in Procs, NEW i \in Ids, MarkFailed(p, i) PROVE Winds(flush[q], flush'[q])
  <2> DEFINE h == [flush[p] EXCEPT !.fail = @ \ {i}]
  <2>1. flush' = [flush EXCEPT ![p] = Onward(h)]
    BY <1>6 DEF MarkFailed
  <2>2. /\ h \in Flush /\ h.win = flush[p].win
        /\ h.doubt = flush[p].doubt /\ h.fail \subseteq flush[p].fail /\ h.class = flush[p].class
        /\ h.sent = flush[p].sent /\ h.size = flush[p].size /\ h.steady = flush[p].steady
        /\ h.pc = flush[p].pc
    BY DEF Flush
  <2>3. Winds(h, Onward(h))
    BY <2>2, OnwardRegroups, RegroupedWinds
  <2> HIDE DEF h
  <2>4. Winds(flush[p], Onward(h))
    BY <2>2, <2>3 DEF Winds
  <2>5. QED
    BY <1>f, <1>s, <2>1, <2>4
<1>7. ASSUME NEW p \in Procs, CapCount(p) PROVE Winds(flush[q], flush'[q])
  <2>1. \A n : Winds(flush[q], [flush[q] EXCEPT !.pc = "capdelete", !.over = n])
    BY <1>f DEF Winds, Flush
  <2>2. Winds(flush[q], [flush[q] EXCEPT !.level = "any"])
    BY <1>f DEF Winds, Flush
  <2>3. QED
    BY <1>7, <1>f, <1>i, <1>s, <2>1, <2>2 DEF CapCount
<1>8. ASSUME NEW p \in Procs, CapDelete(p) PROVE Winds(flush[q], flush'[q])
  <2>1. \A l : Winds(flush[q], [Capping EXCEPT !.level = l])
    BY CappingOwnsNone DEF Winds
  <2>2. QED
    BY <1>8, <1>f, <1>i, <1>s, <2>1 DEF CapDelete
<1>9. CASE RetryNow \/ DrainAbandoned \/ Tick \/ UNCHANGED vars
  BY <1>9, <1>s DEF RetryNow, DrainAbandoned, Tick, vars
<1>10. QED
  BY <1>1, <1>2, <1>3, <1>4, <1>5, <1>6, <1>7, <1>8, <1>9 DEF Next

\* The locals of a flush that has just claimed: nothing delivered, nothing in
\* doubt, and only rows that no longer decode to be abandoned.
LEMMA ClaimCases ==
  ASSUME TypeOK, NEW q \in Procs, Claim(q)
  PROVE  LET g == flush'[q] IN
         /\ g.win = {} /\ ~g.sent /\ g.doubt = {} /\ (g.pc = "idle" => g.fail = {})
         /\ \A i \in g.fail : row'[i].payload = "garbled"
<1> DEFINE S == Oldest(Claimable, BatchSize)
           garbled == {i \in S : row[i].payload = "garbled"}
           f == [Idle EXCEPT !.pc = "settle", !.lease = now + Lease,
                             !.size = Cardinality(S \ garbled),
                             !.left = S \ garbled, !.fail = garbled, !.class = "invalid"]
<1>1. S \subseteq Ids
  BY DEF Oldest, Claimable, WithStatus
<1>2. flush' = [flush EXCEPT ![q] = Onward(f)]
  BY DEF Claim
<1>3. Cardinality(S \ garbled) \in Nat /\ now + Lease \in Nat
  BY <1>1, SubsetsCounted, ObservationsAssumption DEF TypeOK
<1> HIDE DEF S
<1>4. f \in Flush /\ f.win = {} /\ ~f.sent /\ f.doubt = {} /\ f.fail = garbled /\ f.pc = "settle"
  BY <1>1, <1>3 DEF Idle, Flush, Classes
<1> HIDE DEF f
<1>5. Regrouped(f, Onward(f))
  BY <1>4, OnwardRegroups
<1>6. flush'[q] = Onward(f)
  BY <1>2, FlushTyped DEF TypeOK
<1>r. ASSUME NEW i \in garbled PROVE row'[i].payload = "garbled"
  <2>1. row[i].payload = "garbled" /\ row[i].status \in {"pending", "sending"} /\ i \in Ids
    BY <1>1 DEF S, Oldest, Claimable, WithStatus
  <2>2. row[i] \in Row /\ row'[i].payload = row[i].payload
    BY <2>1 DEF Claim, TypeOK, Row
  <2>3. QED
    BY <2>1, <2>2
<1> HIDE DEF garbled
<1>7. CASE Onward(f) \in {Idle, Capping}
  BY <1>6, <1>7, NoneOwned
<1>8. CASE Onward(f) \notin {Idle, Capping}
  BY <1>4, <1>5, <1>6, <1>8, <1>r DEF Regrouped
<1>9. QED
  BY <1>7, <1>8

\* Nothing is sent at the start.
LEMMA InitSent == Init => SentInv
<1> SUFFICES ASSUME Init PROVE SentInv
  OBVIOUS
<1>1. TypeOK
  BY InitTyped
<1>2. \A p \in Procs : flush[p].win = {}
  BY <1>1, FlushTyped, NoneOwned DEF Init
<1>3. QED
  BY <1>2 DEF Init, NoRow, SentInv, SentWasReceived, WinReceived

\* A row becomes "sent" only out of the rows the cloud has answered for, and these were received.
LEMMA NextSent == TypeOK /\ SentInv /\ [Next]_vars => SentInv'
<1> SUFFICES ASSUME TypeOK, SentInv, [Next]_vars PROVE SentInv'
  OBVIOUS
<1>0. Procs' = Procs /\ received \subseteq received'
  <2>1. Procs' = Procs
    BY EnvSteps DEF Procs
  <2>2. ASSUME NEW p \in Procs, PostBatch(p) PROVE received \subseteq received'
    BY <2>2, PostBatchStep
  <2>3. ASSUME NEW p \in Procs, NEW i \in Ids, PostEach(p, i) PROVE received \subseteq received'
    BY <2>3, PostEachStep
  <2>4. ASSUME received' = received PROVE received \subseteq received'
    BY <2>4
  <2>5. received \subseteq received'
    BY <2>2, <2>3, <2>4
       DEF Next, Enqueue, Claim, MarkSent, MarkFailed, Unpark, CapCount, CapDelete, Abort,
           UnparkError, RetryNow, DrainAbandoned, Drift, Tick, vars
  <2>6. QED
    BY <2>1, <2>5
<1>1. ASSUME NEW q \in Procs PROVE flush'[q].win \subseteq received'
  <2>0. flush[q].win \subseteq received /\ flush[q] \in Flush /\ q \in AllProcs
        /\ flush \in [AllProcs -> Flush]
    BY FlushTyped DEF SentInv, WinReceived, TypeOK
  <2>1. CASE Claim(q)
    BY <2>1, ClaimCases
  <2>2. CASE PostBatch(q)
    <3>1. PICK a \in Answers, taken \in BOOLEAN :
            /\ a = "ok" => taken
            /\ received' = IF taken THEN received \cup flush[q].left ELSE received
            /\ flush' = [flush EXCEPT ![q] = BatchAnswered(flush[q], a)]
      BY <2>2, PostBatchStep
    <3>2. flush'[q] = BatchAnswered(flush[q], a)
      BY <2>0, <3>1
    <3>3. QED
      BY <2>0, <3>1, <3>2, BatchCases
  <2>3. ASSUME NEW i \in Ids, PostEach(q, i) PROVE flush'[q].win \subseteq received'
    <3>1. PICK a \in Answers, taken \in BOOLEAN :
            /\ a = "ok" => taken
            /\ received' = IF taken THEN received \cup {i} ELSE received
            /\ flush' = [flush EXCEPT ![q] = EachAnswered(flush[q], i, a)]
      BY <2>3, PostEachStep
    <3>2. flush'[q] = EachAnswered(flush[q], i, a) /\ i \in flush[q].left
      BY <2>0, <2>3, <3>1 DEF PostEach
    <3>3. \/ a = "ok" /\ flush'[q].win = {i}
          \/ flush'[q].win = flush[q].win
          \/ \E h \in Flush : h.win = flush[q].win /\ flush'[q] = Onward(h)
      BY <2>0, <3>2, EachCases
    <3>4. ASSUME NEW h \in Flush PROVE Onward(h).win \subseteq h.win
      BY OnwardRegroups, RegroupedWinds DEF Winds
    <3>5. QED
      BY <1>0, <2>0, <3>1, <3>3, <3>4
  <2>4. CASE Drift
    <3>1. flush'[q] = [flush[q] EXCEPT !.steady = (flush[q].pc = "idle")]
      BY <2>0, <2>4, Zenon DEF Drift
    <3>2. flush'[q].win = flush[q].win
      BY <2>0, <3>1 DEF Flush
    <3>3. QED
      BY <1>0, <2>0, <3>2
  <2>5. CASE ~Claim(q) /\ ~PostBatch(q) /\ (\A i \in Ids : ~PostEach(q, i)) /\ ~Drift
    BY <1>0, <2>0, <2>5, FlushesWindDown DEF Winds
  <2>6. QED
    BY <2>1, <2>2, <2>3, <2>4, <2>5
<1>2. ASSUME NEW i \in Ids, row'[i].status = "sent" PROVE i \in received'
  <2>0. row \in [Ids -> Row] /\ row[i] \in Row
    BY DEF TypeOK
  <2>1. CASE row[i].status = "sent"
    BY <1>0, <2>1 DEF SentInv, SentWasReceived
  <2>2. ASSUME NEW p \in Procs, NEW j \in Ids, MarkSent(p, j), row[i].status # "sent"
        PROVE  i \in received'
    <3>1. i = j
      BY <1>2, <2>0, <2>2 DEF MarkSent
    <3>2. i \in flush[p].win
      BY <2>2, <3>1 DEF MarkSent
    <3>3. QED
      BY <1>0, <3>2 DEF SentInv, WinReceived
  <2>3. ASSUME row[i].status # "sent", \A p \in Procs, j \in Ids : ~MarkSent(p, j) PROVE FALSE
    <3>1. ASSUME NEW p \in Procs, NEW j \in Ids, NEW v \in Payloads, Enqueue(p, j, v) PROVE FALSE
      BY <1>2, <2>0, <2>3, <3>1 DEF Enqueue
    <3>2. ASSUME NEW p \in Procs, Claim(p) PROVE FALSE
      <4>1. \/ row'[i] = row[i]
            \/ row'[i] = [row[i] EXCEPT !.status = "sending", !.next = now + Lease]
        BY <3>2 DEF Claim
      <4>2. QED
        BY <1>2, <2>0, <2>3, <4>1 DEF Row
    <3>3. ASSUME NEW p \in Procs, NEW j \in Ids, MarkFailed(p, j) PROVE FALSE
      <4>1. PICK d \in Delays :
              row' = IF Fence(p, j)
                     THEN [row EXCEPT ![j] = Failed(row[j], flush[p].class, AgedOut(j), d)]
                     ELSE row
        BY <3>3 DEF MarkFailed
      <4>2. row'[i] = row[i] \/ row'[i] = Failed(row[i], flush[p].class, AgedOut(i), d)
        BY <2>0, <4>1
      <4>3. QED
        BY <1>2, <2>0, <2>3, <4>2 DEF Failed, Row
    <3>4. CASE RetryNow \/ DrainAbandoned \/ \E p \in Procs : Unpark(p)
      <4>1. \/ row'[i] = row[i]
            \/ row'[i] = [row[i] EXCEPT !.status = "pending", !.next = now]
        BY <3>4 DEF RetryNow, DrainAbandoned, Unpark
      <4>2. QED
        BY <1>2, <2>0, <2>3, <4>1 DEF Row
    <3>5. ASSUME NEW p \in Procs, CapDelete(p) PROVE FALSE
      <4>1. \/ row'[i] = row[i]
            \/ row'[i] = Gone(row[i])
        BY <3>5 DEF CapDelete
      <4>2. QED
        BY <1>2, <2>0, <2>3, <4>1 DEF Gone, Row
    <3>6. CASE row' = row
      BY <1>2, <2>3, <3>6
    <3>7. QED
      BY <2>3, <3>1, <3>2, <3>3, <3>4, <3>5, <3>6
         DEF Next, PostBatch, PostEach, CapCount, Abort, UnparkError, Drift, Tick, vars
  <2>4. QED
    BY <2>1, <2>2, <2>3
<1>3. QED
  BY <1>0, <1>1, <1>2 DEF SentInv, SentWasReceived, WinReceived

\* Only rows the cloud has accepted are marked sent, although mark_sent takes no
\* lease and any number of flushes may hold the row.
THEOREM SentOnlyIfReceived == Spec => []SentWasReceived
<1>1. SentInv => SentWasReceived
  BY DEF SentInv
<1>2. QED
  BY <1>1, InitTyped, InitSent, NextTyped, NextSent, PTL DEF Spec

-----------------------------------------------------------------------------
(* Isolation.  While the cloud does not change its mind, a flush that got  *)
(* a row through knows that it does not refuse everything, so whatever it  *)
(* refuses of that flush is refused for its payload.                       *)

Sober(f, d, table) ==
  /\ f.pc = "idle" => f.doubt = {} /\ f.fail = {} /\ ~f.sent
  /\ f.steady /\ f.sent => ~d
  /\ f.steady /\ ~d => \A i \in f.doubt : table[i].payload = "refused"
  /\ f.steady /\ f.class = "invalid" /\ f.size # 1 =>
       \A i \in f.fail : table[i].payload # "good"

DriftInv == \A p \in Procs : Sober(flush[p], drift, row)

\* No flush doubts a row at the start.
LEMMA InitDrift == Init => DriftInv
<1> SUFFICES ASSUME Init PROVE DriftInv
  OBVIOUS
<1>1. TypeOK
  BY InitTyped
<1>2. \A p \in Procs : flush[p] = Idle
  BY <1>1, FlushTyped DEF Init
<1>3. QED
  BY <1>2, NoneOwned DEF DriftInv, Sober

\* Winding down, on the same payloads and the same cloud, keeps a flush sober.
LEMMA WindsSober ==
  ASSUME NEW f, NEW g, NEW d, NEW table, Sober(f, d, table), Winds(f, g)
  PROVE  Sober(g, d, table)
BY DEF Sober, Winds

\* Nothing else than the payloads of its rows matters to it.
LEMMA SoberPayloads ==
  ASSUME NEW f, NEW d, NEW table, NEW other, Sober(f, d, table),
         \A i \in f.doubt \cup f.fail : other[i].payload = table[i].payload
  PROVE  Sober(f, d, other)
BY DEF Sober

\* Each step keeps a flush sober: what it doubts or gives up on was refused by a steady cloud.
LEMMA NextDrift == TypeOK /\ LeaseInv /\ DriftInv /\ [Next]_vars => DriftInv'
<1> SUFFICES ASSUME TypeOK, LeaseInv, DriftInv, [Next]_vars PROVE DriftInv'
  OBVIOUS
<1>t. TypeOK'
  BY NextTyped
<1>0. Procs' = Procs
  BY EnvSteps DEF Procs
<1>1. ASSUME NEW q \in Procs PROVE Sober(flush'[q], drift', row')
  <2>0. Sober(flush[q], drift, row) /\ flush[q] \in Flush /\ q \in AllProcs
        /\ flush \in [AllProcs -> Flush]
    BY FlushTyped DEF DriftInv, TypeOK
  <2>p. ASSUME NEW i \in Owned(flush[q]) PROVE row'[i].payload = row[i].payload
    <3>1. i \in Ids /\ row[i].status # "none"
      BY <2>0, OwnedAreRows DEF LeaseInv, Leased
    <3>2. QED
      BY <3>1, RowsMove DEF Moved
  <2>1. CASE Claim(q)
    <3>1. /\ flush'[q].doubt = {} /\ ~flush'[q].sent /\ drift' = drift
          /\ flush'[q].pc = "idle" => flush'[q].fail = {}
          /\ \A i \in flush'[q].fail : row'[i].payload = "garbled"
      BY <2>1, ClaimCases DEF Claim, envVars
    <3>2. QED
      BY <3>1 DEF Sober
  <2>2. CASE PostBatch(q)
    <3>1. PICK a \in Answers :
            /\ Possible(flush[q].left, a)
            /\ flush' = [flush EXCEPT ![q] = BatchAnswered(flush[q], a)]
      BY <2>2, PostBatchStep
    <3>2. flush'[q] = BatchAnswered(flush[q], a) /\ row' = row /\ drift' = drift
      BY <2>0, <2>2, <3>1 DEF PostBatch, envVars
    <3>3. a = "ok" => ~drift
      BY <3>1 DEF Possible, Refuses
    <3>4. QED
      BY <2>0, <3>2, <3>3, BatchCases DEF Sober
  <2>3. ASSUME NEW i \in Ids, PostEach(q, i) PROVE Sober(flush'[q], drift', row')
    <3>1. PICK a \in Answers :
            /\ Possible({i}, a)
            /\ flush' = [flush EXCEPT ![q] = EachAnswered(flush[q], i, a)]
      BY <2>3, PostEachStep
    <3>2. flush'[q] = EachAnswered(flush[q], i, a) /\ i \in flush[q].left
          /\ row' = row /\ drift' = drift
      BY <2>0, <2>3, <3>1 DEF PostEach, envVars
    <3>3. (a = "ok" => ~drift) /\ (a = "422" => drift \/ row[i].payload = "refused")
      BY <3>1 DEF Possible, Refuses
    <3>4. ASSUME NEW h \in Flush, flush'[q] = Onward(h), a = "422",
                 h.sent = flush[q].sent, h.fail = flush[q].fail, h.class = flush[q].class,
                 h.doubt = flush[q].doubt \cup {i}, h.size = flush[q].size,
                 h.steady = flush[q].steady, h.pc # "idle"
          PROVE  Sober(flush'[q], drift, row)
      <4>1. Sober(h, drift, row)
        BY <2>0, <3>3, <3>4 DEF Sober
      <4>2. QED
        BY <3>4, <4>1, OnwardRegroups, RegroupedWinds, WindsSober
    <3>5. CASE a = "ok"
      <4>1. /\ flush'[q].fail = flush[q].doubt /\ flush'[q].doubt = {} /\ ~drift
            /\ flush'[q].steady = flush[q].steady /\ flush'[q].pc # "idle"
        BY <2>0, <3>2, <3>3, <3>5, EachCases
      <4>2. QED
        BY <2>0, <3>2, <4>1 DEF Sober
    <3>6. CASE a \notin {"ok", "422"}
      <4>1. /\ flush'[q].class # "invalid" /\ flush'[q].doubt = {}
            /\ flush'[q].sent = flush[q].sent /\ flush'[q].steady = flush[q].steady
            /\ flush'[q].pc # "idle"
        BY <2>0, <3>2, <3>6, EachCases
      <4>2. QED
        BY <2>0, <3>2, <4>1 DEF Sober
    <3>7. ASSUME a = "422", flush[q].sent \/ flush[q].size = 1,
                 flush'[q].sent = flush[q].sent, flush'[q].fail = {i},
                 flush'[q].doubt = flush[q].doubt, flush'[q].size = flush[q].size,
                 flush'[q].steady = flush[q].steady, flush'[q].pc # "idle"
          PROVE  Sober(flush'[q], drift, row)
      BY <2>0, <3>3, <3>7 DEF Sober
    <3>8. CASE a = "422"
      BY <2>0, <3>2, <3>4, <3>7, <3>8, EachCases
    <3>9. QED
      BY <3>5, <3>6, <3>8
  <2>4. CASE Drift
    <3>1. flush'[q] = [flush[q] EXCEPT !.steady = (flush[q].pc = "idle")] /\ row' = row
      BY <2>0, <2>4, Zenon DEF Drift
    <3>2. QED
      BY <2>0, <3>1 DEF Sober, Flush
  <2>5. CASE ~Claim(q) /\ ~PostBatch(q) /\ (\A i \in Ids : ~PostEach(q, i)) /\ ~Drift
    <3>1. Winds(flush[q], flush'[q])
      BY <2>5, FlushesWindDown
    <3>2. drift' = drift
      BY <2>5, EnvSteps
    <3>3. Sober(flush[q], drift, row')
      BY <2>0, <2>p, SoberPayloads DEF Owned
    <3>4. QED
      BY <3>1, <3>2, <3>3, WindsSober
  <2>6. QED
    BY <2>1, <2>2, <2>3, <2>4, <2>5
<1>2. QED
  BY <1>0, <1>1 DEF DriftInv

\* A request-level drift of the cloud's schema or routes abandons no good row of
\* a batch (sync.rs:379-381), whatever the batch holds and whoever else flushes.
THEOREM DriftSparesBatches == Spec => DriftAbandonsNoBatch
<1>1. TypeOK /\ DriftInv /\ [Next]_vars =>
        [\A p \in Procs, i \in Ids :
           /\ MarkFailed(p, i) /\ row'[i] # row[i]
           /\ row[i].payload = "good" /\ row'[i].status = "abandoned"
           => flush[p].size = 1 \/ ~flush[p].steady \/ AgedOut(i)]_vars
  <2> SUFFICES ASSUME TypeOK, DriftInv, NEW p \in Procs, NEW i \in Ids,
                      MarkFailed(p, i), row'[i] # row[i],
                      row[i].payload = "good", row'[i].status = "abandoned",
                      flush[p].size # 1, flush[p].steady, ~AgedOut(i)
               PROVE  FALSE
    OBVIOUS
  <2>0. row \in [Ids -> Row] /\ row[i] \in Row
    BY DEF TypeOK
  <2>1. PICK d \in Delays :
          row' = IF Fence(p, i)
                 THEN [row EXCEPT ![i] = Failed(row[i], flush[p].class, AgedOut(i), d)]
                 ELSE row
    BY DEF MarkFailed
  <2>2. row'[i] = Failed(row[i], flush[p].class, AgedOut(i), d)
    BY <2>0, <2>1
  <2>3. flush[p].class = "invalid"
    BY <2>0, <2>2 DEF Failed, Row
  <2>4. i \in flush[p].fail
    BY DEF MarkFailed
  <2>5. QED
    BY <2>3, <2>4 DEF DriftInv, Sober
<1>2. QED
  BY <1>1, InitTyped, InitLease, InitDrift, NextTyped, NextLease, NextDrift, PTL
     DEF Spec, DriftAbandonsNoBatch

-----------------------------------------------------------------------------
(* cap_queue                                                               *)

\* A non-empty set of rows has an oldest one.
LEMMA LeastRow ==
  ASSUME NEW S \in SUBSET Ids, S # {}
  PROVE  \E i \in S : \A j \in S : i <= j
<1> DEFINE R == OpToRel(<, Nat)
<1>1. S \subseteq Nat
  BY ObservationsAssumption DEF Ids
<1>2. R = {ss \in Nat \X Nat : ss[1] < ss[2]}
  BY Zenon DEF OpToRel
<1>3. IsWellFoundedOn(R, Nat)
  BY NatLessThanWellFounded
<1> HIDE DEF R
<1>4. PICK i \in S : \A j \in S : ~(<<j, i>> \in R)
  BY <1>1, <1>3, WFMin, Zenon
<1>5. ASSUME NEW j \in S PROVE i <= j
  <2>1. i \in Nat /\ j \in Nat
    BY <1>1
  <2>2. ~(<<j, i>> \in {ss \in Nat \X Nat : ss[1] < ss[2]})
    BY <1>2, <1>4, Zenon
  <2>3. QED
    BY <2>1, <2>2
<1>6. QED
  BY <1>5

\* LIMIT n with n > 0 selects a row of a table that has one,
LEMMA OldestSome ==
  ASSUME NEW S \in SUBSET Ids, S # {}, NEW n \in Nat, n > 0
  PROVE  Oldest(S, n) # {}
<1>1. PICK i \in S : \A j \in S : i <= j
  BY LeastRow
<1>2. \A j \in S : j \in Int
  BY ObservationsAssumption DEF Ids
<1>3. {j \in S : j < i} = {}
  BY <1>1, <1>2
<1>4. Cardinality({j \in S : j < i}) = 0
  BY <1>3, FS_EmptySet
<1>5. QED
  BY <1>4 DEF Oldest

\* and n rows at least unless it selects them all.
LEMMA OldestAllOrMany ==
  ASSUME NEW S \in SUBSET Ids, NEW n \in Nat
  PROVE  Oldest(S, n) = S \/ Cardinality(Oldest(S, n)) >= n
<1> SUFFICES ASSUME Oldest(S, n) # S PROVE Cardinality(Oldest(S, n)) >= n
  OBVIOUS
<1> DEFINE T == S \ Oldest(S, n)
<1>1. T \in SUBSET Ids /\ T # {} /\ Oldest(S, n) \subseteq S
  BY DEF Oldest
<1>2. PICK i \in T : \A j \in T : i <= j
  BY <1>1, LeastRow
<1>3. \A j \in S : j \in Int
  BY ObservationsAssumption DEF Ids
<1> DEFINE U == {j \in S : j < i}
<1>4. U \subseteq Oldest(S, n)
  BY <1>2, <1>3
<1>5. ~(Cardinality(U) < n)
  BY <1>2 DEF Oldest
<1> HIDE DEF U, T
<1>6. IsFiniteSet(Oldest(S, n)) /\ Cardinality(Oldest(S, n)) \in Nat
  BY <1>1, SubsetsCounted
<1>7. Cardinality(U) <= Cardinality(Oldest(S, n)) /\ Cardinality(U) \in Nat
  BY <1>4, <1>6, FS_Subset, FS_CardinalityType
<1>8. QED
  BY <1>5, <1>6, <1>7

\* The table without the rows that a DELETE removes.
LEMMA TableShrinks ==
  ASSUME NEW D \in SUBSET Table
  PROVE  /\ Cardinality(Table \ D) = Cardinality(Table) - Cardinality(D)
         /\ Cardinality(Table) \in Nat /\ Cardinality(D) \in Nat
<1>1. Table \in SUBSET Ids /\ D \in SUBSET Ids /\ Table \cap D = D
  BY DEF Table
<1>2. QED
  BY <1>1, SubsetsCounted, FS_Difference

\* A level deletes rows of the table; the first two, only rows of their status.
LEMMA TrimsRows ==
  ASSUME NEW l \in {"sent", "abandoned", "any"}, NEW n \in Nat, NEW D \in Trims(l, n)
  PROVE  /\ D \in SUBSET Table
         /\ l # "any" => /\ D \subseteq WithStatus({l})
                         /\ D = WithStatus({l}) \/ Cardinality(D) >= n
         /\ l = "any" => D = Oldest(Table, n)
<1>0. Table \in SUBSET Ids /\ WithStatus({"sent"}) \in SUBSET Ids
      /\ WithStatus({"abandoned"}) \in SUBSET Ids
  BY DEF Table, WithStatus
<1>1. CASE l = "sent"
  <2>1. /\ D \in SUBSET WithStatus({"sent"})
        /\ D = WithStatus({"sent"}) \/ Cardinality(D) = n
    BY <1>1 DEF Trims
  <2>2. WithStatus({"sent"}) \subseteq Table
    BY DEF WithStatus, Table, Exists
  <2>3. QED
    BY <1>1, <2>1, <2>2
<1>2. CASE l = "abandoned"
  <2>1. D = Oldest(WithStatus({"abandoned"}), n)
    BY <1>2 DEF Trims
  <2>2. WithStatus({"abandoned"}) \subseteq Table
    BY DEF WithStatus, Table, Exists
  <2>3. D \subseteq WithStatus({"abandoned"})
    BY <2>1 DEF Oldest
  <2>4. D = WithStatus({"abandoned"}) \/ Cardinality(D) >= n
    BY <1>0, <2>1, OldestAllOrMany
  <2>5. QED
    BY <1>2, <2>2, <2>3, <2>4
<1>3. CASE l = "any"
  <2>1. D = Oldest(Table, n)
    BY <1>3 DEF Trims
  <2>2. QED
    BY <1>3, <2>1 DEF Oldest
<1>4. QED
  BY <1>1, <1>2, <1>3

\* CapDelete in terms of the rows it deletes.
LEMMA CapDeleteStep ==
  ASSUME TypeOK, NEW p \in Procs, CapDelete(p)
  PROVE  \E D \in Trims(flush[p].level, flush[p].over) :
           /\ \A i \in D : row'[i].status = "deleted"
           /\ \A i \in Ids \ D : row'[i] = row[i]
           /\ Table' = Table \ D
<1>1. PICK D \in Trims(flush[p].level, flush[p].over) :
        row' = [i \in Ids |-> IF i \in D THEN Gone(row[i]) ELSE row[i]]
  BY DEF CapDelete
<1>2. flush[p].level \in {"sent", "abandoned", "any"} /\ flush[p].over \in Nat
  BY FlushTyped DEF Flush
<1>3. D \subseteq Ids
  BY <1>1, <1>2, TrimsRows DEF Table
<1>4. ASSUME NEW i \in D PROVE row'[i].status = "deleted"
  BY <1>1, <1>3 DEF TypeOK, Gone, Row
<1>5. \A i \in Ids \ D : row'[i] = row[i]
  BY <1>1
<1>6. Table' = Table \ D
  BY <1>3, <1>4, <1>5 DEF Table, Exists
<1>7. QED
  BY <1>4, <1>5, <1>6

\* Only an insert and a DELETE change which rows are in the table.
LEMMA TableSteps ==
  ASSUME TypeOK, [Next]_vars, \A p \in Procs : ~CapDelete(p),
         \A p \in Procs, i \in Ids, v \in Payloads : ~Enqueue(p, i, v)
  PROVE  Table' = Table
<1> SUFFICES ASSUME NEW i \in Ids PROVE Exists(i)' <=> Exists(i)
  BY DEF Table
<1>0. row \in [Ids -> Row] /\ row[i] \in Row
  BY DEF TypeOK
<1>1. ASSUME NEW p \in Procs, Claim(p) PROVE Exists(i)' <=> Exists(i)
  <2>1. \/ row'[i] = row[i]
        \/ /\ row[i].status \in {"pending", "sending"}
           /\ row'[i] = [row[i] EXCEPT !.status = "sending", !.next = now + Lease]
    BY <1>1 DEF Claim, Oldest, Claimable, WithStatus
  <2>2. QED
    BY <1>0, <2>1 DEF Exists, Row
<1>2. ASSUME NEW p \in Procs, NEW j \in Ids, MarkSent(p, j) PROVE Exists(i)' <=> Exists(i)
  BY <1>0, <1>2 DEF MarkSent, Row, Exists
<1>3. ASSUME NEW p \in Procs, NEW j \in Ids, MarkFailed(p, j) PROVE Exists(i)' <=> Exists(i)
  <2>1. PICK d \in Delays :
          row' = IF Fence(p, j)
                 THEN [row EXCEPT ![j] = Failed(row[j], flush[p].class, AgedOut(j), d)]
                 ELSE row
    BY <1>3 DEF MarkFailed
  <2>2. \/ row'[i] = row[i]
        \/ /\ row[i].status = "sending"
           /\ row'[i] = Failed(row[i], flush[p].class, AgedOut(i), d)
    BY <1>0, <2>1 DEF Fence
  <2>3. QED
    BY <1>0, <2>2 DEF Failed, Row, Exists
<1>4. CASE RetryNow \/ DrainAbandoned \/ \E p \in Procs : Unpark(p)
  <2>1. \/ row'[i] = row[i]
        \/ /\ row[i].status \in {"parked", "pending", "abandoned"}
           /\ row'[i] = [row[i] EXCEPT !.status = "pending", !.next = now]
    BY <1>4 DEF RetryNow, DrainAbandoned, Unpark, Oldest, WithStatus
  <2>2. QED
    BY <1>0, <2>1 DEF Exists, Row
<1>5. CASE row' = row
  BY <1>5 DEF Exists
<1>6. QED
  BY <1>1, <1>2, <1>3, <1>4, <1>5
     DEF Next, PostBatch, PostEach, CapCount, Abort, UnparkError, Drift, Tick, vars

\* The processes in cap_queue.
Trimmers == {p \in Procs : flush[p].pc \in {"capcount", "capdelete"}}

\* The locals of a process that counts before a level.
LEMMA CappingLevels ==
  /\ Idle.pc = "idle"
  /\ \A l : LET g == [Capping EXCEPT !.level = l] IN g.pc = "capcount" /\ g.level = l
BY DEF Capping, Idle

\* g is in cap_queue only if it has just come in, or stays where f was.
Enters(f, g) ==
  \/ g.pc \notin {"capcount", "capdelete"}
  \/ g.pc = "capcount" /\ g.level = "sent"
  \/ g.pc = f.pc /\ g.level = f.level /\ g.over = f.over

\* A flush comes into cap_queue at its first level.
LEMMA OnwardEnters ==
  ASSUME NEW f \in Flush, f.pc = "settle" PROVE Enters(f, Onward(f))
<1>1. Onward(f) = Capping \/ Onward(f).pc \in {"settle", "idle", "post", "each", "unpark"}
  BY DEF Onward, Flush, Idle
<1>2. Capping.pc = "capcount" /\ Capping.level = "sent"
  BY DEF Capping, Idle
<1>3. QED
  BY <1>1, <1>2 DEF Enters

\* Outside the trim itself, a flush enters it only at its first count.
LEMMA FlushesEnter ==
  ASSUME TypeOK, [Next]_vars, NEW q \in Procs, ~CapCount(q), ~CapDelete(q)
  PROVE  Enters(flush[q], flush'[q])
<1> USE FlushTyped
<1>f. flush \in [AllProcs -> Flush] /\ q \in AllProcs /\ flush[q] \in Flush
  BY DEF TypeOK
<1>s. flush'[q] = flush[q] => Enters(flush[q], flush'[q])
  BY DEF Enters
<1>i. flush'[q] \in {Idle, Capping} => Enters(flush[q], flush'[q])
  BY DEF Enters, Idle, Capping
<1>1. ASSUME NEW p \in Procs, Claim(p) PROVE Enters(flush[q], flush'[q])
  <2> DEFINE S == Oldest(Claimable, BatchSize)
             garbled == {i \in S : row[i].payload = "garbled"}
             f == [Idle EXCEPT !.pc = "settle", !.lease = now + Lease,
                               !.size = Cardinality(S \ garbled),
                               !.left = S \ garbled, !.fail = garbled, !.class = "invalid"]
  <2>1. S \subseteq Ids
    BY DEF Oldest, Claimable, WithStatus
  <2>2. flush' = [flush EXCEPT ![p] = Onward(f)]
    BY <1>1 DEF Claim
  <2>3. Cardinality(S \ garbled) \in Nat /\ now + Lease \in Nat
    BY <2>1, SubsetsCounted, ObservationsAssumption DEF TypeOK
  <2> HIDE DEF S
  <2>4. f \in Flush /\ f.pc = "settle"
    BY <2>1, <2>3 DEF Idle, Flush, Classes
  <2> HIDE DEF f
  <2>5. Enters(f, Onward(f))
    BY <2>4, OnwardEnters
  <2>6. CASE p = q
    BY <1>f, <2>2, <2>4, <2>5, <2>6 DEF Enters
  <2>7. CASE p # q
    BY <1>f, <1>s, <2>2, <2>7
  <2>8. QED
    BY <2>6, <2>7
<1>2. ASSUME NEW p \in Procs, PostBatch(p) PROVE Enters(flush[q], flush'[q])
  <2>1. PICK a \in Answers : flush' = [flush EXCEPT ![p] = BatchAnswered(flush[p], a)]
    BY <1>2, PostBatchStep
  <2>2. BatchAnswered(flush[p], a).pc \in {"settle", "each"}
    BY DEF BatchAnswered, Flush
  <2>3. QED
    BY <1>f, <1>s, <2>1, <2>2 DEF Enters
<1>3. ASSUME NEW p \in Procs, NEW i \in Ids, PostEach(p, i) PROVE Enters(flush[q], flush'[q])
  <2>1. PICK a \in Answers : flush' = [flush EXCEPT ![p] = EachAnswered(flush[p], i, a)]
    BY <1>3, PostEachStep
  <2> DEFINE e == [flush[p] EXCEPT !.left = @ \ {i}]
             h == [e EXCEPT !.pc = "settle", !.doubt = @ \cup {i}]
  <2>2. e \in Flush
    BY DEF Flush
  <2> HIDE DEF e
  <2>3. h \in Flush /\ h.pc = "settle"
    BY <2>2 DEF Flush
  <2>4. EachAnswered(flush[p], i, a) = Onward(h) \/ EachAnswered(flush[p], i, a).pc = "settle"
    BY <2>2 DEF EachAnswered, e, Flush
  <2> HIDE DEF h
  <2>5. Enters(h, Onward(h))
    BY <2>3, OnwardEnters
  <2>6. Enters(flush[p], EachAnswered(flush[p], i, a))
    BY <2>3, <2>4, <2>5 DEF Enters
  <2>7. QED
    BY <1>f, <1>s, <2>1, <2>6
<1>4. ASSUME NEW p \in Procs, NEW i \in Ids, NEW v \in Payloads, Enqueue(p, i, v)
      PROVE Enters(flush[q], flush'[q])
  BY <1>4, <1>f, <1>i, <1>s DEF Enqueue
<1>5. ASSUME NEW p \in Procs, Unpark(p) \/ Abort(p) \/ UnparkError(p)
      PROVE Enters(flush[q], flush'[q])
  BY <1>5, <1>f, <1>i, <1>s DEF Unpark, Abort, UnparkError
<1>6. ASSUME NEW p \in Procs, NEW i \in Ids, MarkSent(p, i) PROVE Enters(flush[q], flush'[q])
  <2> DEFINE h == [flush[p] EXCEPT !.win = @ \ {i}]
  <2>1. flush' = [flush EXCEPT ![p] = Onward(h)] /\ flush[p].pc = "settle"
    BY <1>6 DEF MarkSent
  <2>2. h \in Flush /\ h.pc = "settle"
    BY <2>1 DEF Flush
  <2> HIDE DEF h
  <2>3. Enters(flush[p], Onward(h))
    BY <2>1, <2>2, OnwardEnters DEF Enters
  <2>4. QED
    BY <1>f, <1>s, <2>1, <2>3
<1>7. ASSUME NEW p \in Procs, NEW i \in Ids, MarkFailed(p, i) PROVE Enters(flush[q], flush'[q])
  <2> DEFINE h == [flush[p] EXCEPT !.fail = @ \ {i}]
  <2>1. flush' = [flush EXCEPT ![p] = Onward(h)] /\ flush[p].pc = "settle"
    BY <1>7 DEF MarkFailed
  <2>2. h \in Flush /\ h.pc = "settle"
    BY <2>1 DEF Flush
  <2> HIDE DEF h
  <2>3. Enters(flush[p], Onward(h))
    BY <2>1, <2>2, OnwardEnters DEF Enters
  <2>4. QED
    BY <1>f, <1>s, <2>1, <2>3
<1>8. ASSUME NEW p \in Procs, p # q, CapCount(p) \/ CapDelete(p) PROVE Enters(flush[q], flush'[q])
  BY <1>8, <1>f, <1>s DEF CapCount, CapDelete
<1>9. CASE Drift
  <2>1. flush'[q] = [flush[q] EXCEPT !.steady = (flush[q].pc = "idle")]
    BY <1>9, <1>f, Zenon DEF Drift
  <2>2. QED
    BY <1>f, <2>1 DEF Enters, Flush
<1>10. CASE RetryNow \/ DrainAbandoned \/ Tick \/ UNCHANGED vars
  BY <1>10, <1>s DEF RetryNow, DrainAbandoned, Tick, vars
<1>11. QED
  BY <1>1, <1>2, <1>3, <1>4, <1>5, <1>6, <1>7, <1>8, <1>9, <1>10 DEF Next

\* A DELETE has something to delete.
OverInv == \A p \in Procs : flush[p].pc = "capdelete" => flush[p].over > 0

CapInv == OverInv /\ QueueStaysCapped

\* A process goes on to the DELETE only if it counted an overflow.
LEMMA NextOver == TypeOK /\ OverInv /\ [Next]_vars => OverInv'
<1> SUFFICES ASSUME TypeOK, OverInv, [Next]_vars,
                    NEW q \in Procs, flush'[q].pc = "capdelete"
             PROVE  flush'[q].over > 0
  BY EnvSteps DEF OverInv, Procs
<1>f. flush \in [AllProcs -> Flush] /\ q \in AllProcs /\ flush[q] \in Flush
  BY FlushTyped DEF TypeOK
<1>1. CASE CapCount(q)
  <2>1. /\ flush[q].pc = "capcount"
        /\ flush'[q] = IF Overflow > 0
                       THEN [flush[q] EXCEPT !.pc = "capdelete", !.over = Overflow]
                       ELSE IF flush[q].level = "abandoned" THEN [flush[q] EXCEPT !.level = "any"]
                       ELSE Idle
    BY <1>1, <1>f DEF CapCount
  <2>2. QED
    BY <1>f, <2>1 DEF Flush, Idle
<1>2. CASE CapDelete(q)
  <2>1. flush'[q] \in {Idle, [Capping EXCEPT !.level = NextLevel(flush[q].level)]}
    BY <1>2, <1>f DEF CapDelete
  <2>2. flush'[q].pc # "capdelete"
    BY <2>1, CappingLevels
  <2>3. QED
    BY <2>2
<1>3. CASE ~CapCount(q) /\ ~CapDelete(q)
  BY <1>3, FlushesEnter DEF Enters, OverInv
<1>4. QED
  BY <1>1, <1>2, <1>3

\* The empty table does not overflow.
LEMMA InitCap == Init => CapInv
<1> SUFFICES ASSUME Init PROVE CapInv
  OBVIOUS
<1>1. TypeOK /\ setting \in Setting
  BY InitTyped, SettingTyped DEF TypeOK
<1>2. \A p \in Procs : flush[p] = Idle
  BY <1>1, FlushTyped DEF Init
<1>3. Table = {} /\ Cardinality(Table) = 0
  BY FS_EmptySet DEF Init, Table, Exists, NoRow
<1>4. Trimmers = {} /\ Cardinality(Trimmers) = 0
  BY <1>2, CappingLevels, FS_EmptySet DEF Trimmers
<1>5. QED
  BY <1>1, <1>2, <1>3, <1>4, CappingLevels
     DEF Init, CapInv, OverInv, QueueStaysCapped, Trimmers, Cap, Setting

\* The processes are finitely many.
LEMMA TrimmersCounted ==
  ASSUME TypeOK
  PROVE  IsFiniteSet(Trimmers) /\ Cardinality(Trimmers) \in Nat
<1>1. Trimmers \in SUBSET AllProcs
  BY FlushTyped DEF Trimmers
<1>2. IsFiniteSet(Trimmers)
  BY <1>1, FS_Subset, ObservationsAssumption
<1>3. QED
  BY <1>2, FS_CardinalityType

\* The bound survives a step that inserts nothing and after which at least as
\* many processes trim, or died trimming.
LEMMA CapMonotone ==
  ASSUME TypeOK, TypeOK', QueueStaysCapped, setting' = setting,
         Cardinality(Table') <= Cardinality(Table),
         \/ Trimmers \subseteq Trimmers' /\ faults' >= faults
         \/ \E p \in Procs : Trimmers \ {p} \subseteq Trimmers' /\ faults' = faults + 1
  PROVE  QueueStaysCapped'
<1>0. /\ IsFiniteSet(Trimmers) /\ Cardinality(Trimmers) \in Nat
      /\ faults \in Nat /\ faults' \in Nat /\ Cap \in Nat /\ Cap' = Cap
      /\ Cardinality(Table) \in Nat
  <2>1. Table \in SUBSET Ids
    BY DEF Table
  <2>2. setting \in Setting
    BY SettingTyped DEF TypeOK
  <2>3. QED
    BY <2>1, <2>2, SubsetsCounted, TrimmersCounted DEF TypeOK, Cap, Setting
<1>1. IsFiniteSet(Trimmers') /\ Cardinality(Trimmers') \in Nat
  <2>1. Trimmers' \in SUBSET AllProcs
    <3>1. Procs' = Procs
      BY DEF Procs
    <3>2. QED
      BY <3>1, FlushTyped DEF Trimmers
  <2>2. IsFiniteSet(Trimmers')
    BY <2>1, FS_Subset, ObservationsAssumption
  <2>3. QED
    BY <2>2, FS_CardinalityType
<1>2. Cardinality(Table) <= Cap + Cardinality(Trimmers) + faults
  BY DEF QueueStaysCapped, Trimmers
<1>3. Cardinality(Table') \in Nat
  <2>1. Table' \in SUBSET Ids
    BY DEF Table
  <2>2. QED
    BY <2>1, SubsetsCounted
<1>4. CASE Trimmers \subseteq Trimmers' /\ faults' >= faults
  <2>1. Cardinality(Trimmers) <= Cardinality(Trimmers')
    BY <1>1, <1>4, FS_Subset
  <2>2. Cardinality(Table') <= Cap + Cardinality(Trimmers') + faults'
    BY <1>0, <1>1, <1>2, <1>3, <1>4, <2>1
  <2>3. QED
    BY <1>0, <2>2 DEF QueueStaysCapped, Trimmers
<1>5. ASSUME NEW p \in Procs, Trimmers \ {p} \subseteq Trimmers', faults' = faults + 1
      PROVE  QueueStaysCapped'
  <2>1. Cardinality(Trimmers \ {p}) <= Cardinality(Trimmers')
    BY <1>1, <1>5, FS_Subset
  <2>2. Cardinality(Trimmers \ {p}) >= Cardinality(Trimmers) - 1
        /\ Cardinality(Trimmers \ {p}) \in Int
    BY <1>0, FS_RemoveElement
  <2>3. Cardinality(Table') <= Cap + Cardinality(Trimmers') + faults'
    BY <1>0, <1>1, <1>2, <1>3, <1>5, <2>1, <2>2
  <2>4. QED
    BY <1>0, <2>3 DEF QueueStaysCapped, Trimmers
<1>6. QED
  BY <1>4, <1>5

\* An insert is paid for by the trim its process owes; a delete pays as much as it counted.
LEMMA NextCap == TypeOK /\ CapInv /\ [Next]_vars => CapInv'
<1> SUFFICES ASSUME TypeOK, CapInv, [Next]_vars PROVE QueueStaysCapped'
  BY NextOver DEF CapInv
<1>t. TypeOK' /\ QueueStaysCapped /\ OverInv
  BY NextTyped DEF CapInv
<1>f. flush \in [AllProcs -> Flush] /\ Procs \subseteq AllProcs /\ setting \in Setting
  BY FlushTyped, SettingTyped DEF TypeOK
<1>p. setting' = setting /\ Procs' = Procs /\ Cap' = Cap /\ Cap \in Nat /\ faults \in Nat
  BY <1>f, EnvSteps DEF Procs, Cap, Setting, TypeOK
<1>c. /\ IsFiniteSet(Table) /\ Cardinality(Table) \in Nat
      /\ IsFiniteSet(Trimmers) /\ Cardinality(Trimmers) \in Nat
      /\ Cardinality(Table) <= Cap + Cardinality(Trimmers) + faults
  BY <1>t, SubsetsCounted, TrimmersCounted DEF Table, QueueStaysCapped, Trimmers
<1>1. ASSUME NEW p \in Procs, NEW i \in Ids, NEW v \in Payloads, Enqueue(p, i, v)
      PROVE  QueueStaysCapped'
  <2>1. flush' = [flush EXCEPT ![p] = Capping] /\ flush[p].pc = "idle" /\ faults' = faults
    BY <1>1 DEF Enqueue
  <2>2. Capping.pc = "capcount"
    BY DEF Capping, Idle
  <2>3. Trimmers' = Trimmers \cup {p} /\ p \notin Trimmers
    BY <1>f, <1>p, <2>1, <2>2 DEF Trimmers
  <2>4. row \in [Ids -> Row] /\ row[i].status = "none" /\ row'[i].status = "pending"
        /\ \A j \in Ids : j # i => row'[j] = row[j]
    BY <1>1 DEF Enqueue, TypeOK
  <2>5. Table' = Table \cup {i} /\ i \notin Table
    BY <2>4 DEF Table, Exists
  <2>6. /\ Cardinality(Table') = Cardinality(Table) + 1
        /\ Cardinality(Trimmers') = Cardinality(Trimmers) + 1
    BY <1>c, <2>3, <2>5, FS_AddElement
  <2>7. Cardinality(Table') <= Cap + Cardinality(Trimmers') + faults'
    BY <1>c, <1>p, <2>1, <2>6
  <2>8. QED
    BY <1>p, <2>7 DEF QueueStaysCapped, Trimmers
<1>2. ASSUME NEW p \in Procs, CapDelete(p) PROVE QueueStaysCapped'
  <2>1. PICK D \in Trims(flush[p].level, flush[p].over) : Table' = Table \ D
    BY <1>2, CapDeleteStep
  <2>2. flush[p] \in Flush /\ flush[p].pc = "capdelete" /\ flush[p].over > 0 /\ faults' = faults
    BY <1>2, <1>f, <1>t DEF CapDelete, OverInv
  <2>3. flush[p].level \in {"sent", "abandoned", "any"} /\ flush[p].over \in Nat
    BY <2>2 DEF Flush
  <2>4. D \in SUBSET Table /\ (flush[p].level = "any" => D = Oldest(Table, flush[p].over))
    BY <2>3, TrimsRows
  <2>5. /\ Cardinality(Table') = Cardinality(Table) - Cardinality(D)
        /\ Cardinality(D) \in Nat /\ Cardinality(Table') \in Nat
    <3>1. Table' \in SUBSET Ids
      BY DEF Table
    <3>2. QED
      BY <2>1, <2>4, <3>1, TableShrinks, SubsetsCounted
  <2>6. CASE flush[p].level # "any"
    <3>1. flush' = [flush EXCEPT ![p] = [Capping EXCEPT !.level = NextLevel(flush[p].level)]]
      BY <1>2, <2>6 DEF CapDelete
    <3>2. Trimmers \subseteq Trimmers'
      BY <1>f, <1>p, <3>1, CappingLevels DEF Trimmers
    <3>3. Cardinality(Table') <= Cardinality(Table) /\ faults' >= faults
      BY <1>c, <1>p, <2>2, <2>5
    <3>4. QED
      BY <1>t, <1>p, <3>2, <3>3, CapMonotone
  <2>7. CASE flush[p].level = "any"
    <3>1. flush' = [flush EXCEPT ![p] = Idle]
      BY <1>2, <2>7 DEF CapDelete
    <3>2. Trimmers' = Trimmers \ {p} /\ p \in Trimmers
      BY <1>f, <1>p, <2>2, <3>1, CappingLevels DEF Trimmers
    <3>3. Cardinality(Trimmers') = Cardinality(Trimmers) - 1 /\ Cardinality(Trimmers') \in Nat
      BY <1>c, <3>2, FS_RemoveElement, FS_CardinalityType
    <3>4. Cardinality(Table') <= Cap + Cardinality(Trimmers') + faults
      <4>1. CASE Table = {}
        <5>1. Cardinality(Table) = 0
          BY <4>1, FS_EmptySet
        <5>2. QED
          BY <1>p, <2>5, <3>3, <5>1
      <4>2. CASE Table # {}
        <5>1. D # {}
          BY <2>2, <2>3, <2>4, <2>7, <4>2, OldestSome DEF Table
        <5>2. IsFiniteSet(D)
          BY <1>c, <2>4, FS_Subset
        <5>3. Cardinality(D) # 0
          BY <5>1, <5>2, FS_EmptySet
        <5>4. QED
          BY <1>c, <1>p, <2>5, <3>3, <5>3
      <4>3. QED
        BY <4>1, <4>2
    <3>5. QED
      BY <1>p, <2>2, <3>4 DEF QueueStaysCapped, Trimmers
  <2>8. QED
    BY <2>6, <2>7
<1>3. ASSUME \A p \in Procs : ~CapDelete(p),
             \A p \in Procs, i \in Ids, v \in Payloads : ~Enqueue(p, i, v)
      PROVE  QueueStaysCapped'
  <2>1. Table' = Table
    BY <1>3, TableSteps
  <2>2. Cardinality(Table') <= Cardinality(Table)
    BY <1>c, <2>1
  <2>3. ASSUME NEW p \in Procs, CapCount(p) PROVE QueueStaysCapped'
    <3>1. faults' = faults /\ flush[p] \in Flush /\ flush[p].pc = "capcount"
          /\ flush' = [flush EXCEPT ![p] =
               IF Overflow > 0 THEN [flush[p] EXCEPT !.pc = "capdelete", !.over = Overflow]
               ELSE IF flush[p].level = "abandoned" THEN [flush[p] EXCEPT !.level = "any"]
               ELSE Idle]
      BY <1>f, <2>3 DEF CapCount
    <3>2. CASE Overflow > 0 \/ flush[p].level = "abandoned"
      <4>1. flush'[p].pc \in {"capcount", "capdelete"} /\ \A q \in Procs : q # p => flush'[q] = flush[q]
        BY <1>f, <3>1, <3>2 DEF Flush
      <4>2. Trimmers \subseteq Trimmers'
        BY <1>p, <4>1 DEF Trimmers
      <4>3. QED
        BY <1>t, <1>p, <2>2, <3>1, <4>2, CapMonotone
    <3>3. CASE ~(Overflow > 0)
      <4>1. Cardinality(Table) <= Cap
        BY <1>c, <1>p, <3>3 DEF Overflow
      <4>2. Cardinality(Trimmers') \in Nat
        <5>1. Trimmers' \in SUBSET AllProcs
          BY <1>f, <1>p DEF Trimmers
        <5>2. QED
          BY <5>1, FS_Subset, FS_CardinalityType, ObservationsAssumption
      <4>3. Cardinality(Table') <= Cap + Cardinality(Trimmers') + faults'
        BY <1>c, <1>p, <2>1, <3>1, <4>1, <4>2
      <4>4. QED
        BY <1>p, <4>3 DEF QueueStaysCapped, Trimmers
    <3>4. QED
      BY <3>2, <3>3
  <2>4. ASSUME NEW p \in Procs, Abort(p) PROVE QueueStaysCapped'
    <3>1. faults' = faults + 1 /\ flush' = [flush EXCEPT ![p] = Idle]
      BY <2>4 DEF Abort, Fault
    <3>2. Trimmers \ {p} \subseteq Trimmers'
      BY <1>f, <1>p, <3>1 DEF Trimmers
    <3>3. QED
      BY <1>t, <1>p, <2>2, <3>1, <3>2, CapMonotone
  <2>5. ASSUME NEW p \in Procs, flush[p].pc \notin {"capcount", "capdelete"},
               \A q \in AllProcs : q # p => flush'[q] = flush[q], faults' \in {faults, faults + 1}
        PROVE  QueueStaysCapped'
    <3>1. Trimmers \subseteq Trimmers'
      BY <1>f, <1>p, <2>5 DEF Trimmers
    <3>2. faults' >= faults
      BY <1>p, <2>5
    <3>3. QED
      BY <1>t, <1>p, <2>2, <3>1, <3>2, CapMonotone
  <2>6. ASSUME NEW p \in Procs, Claim(p) \/ PostBatch(p) \/ Unpark(p) \/ UnparkError(p)
        PROVE  QueueStaysCapped'
    <3>1. /\ flush[p].pc \notin {"capcount", "capdelete"}
          /\ \A q \in AllProcs : q # p => flush'[q] = flush[q]
          /\ faults' \in {faults, faults + 1}
      BY <1>f, <2>6 DEF Claim, PostBatch, Unpark, UnparkError, Fault
    <3>2. QED
      BY <2>5, <3>1
  <2>7. ASSUME NEW p \in Procs, NEW i \in Ids, PostEach(p, i) \/ MarkSent(p, i) \/ MarkFailed(p, i)
        PROVE  QueueStaysCapped'
    <3>1. /\ flush[p].pc \notin {"capcount", "capdelete"}
          /\ \A q \in AllProcs : q # p => flush'[q] = flush[q]
          /\ faults' \in {faults, faults + 1}
      BY <1>f, <2>7 DEF PostEach, MarkSent, MarkFailed
    <3>2. QED
      BY <2>5, <3>1
  <2>8. CASE Drift \/ RetryNow \/ DrainAbandoned \/ Tick \/ UNCHANGED vars
    <3>1. faults' = faults
      BY <2>8 DEF Drift, RetryNow, DrainAbandoned, Tick, vars
    <3>2. ASSUME NEW q \in AllProcs PROVE flush'[q].pc = flush[q].pc
      <4>1. CASE Drift
        <5>1. flush'[q] = [flush[q] EXCEPT !.steady = (flush[q].pc = "idle")]
          BY <4>1, Zenon DEF Drift
        <5>2. QED
          BY <1>f, <5>1 DEF Flush
      <4>2. CASE RetryNow \/ DrainAbandoned \/ Tick \/ UNCHANGED vars
        BY <4>2 DEF RetryNow, DrainAbandoned, Tick, vars
      <4>3. QED
        BY <2>8, <4>1, <4>2
    <3>3. Trimmers \subseteq Trimmers' /\ faults' >= faults
      BY <1>f, <1>p, <3>1, <3>2 DEF Trimmers
    <3>4. QED
      BY <1>t, <1>p, <2>2, <3>3, CapMonotone
  <2>9. QED
    BY <1>3, <2>3, <2>4, <2>6, <2>7, <2>8 DEF Next
<1>4. QED
  BY <1>1, <1>2, <1>3

\* The table exceeds its cap by at most one row for each process that is still in
\* cap_queue and one for each that died in it, however many there are.
THEOREM QueueCapped == Spec => []QueueStaysCapped
<1>1. CapInv => QueueStaysCapped
  BY DEF CapInv
<1>2. QED
  BY <1>1, InitTyped, InitCap, NextTyped, NextCap, PTL DEF Spec

\* What the cap_queue of a process on its own knows: its count is right when it
\* deletes, and if the table still overflows at a level, the levels before it
\* have left nothing.
AloneInv ==
  \A p \in Procs : Procs = {p} =>
    LET f == flush[p] IN
    /\ f.pc = "capdelete" => f.over = Overflow
    /\ f.pc \in {"capcount", "capdelete"} /\ Overflow > 0 =>
         /\ f.level # "sent" => WithStatus({"sent"}) = {}
         /\ f.level = "any" => WithStatus({"abandoned"}) = {}

\* No process trims at the start.
LEMMA InitAlone == Init => AloneInv
<1> SUFFICES ASSUME Init PROVE AloneInv
  OBVIOUS
<1>1. TypeOK
  BY InitTyped
<1>2. \A p \in Procs : flush[p] = Idle
  BY <1>1, FlushTyped DEF Init
<1>3. QED
  BY <1>2, CappingLevels DEF AloneInv

\* A process alone deletes what it counted, and leaves a level only when it is empty.
LEMMA NextAlone == TypeOK /\ OverInv /\ AloneInv /\ [Next]_vars => AloneInv'
<1> SUFFICES ASSUME TypeOK, OverInv, AloneInv, [Next]_vars, NEW q \in Procs, Procs = {q}
             PROVE  LET f == flush'[q] IN
                    /\ f.pc = "capdelete" => f.over = Overflow'
                    /\ f.pc \in {"capcount", "capdelete"} /\ Overflow' > 0 =>
                         /\ f.level # "sent" => WithStatus({"sent"})' = {}
                         /\ f.level = "any" => WithStatus({"abandoned"})' = {}
  BY EnvSteps DEF AloneInv, Procs
<1>f. flush \in [AllProcs -> Flush] /\ q \in AllProcs /\ flush[q] \in Flush
  BY FlushTyped DEF TypeOK
<1>c. Cap' = Cap /\ Cap \in Nat /\ Cardinality(Table) \in Nat
  <2>1. setting \in Setting /\ setting' = setting /\ Table \in SUBSET Ids
    BY SettingTyped, EnvSteps DEF TypeOK, Table
  <2>2. QED
    BY <2>1, SubsetsCounted DEF Cap, Setting
<1>1. CASE CapCount(q)
  <2>1. /\ flush[q].pc = "capcount" /\ row' = row
        /\ flush'[q] = IF Overflow > 0
                       THEN [flush[q] EXCEPT !.pc = "capdelete", !.over = Overflow]
                       ELSE IF flush[q].level = "abandoned" THEN [flush[q] EXCEPT !.level = "any"]
                       ELSE Idle
    BY <1>1, <1>f DEF CapCount
  <2>2. Table' = Table
    BY <2>1 DEF Table, Exists
  <2>3. Overflow' = Overflow
    BY <1>c, <2>2 DEF Overflow
  <2>4. \A S : WithStatus(S)' = WithStatus(S)
    BY <2>1 DEF WithStatus
  <2>5. CASE Overflow > 0
    <3>1. flush'[q].pc = "capdelete" /\ flush'[q].over = Overflow /\ flush'[q].level = flush[q].level
      BY <1>f, <2>1, <2>5 DEF Flush
    <3>2. QED
      BY <2>1, <2>3, <2>4, <2>5, <3>1 DEF AloneInv
  <2>6. CASE ~(Overflow > 0)
    <3>1. flush'[q].pc # "capdelete"
      BY <1>f, <2>1, <2>6, CappingLevels DEF Flush
    <3>2. QED
      BY <2>3, <2>6, <3>1
  <2>7. QED
    BY <2>5, <2>6
<1>2. CASE CapDelete(q)
  <2>1. PICK D \in Trims(flush[q].level, flush[q].over) :
           /\ \A i \in D : row'[i].status = "deleted"
           /\ \A i \in Ids \ D : row'[i] = row[i]
           /\ Table' = Table \ D
    BY <1>2, CapDeleteStep
  <2>2. /\ flush[q].pc = "capdelete" /\ flush[q].over = Overflow /\ Overflow > 0
        /\ flush[q].level \in {"sent", "abandoned", "any"} /\ flush[q].over \in Nat
    BY <1>2, <1>f DEF CapDelete, OverInv, AloneInv, Flush
  <2>3. /\ D \in SUBSET Table
        /\ flush[q].level # "any" =>
             /\ D \subseteq WithStatus({flush[q].level})
             /\ D = WithStatus({flush[q].level}) \/ Cardinality(D) >= flush[q].over
    BY <2>2, TrimsRows
  <2>4. flush[q].level # "any" => D = WithStatus({flush[q].level}) \/ ~(Overflow' > 0)
    <3> SUFFICES ASSUME flush[q].level # "any", Cardinality(D) >= flush[q].over
                 PROVE  ~(Overflow' > 0)
      BY <2>3
    <3>1. /\ Cardinality(Table') = Cardinality(Table) - Cardinality(D)
          /\ Cardinality(D) \in Nat
      BY <2>1, <2>3, TableShrinks
    <3>2. Overflow = Cardinality(Table) - Cap /\ Overflow' = Cardinality(Table') - Cap
      BY <1>c DEF Overflow
    <3>3. QED
      BY <1>c, <2>2, <3>1, <3>2
  <2>5. \A s \in {"sent", "abandoned"} : WithStatus({s})' \subseteq WithStatus({s}) \ D
    BY <2>1 DEF WithStatus
  <2>6. CASE flush[q].level = "any"
    <3>1. flush'[q].pc = "idle"
      BY <1>2, <1>f, <2>6, CappingLevels DEF CapDelete
    <3>2. QED
      BY <3>1
  <2>7. CASE flush[q].level \in {"sent", "abandoned"}
    <3>1. flush'[q] = [Capping EXCEPT !.level = NextLevel(flush[q].level)]
      BY <1>2, <1>f, <2>7 DEF CapDelete
    <3>2. flush'[q].pc = "capcount" /\ flush'[q].level = NextLevel(flush[q].level)
      BY <3>1, CappingLevels
    <3>3. CASE flush[q].level = "sent"
      BY <2>4, <2>5, <3>2, <3>3 DEF NextLevel
    <3>4. CASE flush[q].level = "abandoned"
      <4>1. WithStatus({"sent"}) = {}
        BY <2>2, <3>4 DEF AloneInv
      <4>2. QED
        BY <2>4, <2>5, <3>2, <3>4, <4>1 DEF NextLevel
    <3>5. QED
      BY <2>7, <3>3, <3>4
  <2>8. QED
    BY <2>2, <2>6, <2>7
<1>3. CASE ~CapCount(q) /\ ~CapDelete(q)
  <2>1. Enters(flush[q], flush'[q])
    BY <1>3, FlushesEnter
  <2>2. CASE flush'[q].pc \notin {"capcount", "capdelete"}
             \/ (flush'[q].pc = "capcount" /\ flush'[q].level = "sent")
    BY <2>2
  <2>3. ASSUME flush'[q].pc \in {"capcount", "capdelete"}, flush'[q].pc = flush[q].pc,
               flush'[q].level = flush[q].level, flush'[q].over = flush[q].over
        PROVE  /\ Table' = Table
               /\ \A s \in {"sent", "abandoned"} : WithStatus({s})' \subseteq WithStatus({s})
    <3>1. ASSUME NEW i \in Ids, NEW v \in Payloads, Enqueue(q, i, v) PROVE FALSE
      BY <2>3, <3>1 DEF Enqueue
    <3>2. Table' = Table
      BY <1>3, <3>1, TableSteps
    <3>3. ~Claim(q) /\ ~PostBatch(q) /\ ~Unpark(q) /\ ~UnparkError(q)
      BY <2>3 DEF Claim, PostBatch, Unpark, UnparkError
    <3>4. \A i \in Ids : ~PostEach(q, i) /\ ~MarkSent(q, i) /\ ~MarkFailed(q, i)
      BY <2>3 DEF PostEach, MarkSent, MarkFailed
    <3>5. Abort(q) \/ RetryNow \/ DrainAbandoned \/ Drift \/ Tick \/ UNCHANGED vars
      BY <1>3, <3>1, <3>3, <3>4 DEF Next
    <3>6. ASSUME NEW i \in Ids
          PROVE  row'[i] = row[i] \/ row'[i].status = "pending"
      <4>1. row[i] \in Row
        BY DEF TypeOK
      <4>2. \/ row'[i] = row[i]
            \/ row'[i] = [row[i] EXCEPT !.status = "pending", !.next = now]
        BY <3>5 DEF Abort, RetryNow, DrainAbandoned, Drift, Tick, vars
      <4>3. QED
        BY <4>1, <4>2 DEF Row
    <3>7. QED
      BY <3>2, <3>6 DEF WithStatus
  <2>4. CASE /\ flush'[q].pc \in {"capcount", "capdelete"} /\ flush'[q].pc = flush[q].pc
             /\ flush'[q].level = flush[q].level /\ flush'[q].over = flush[q].over
    <3>1. Overflow' = Overflow
      BY <1>c, <2>3, <2>4 DEF Overflow
    <3>2. QED
      BY <2>3, <2>4, <3>1 DEF AloneInv
  <2>5. QED
    BY <2>1, <2>2, <2>4 DEF Enters
<1>4. QED
  BY <1>1, <1>2, <1>3

\* The cap_queue of a process on its own never sheds an unsent row while a sent
\* or an abandoned one is left (storage.rs:890-893), whatever the cap.
THEOREM UnsentShedLast == Spec => CapShedsLast
<1>1. TypeOK /\ OverInv /\ AloneInv /\ [Next]_vars =>
        [\A p \in Procs : Procs = {p} /\ CapDelete(p) =>
           \A i \in WithStatus({"pending", "sending", "parked"}) :
             row'[i].status = "deleted" =>
               /\ Overflow > 0
               /\ \A j \in Ids : row'[j].status \notin {"sent", "abandoned"}]_vars
  <2> SUFFICES ASSUME TypeOK, OverInv, AloneInv, NEW p \in Procs, Procs = {p}, CapDelete(p),
                      NEW i \in WithStatus({"pending", "sending", "parked"}),
                      row'[i].status = "deleted"
               PROVE  /\ Overflow > 0
                      /\ \A j \in Ids : row'[j].status \notin {"sent", "abandoned"}
    OBVIOUS
  <2>1. PICK D \in Trims(flush[p].level, flush[p].over) :
           /\ \A j \in D : row'[j].status = "deleted"
           /\ \A j \in Ids \ D : row'[j] = row[j]
    BY CapDeleteStep
  <2>2. flush[p].pc = "capdelete" /\ flush[p].level \in {"sent", "abandoned", "any"}
        /\ flush[p].over \in Nat
    BY FlushTyped DEF CapDelete, Flush
  <2>3. Overflow > 0
    BY <2>2 DEF OverInv, AloneInv
  <2>4. i \in Ids /\ row[i].status \in {"pending", "sending", "parked"}
    BY DEF WithStatus
  <2>5. i \in D
    BY <2>1, <2>4
  <2>6. flush[p].level = "any"
    BY <2>2, <2>4, <2>5, TrimsRows DEF WithStatus
  <2>7. WithStatus({"sent"}) = {} /\ WithStatus({"abandoned"}) = {}
    BY <2>2, <2>3, <2>6 DEF AloneInv
  <2>8. QED
    BY <2>1, <2>3, <2>7 DEF WithStatus
<1>2. CapInv => OverInv
  BY DEF CapInv
<1>3. QED
  BY <1>1, <1>2, InitTyped, InitCap, InitAlone, NextTyped, NextCap, NextAlone, PTL
     DEF Spec, CapShedsLast

===========================================================================
