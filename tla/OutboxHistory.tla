---------------------------- MODULE OutboxHistory ----------------------------
(***************************************************************************)
(* Outbox with history variables: since when each drain has been holding   *)
(* rows, and whether any drain ever held one past the stale threshold.     *)
(* They observe the steps of Outbox and restrict none.                     *)
(***************************************************************************)
EXTENDS Outbox

VARIABLES hold, overrun

hvars == <<vars, hold, overrun>>

Owned(p) == task[p].held \cup ({task[p].cur} \ {NoId})

HInit ==
  /\ Init
  /\ hold = [p \in Procs |-> 0]
  /\ overrun = FALSE

HNext ==
  /\ Next
  /\ hold' = [p \in Procs |->
                IF Owned(p)' = {} THEN 0
                ELSE IF Tick THEN Grow(hold[p], MaxClaimAge) ELSE hold[p]]
  /\ overrun' = (overrun \/ \E p \in Procs : hold'[p] > Stale)

HSpec == HInit /\ [][HNext]_hvars

\* Two processes work on the same row only after some drain overran the stale
\* threshold: crashes, SQL errors and failures recorded late never hand a row
\* to a second process while every drain keeps within it (claim_next's stale
\* cutoff, outbox.rs:399-436).  A candidate is the exception: an approval that
\* comes late requeues it under the drain that holds it (memory_inbox.rs:952-985).
ExclusiveUnlessOverrun ==
  ~overrun => \A p, q \in Procs : p # q =>
    \A i \in Owned(p) \cap Owned(q) : row[i].kind = "session_mined_candidate"

=============================================================================
