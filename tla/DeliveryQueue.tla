---------------------------- MODULE DeliveryQueue ----------------------------
(***************************************************************************)
(* What the cloud outbox promises, without processes, leases, breakers or  *)
(* time: at-least-once delivery behind a local review gate.  An item that  *)
(* was put stays until the cloud has it, unless its kind is waived or the  *)
(* user cancels it; it may be given up and revived any number of times;    *)
(* and it is delivered only while its gate is open.                        *)
(***************************************************************************)
CONSTANT Items

VARIABLES state, gate, waived, delivered, cancelled

qvars == <<state, gate, waived, delivered, cancelled>>

QInit ==
  /\ state = [i \in Items |-> "absent"]
  /\ gate = [i \in Items |-> "open"]
  /\ waived = {} /\ delivered = {} /\ cancelled = {}

Put(i) ==
  /\ state[i] = "absent"
  /\ state' = [state EXCEPT ![i] = "queued"]
  /\ \E g \in {"open", "closed"} : gate' = [gate EXCEPT ![i] = g]
  /\ waived' \in {waived, waived \cup {i}}
  /\ UNCHANGED <<delivered, cancelled>>

\* The user lets an item through; an item given up is tried again.
Open(i) ==
  /\ state[i] \in {"queued", "dead"}
  /\ state' = [state EXCEPT ![i] = "queued"]
  /\ gate' = [gate EXCEPT ![i] = "open"]
  /\ UNCHANGED <<waived, delivered, cancelled>>

\* A late or repeated request may deliver an item that has already left.
Deliver(S) ==
  /\ \A i \in S : state[i] # "absent" /\ gate[i] = "open"
  /\ delivered' = delivered \cup S
  /\ UNCHANGED <<state, gate, waived, cancelled>>

Finish(i) ==
  /\ i \in delivered \cup waived
  /\ state[i] # "absent"
  /\ state' = [state EXCEPT ![i] = "gone"]
  /\ UNCHANGED <<gate, waived, delivered, cancelled>>

Cancel(i) ==
  /\ state[i] \in {"queued", "dead"}
  /\ state' = [state EXCEPT ![i] = "gone"]
  /\ cancelled' = cancelled \cup {i}
  /\ UNCHANGED <<gate, waived, delivered>>

GiveUp(i) ==
  /\ state[i] \in {"queued", "dead"}
  /\ state' = [state EXCEPT ![i] = "dead"]
  /\ UNCHANGED <<gate, waived, delivered, cancelled>>

Revive(S) ==
  /\ \A i \in S : state[i] = "dead"
  /\ state' = [i \in Items |-> IF i \in S THEN "queued" ELSE state[i]]
  /\ UNCHANGED <<gate, waived, delivered, cancelled>>

QNext ==
  \/ \E i \in Items : Put(i) \/ Open(i) \/ Finish(i) \/ Cancel(i) \/ GiveUp(i)
  \/ \E S \in SUBSET Items : Deliver(S) \/ Revive(S)

QSpec == QInit /\ [][QNext]_qvars

=============================================================================
