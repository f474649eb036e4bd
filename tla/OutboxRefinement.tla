-------------------------- MODULE OutboxRefinement --------------------------
(***************************************************************************)
(* The outbox implements the delivery queue it promises: a row is an item, *)
(* 'pending' and 'processing' are both queued, and the gate of a           *)
(* session-mined candidate is its local approval.                          *)
(***************************************************************************)
EXTENDS Outbox

ItemState(s) ==
  CASE s = "none" -> "absent"
    [] s = "abandoned" -> "dead"
    [] s = "deleted" -> "gone"
    [] OTHER -> "queued"

GateState(r) ==
  IF r.kind = "session_mined_candidate" /\ ~r.approved THEN "closed" ELSE "open"

itemState == [i \in Ids |-> ItemState(row[i].status)]
itemGate == [i \in Ids |-> GateState(row[i])]
retiredItems == {i \in Ids : row[i].kind \in Retired}

Queue == INSTANCE DeliveryQueue WITH
  Items <- Ids,
  state <- itemState,
  gate <- itemGate,
  waived <- retiredItems,
  delivered <- received,
  cancelled <- rejected

\* Every behaviour of the outbox is one of the delivery queue: claims, stale
\* takeovers, lost answers and crashes never lose an item, finish one that the
\* cloud does not have, or deliver one past a closed gate.
ImplementsDeliveryQueue == Queue!QSpec

=============================================================================
