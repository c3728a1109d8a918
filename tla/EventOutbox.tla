----------------------------- MODULE EventOutbox -----------------------------
(***************************************************************************)
(* The delivery half of the local hook outbox (EventsDb): the SQLite row   *)
(* of each captured event and the transitions the replication worker, the  *)
(* operator's `lcm events replay` and local retention make on it.  Events  *)
(* are named by their machine_sequence.  Each operator is one UPDATE whose *)
(* WHERE clause may match nothing; it gives the row after the statement.   *)
(*                                                                         *)
(* Left out: processed_at (promotion sets it, delivery does not read it;   *)
(* retention may delete a drained row as soon as it is set), the texts and *)
(* times of errors, and delivery_attempts, which only decide about copies  *)
(* that differ from their row - a row cannot change once it was claimed.   *)
(***************************************************************************)
EXTENDS Naturals, FiniteSets

CONSTANTS
    Events,     \* machine_sequence of the events captured on this machine
    NoWorker    \* delivery_owner NULL

ASSUME EventsAssumption == IsFiniteSet(Events) /\ Events \subseteq Nat

VARIABLE outbox   \* the row of each event

OutboxStates == {"absent", "pending", "claimed", "retry", "replicated",
                 "acknowledged", "quarantined", "deleted"}

\* inbox is remote_inbox_id (0 for NULL), pruned is remote_pruned_at.
NewRow(state) == [state |-> state, owner |-> NoWorker, inbox |-> 0, pruned |-> FALSE]

OutboxInit == outbox = [e \in Events |-> NewRow("absent")]

Settled(row, state, inbox) ==
    [row EXCEPT !.state = state, !.owner = NoWorker, !.inbox = inbox]

-----------------------------------------------------------------------------
\* The sequence is allocated and the row inserted under the append barrier, so
\* rows appear in sequence order.
insertEvent(e) ==
    /\ outbox[e].state = "absent"
    /\ \A d \in Events : d < e => outbox[d].state # "absent"
    /\ outbox' = [outbox EXCEPT ![e] = NewRow("pending")]

\* Fault: a claim is never given out again.
WithoutStaleClaims == {e \in Events : outbox[e].state \in {"pending", "retry"}}

\* Rows that still have to go out.  A claimed one belongs to a worker that
\* gave up or died (its claim is stale): claims are settled in the phase, and
\* under the lock, that makes them.
Deliverable == {e \in Events : outbox[e].state \in {"pending", "retry", "claimed"}}

\* Fault: any due rows are taken, not a prefix of the deliverable ones.
AnyDue(limit) == {S \in SUBSET Deliverable : Cardinality(S) <= limit}

\* A claim takes rows in sequence order up to the limit, and stops at the first
\* one that is not due: the prefixes of the deliverable rows.
Prefixes(limit) ==
    {S \in SUBSET Deliverable :
        /\ Cardinality(S) <= limit
        /\ \A e \in S, d \in Deliverable : d < e => d \in S}

claimDeliveries(S, w) ==
    [e \in Events |-> IF e \in S THEN [outbox[e] EXCEPT !.state = "claimed", !.owner = w]
                      ELSE outbox[e]]

Claimed(row, w) == row.state = "claimed" /\ row.owner = w

markReplicated(row, w, id) ==
    IF Claimed(row, w) THEN Settled(row, "replicated", id) ELSE row

markDeliveryRetry(row, w) ==
    IF Claimed(row, w) THEN Settled(row, "retry", row.inbox) ELSE row

markDeliveryQuarantined(row, w) ==
    IF Claimed(row, w) /\ row.inbox = 0 THEN Settled(row, "quarantined", 0) ELSE row

requeueReplicated(row, id) ==
    IF row.state = "replicated" /\ row.inbox = id THEN Settled(row, "pending", 0) ELSE row

SameCopy(row, id) == row.inbox \in {0, id}

markAcknowledged(row, id) ==
    IF SameCopy(row, id) /\ row.state # "acknowledged"
    THEN Settled(row, "acknowledged", id) ELSE row

markQuarantined(row, id) ==
    IF SameCopy(row, id) /\ row.state # "acknowledged"
    THEN Settled(row, "quarantined", id) ELSE row

replayQuarantinedRow(row) ==
    IF row.state # "quarantined" THEN row
    ELSE [row EXCEPT !.state = IF row.inbox = 0 THEN "pending" ELSE "replicated"]

AwaitingRemote == {e \in Events : outbox[e].state = "replicated" /\ outbox[e].inbox # 0}

AwaitingPrune ==
    {e \in Events : outbox[e].state = "acknowledged" /\ outbox[e].inbox # 0
                    /\ ~outbox[e].pruned}

markRemotePruned(row) ==
    IF row.state = "acknowledged" /\ row.inbox # 0 THEN [row EXCEPT !.pruned = TRUE] ELSE row

\* Fault: retention does not wait for the remote prune.
Unpruned(row) == row.state = "acknowledged"

Drained(row) == row.state = "acknowledged" /\ row.pruned

\* Retention of an install that replicates: drained rows only.
pruneProcessed(e) ==
    /\ Drained(outbox[e])
    /\ outbox' = [outbox EXCEPT ![e] = NewRow("deleted")]
=============================================================================
