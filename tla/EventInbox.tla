------------------------------ MODULE EventInbox ------------------------------
(***************************************************************************)
(* lcm.passive_event_inbox, the table in PostgreSQL that receives one      *)
(* machine's events, and the transactions on it: idempotent insertion, the *)
(* ordered claim, the settlement of a claim, pruning, replay, and the      *)
(* withdrawal of copies from other projects after a relink.  Events are    *)
(* named by machine_sequence; (machine_id, event_id) is unique in the      *)
(* table, so an event has at most one row whatever the project.            *)
(*                                                                         *)
(* Each operator is one transaction: it gives the table after the commit.  *)
(***************************************************************************)
EXTENDS EventOutbox

CONSTANTS
    Projects,    \* remote projects the sender may be linked to
    NoProject    \* no row

VARIABLES
    inbox,       \* the row of each event
    copies,      \* rows inserted for each event so far: the source of inbox_id
    applied      \* history: times each event became applied

inboxVars == <<inbox, copies, applied>>

Missing == [project |-> NoProject, id |-> 0, status |-> "none", owner |-> NoWorker,
            token |-> 0, attempts |-> 0]

InboxInit ==
    /\ inbox = [e \in Events |-> Missing]
    /\ copies = [e \in Events |-> 0]
    /\ applied = [e \in Events |-> 0]

Stored(e) == inbox[e].status # "none"
In(e, p) == Stored(e) /\ inbox[e].project = p
Elsewhere(e, p) == Stored(e) /\ inbox[e].project # p
Terminal(e) == inbox[e].status \in {"applied", "quarantined"}

Unclaimed(row, status) ==
    [row EXCEPT !.status = status, !.owner = NoWorker, !.token = 0]

-----------------------------------------------------------------------------
\* ON CONFLICT DO NOTHING and a readback: the batch commits as a whole unless
\* one of its events is held by another project.
CanInsert(S, p) == \A e \in S : ~Elsewhere(e, p)

insertEvents(S, p) ==
    LET new == {e \in S : ~Stored(e)}
    IN  /\ inbox' = [e \in Events |->
                        IF e \in new
                        THEN [Missing EXCEPT !.project = p, !.id = copies[e] + 1,
                                             !.status = "pending"]
                        ELSE inbox[e]]
        /\ copies' = [e \in Events |-> IF e \in new THEN copies[e] + 1 ELSE copies[e]]
        /\ UNCHANGED applied

\* Fault: only claimed predecessors hold an event back.
BehindClaims(e, p) ==
    \E d \in Events : d < e /\ In(d, p) /\ inbox[d].status = "claimed"

\* An earlier event of the machine is not finished in this project.
Behind(e, p) == \E d \in Events : d < e /\ In(d, p) /\ ~Terminal(d)

\* The event a claim of project p can take.  stale is the claimed rows whose
\* claim is older than staleClaimMs.
Claimable(p, stale) ==
    {e \in Events :
        /\ In(e, p) /\ ~Behind(e, p)
        /\ inbox[e].status \in {"pending", "retry"} \/ e \in stale}

claimPassiveEvents(e, w, token) ==
    /\ inbox' = [inbox EXCEPT ![e].status = "claimed", ![e].owner = w,
                              ![e].token = token, ![e].attempts = @ + 1]
    /\ UNCHANGED <<copies, applied>>

\* assertClaim: the row is the one that was claimed and the claim is unchanged.
SameClaim(claim, p, w, token) ==
    /\ In(claim.event, p)
    /\ LET row == inbox[claim.event]
       IN  /\ row.id = claim.id /\ row.status = "claimed"
           /\ row.owner = w /\ row.token = token
           /\ row.attempts = claim.attempts

completeApplied(e) ==
    /\ inbox' = [inbox EXCEPT ![e] = Unclaimed(@, "applied")]
    /\ applied' = [applied EXCEPT ![e] = @ + 1]
    /\ UNCHANGED copies

\* scheduleRetry and quarantine.
claimTransition(e, status) ==
    /\ inbox' = [inbox EXCEPT ![e] = Unclaimed(@, status)]
    /\ UNCHANGED <<copies, applied>>

replayQuarantined(e, p) ==
    /\ inbox' = IF In(e, p) /\ inbox[e].status = "quarantined"
                THEN [inbox EXCEPT ![e] = Unclaimed(@, "pending")] ELSE inbox
    /\ UNCHANGED <<copies, applied>>

Deleted(S) == [e \in Events |-> IF e \in S THEN Missing ELSE inbox[e]]

Prunable(e, p, id) == In(e, p) /\ inbox[e].id = id /\ inbox[e].status = "applied"

\* The copy the caller knows is not the one that is there.
OtherCopy(e, id) == id \notin {0, inbox[e].id}

\* Fault: an applied copy is withdrawn like an undelivered one.
AppliedIsReleased(e, p, id, stale) ==
    CASE ~Stored(e) -> "absent"
      [] In(e, p) -> "bound"
      [] Elsewhere(e, p) /\ OtherCopy(e, id) -> "mismatch"
      [] OTHER -> IF inbox[e].status = "quarantined" THEN "quarantined" ELSE "released"

\* id is 0 when the caller does not know the copy it asks about.
WithdrawOutcome(e, p, id, stale) ==
    CASE ~Stored(e) -> "absent"
      [] In(e, p) -> "bound"
      [] Elsewhere(e, p) /\ OtherCopy(e, id) -> "mismatch"
      [] OTHER ->
            CASE inbox[e].status = "quarantined" -> "quarantined"
              [] inbox[e].status = "claimed" /\ e \notin stale -> "busy"
              [] inbox[e].status = "applied" -> "applied"
              [] OTHER -> "released"

\* Copies in other projects that are applied or undelivered are deleted.
releaseFromOtherProjects(outcomes) ==
    /\ inbox' = Deleted({e \in DOMAIN outcomes : outcomes[e].kind \in {"applied", "released"}})
    /\ UNCHANGED <<copies, applied>>
=============================================================================
