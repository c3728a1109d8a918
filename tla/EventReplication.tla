--------------------------- MODULE EventReplication ---------------------------
(***************************************************************************)
(* PassiveEventReplicationWorker: the pass that carries the hook events of *)
(* one machine from its SQLite outbox to the inbox of a remote project and *)
(* drains that inbox.  The workers are the daemons of the sending machine, *)
(* which share its outbox, and those of other machines, which drain the    *)
(* same inbox and have nothing of their own to send.                       *)
(*                                                                         *)
(* A pass is a sequence of phases.  Each runs under a publication          *)
(* admission, which holds a lock of the home, and first re-reads the       *)
(* project's binding; between two phases the lock is free.  Inside a phase *)
(* every statement on either store is a step, and a process may die        *)
(* between two of them.                                                    *)
(***************************************************************************)
EXTENDS FencedLease, EventInbox

CONSTANTS
    Daemons,           \* the processes that run on the sending machine
    HomeProject,       \* the project first linked, and that of the other machines
    BatchSize,         \* batchSize
    QuarantineAfter,   \* quarantineAfterAttempts
    Unsafe,            \* <<w, e>>: the scrubber of w refuses to transmit e
    Unsupported,       \* <<w, e>>: the envelope version of e is too new for w
    MaxTrouble         \* bound: faults, slips, relinks and replays, together

ASSUME ReplicationAssumption ==
    /\ Daemons \subseteq Processes /\ NoWorker \notin Processes
    /\ HomeProject \in Projects /\ NoProject \notin Projects
    /\ BatchSize \in Nat \ {0} /\ QuarantineAfter \in Nat \ {0}
    /\ \A p \in Projects : <<p, "sender">> \in Resources
    /\ Processes # Daemons => <<HomeProject, "peer">> \in Resources

VARIABLES
    worker,    \* the pass of each process
    binding,   \* remoteProjectId of the sending machine's project
    replay,    \* the operator's replay under way, and the steps it has left
    trouble    \* how often so far: faults, failed or unanswered calls, refused
               \* admissions and deaths; slips, the clock surprising a running
               \* worker; relinks, `lcm project link` to another project;
               \* replays, `lcm events replay`

vars == <<leaseVars, outbox, inboxVars, worker, binding, replay, trouble>>

NoClaim == [event |-> 0, id |-> 0, attempts |-> 0]
NoReplay == [event |-> 0, project |-> NoProject, steps |-> {}]
Idle == [pc |-> "idle", project |-> NoProject, moved |-> FALSE, todo |-> {},
         view |-> <<>>, again |-> {}, second |-> FALSE, claim |-> NoClaim,
         budget |-> 0]

Init ==
    /\ LeaseInit /\ OutboxInit /\ InboxInit
    /\ worker = [w \in Processes |-> Idle]
    /\ binding = HomeProject
    /\ replay = NoReplay
    /\ trouble = [faults |-> 0, slips |-> 0, relinks |-> 0, replays |-> 0]

-----------------------------------------------------------------------------
\* Where a pass can be: before a phase, inside one, or outside of admission.
Between == {"upload", "renew", "fetch", "apply", "renewAgain", "reconcile", "prune"}
Inside == {"screen", "insert", "readback", "withdraw", "settle", "applying",
           "applyRead", "punish", "observe", "unbound", "requeue", "pruneRead", "pruned"}

\* The lock of the sending machine's home is free.
Free == \A d \in Daemons : worker[d].pc \notin Inside

\* Fault: a phase starts without waiting for the lock.
Unlocked(w) == TRUE

Admitted(w) == w \in Daemons => Free

BoundTo(w) == IF w \in Daemons THEN binding ELSE HomeProject
DrainLease(w, p) == <<p, IF w \in Daemons THEN "sender" ELSE "peer">>
Token(w) == held[w][DrainLease(w, worker[w].project)]
Holds(w) == Token(w) # 0 /\ Current(w, DrainLease(w, worker[w].project))

\* The other machines have no rows of this outbox: in the model their passes
\* consist of the claims.
FirstPhase(w) == IF w \in Daemons THEN "upload" ELSE "renew"
\* checkBinding, at the start of every phase.
Moved(w) == worker[w].moved \/ BoundTo(w) # worker[w].project

At(w, pc) == worker[w].pc = pc
Goto(w, pc) == [worker[w] EXCEPT !.pc = pc]
Becomes(w, state) == worker' = [worker EXCEPT ![w] = state]

EndPass(w) == [Idle EXCEPT !.pc = "release", !.project = worker[w].project]
ClaimsDone(w) ==
    IF w \notin Daemons THEN EndPass(w)
    ELSE [Goto(w, "reconcile") EXCEPT !.moved = Moved(w), !.claim = NoClaim, !.budget = 0]

\* What a phase leaves behind is dropped when it ends.
Done(w, pc) == [Goto(w, pc) EXCEPT !.todo = {}, !.view = <<>>, !.again = {},
                                   !.second = FALSE]

\* Rows are worked through in sequence order.
First(e, S) == \A d \in S : e <= d

Spend(kind) ==
    /\ trouble.faults + trouble.slips + trouble.relinks + trouble.replays < MaxTrouble
    /\ trouble' = [trouble EXCEPT ![kind] = @ + 1]
Fault == Spend("faults")
Slip == Spend("slips")

\* A record as the worker sees it.
Seen(row) ==
    [kind |-> IF row.status \in {"applied", "quarantined"} THEN row.status ELSE "open",
     id |-> row.id]

\* Claims nobody is working on any more; the others are fresh.
Claimant(w, e) ==
    /\ worker[w].claim.event = e /\ worker[w].claim.id = inbox[e].id
    /\ inbox[e].owner = w /\ inbox[e].token = Token(w)
Abandoned ==
    {e \in Events : inbox[e].status = "claimed" /\ ~\E w \in Processes : Claimant(w, e)}
AllClaims == {e \in Events : inbox[e].status = "claimed"}

-----------------------------------------------------------------------------
(* The start of a pass: the binding is read and the drain lease acquired.  *)
(* A pass that has nothing to do only draws a token; it is left out, so    *)
(* that the tokens of a behaviour are bounded by its work.                 *)
HasWork(w, p) ==
    \/ Claimable(p, Abandoned) # {}
    \/ /\ w \in Daemons
       /\ \/ \E e \in Deliverable : WithdrawOutcome(e, p, 0, Abandoned) # "busy"
          \/ \E e \in AwaitingRemote :
                \/ In(e, p) /\ Terminal(e)
                \/ WithdrawOutcome(e, p, outbox[e].inbox, Abandoned)
                       \notin {"bound", "busy", "mismatch"}
          \/ AwaitingPrune # {}

StartPass(w) ==
    /\ At(w, "idle") /\ Admitted(w) /\ HasWork(w, BoundTo(w))
    /\ acquireLease(w, DrainLease(w, BoundTo(w)))
    /\ Becomes(w, [Idle EXCEPT !.pc = FirstPhase(w),
                               !.project = BoundTo(w), !.budget = BatchSize])
    /\ UNCHANGED <<outbox, inboxVars, binding, replay, trouble>>

-----------------------------------------------------------------------------
(* Phase 1, uploadLocal.                                                   *)

\* Rows that are due are claimed in one statement.  Once the binding moved the
\* claim is answered with no rows.
ClaimLocal(w) ==
    /\ At(w, "upload") /\ Admitted(w)
    /\ \E S \in Prefixes(BatchSize) :
           /\ Moved(w) => S = {}
           /\ \/ Moved(w) /\ UNCHANGED trouble
              \/ (\A T \in Prefixes(BatchSize) : T \subseteq S) /\ UNCHANGED trouble
              \/ (\E T \in Prefixes(BatchSize) : ~(T \subseteq S)) /\ Slip
           /\ outbox' = claimDeliveries(S, w)
           /\ Becomes(w, [Goto(w, IF S = {} THEN "renew" ELSE "screen")
                            EXCEPT !.todo = S, !.moved = Moved(w)])
    /\ UNCHANGED <<leaseVars, inboxVars, binding, replay>>

\* Rows this worker may not send are quarantined before the others go out.
Refused(w) == {e \in worker[w].todo : <<w, e>> \in Unsafe \cup Unsupported}

ScreenOut(w) ==
    /\ At(w, "screen")
    /\ IF Refused(w) = {}
       THEN /\ Becomes(w, IF worker[w].todo = {} THEN Done(w, "renew") ELSE Goto(w, "insert"))
            /\ UNCHANGED outbox
       ELSE \E e \in Refused(w) :
                /\ First(e, Refused(w))
                /\ outbox' = [outbox EXCEPT ![e] = markDeliveryQuarantined(@, w)]
                /\ Becomes(w, [worker[w] EXCEPT !.todo = @ \ {e}])
    /\ UNCHANGED <<leaseVars, inboxVars, binding, replay, trouble>>

\* The batch is inserted as a whole, or the call fails - with or without having
\* committed.
Upload(w) ==
    /\ At(w, "insert")
    /\ LET S == worker[w].todo
           p == worker[w].project
       IN  \/ /\ CanInsert(S, p) /\ insertEvents(S, p)
              /\ \/ /\ Becomes(w, [Goto(w, "settle") EXCEPT
                                     !.view = [e \in S |-> Seen(inbox'[e])]])
                    /\ UNCHANGED trouble
                 \/ Becomes(w, Goto(w, "readback")) /\ Fault
           \/ /\ ~CanInsert(S, p)
              /\ Becomes(w, Goto(w, "readback"))
              /\ UNCHANGED <<inboxVars, trouble>>
           \/ /\ CanInsert(S, p) /\ Fault
              /\ Becomes(w, Goto(w, "readback"))
              /\ UNCHANGED inboxVars
    /\ UNCHANGED <<leaseVars, outbox, binding, replay>>

RetryAll(w) ==
    [Goto(w, "settle") EXCEPT !.view = [e \in worker[w].todo |-> [kind |-> "retry", id |-> 0]]]

\* settleFailedUpload: what the bound project holds decides how to go on.
ReadBack(w) ==
    /\ At(w, "readback")
    /\ LET S == worker[w].todo
           all == \A e \in S : In(e, worker[w].project)
       IN  \/ /\ UNCHANGED trouble
              /\ Becomes(w, IF all
                            THEN [Goto(w, "settle") EXCEPT !.view = [e \in S |-> Seen(inbox[e])]]
                            ELSE IF worker[w].second THEN RetryAll(w) ELSE Goto(w, "withdraw"))
           \/ Fault /\ Becomes(w, RetryAll(w))
    /\ UNCHANGED <<leaseVars, outbox, inboxVars, binding, replay>>

\* What releaseFromOtherProjects answers for the rows S; ids[e] is the inbox id
\* the caller knows.
Outcomes(S, p, ids, stale) ==
    [e \in S |-> [kind |-> WithdrawOutcome(e, p, ids[e], stale), id |-> inbox[e].id]]

Withdraw(w) ==
    /\ At(w, "withdraw")
    /\ LET S == worker[w].todo
           unknown == [e \in S |-> 0]
           Answer(stale) == Outcomes(S, worker[w].project, unknown, stale)
       IN  \/ \E stale \in {Abandoned, AllClaims} :
                 /\ releaseFromOtherProjects(Answer(stale))
                 /\ \/ /\ Becomes(w, [Goto(w, "settle") EXCEPT !.view = Answer(stale)])
                       /\ IF stale = Abandoned THEN UNCHANGED trouble ELSE Slip
                    \/ Becomes(w, RetryAll(w)) /\ stale = Abandoned /\ Fault
           \/ Becomes(w, RetryAll(w)) /\ Fault /\ UNCHANGED inboxVars
    /\ UNCHANGED <<leaseVars, outbox, binding, replay>>

\* The local row after the worker learned what became of its copy.
AfterUpload(row, w, seen) ==
    CASE seen.kind = "applied" -> markAcknowledged(row, seen.id)
      [] seen.kind = "quarantined" -> markQuarantined(row, seen.id)
      [] seen.kind = "open" -> markReplicated(row, w, seen.id)
      [] seen.kind \in {"retry", "busy"} -> markDeliveryRetry(row, w)
      [] OTHER -> row

\* Rows are accounted for one by one.  Those that can go now - withdrawn, absent
\* everywhere, or there already - are inserted once more, together.
SettleUpload(w) ==
    /\ At(w, "settle")
    /\ \E e \in worker[w].todo :
       LET seen == worker[w].view[e]
           keep == IF seen.kind \in {"absent", "released", "bound"} THEN {e} ELSE {}
           rest == worker[w].todo \ {e}
           again == worker[w].again \cup keep
       IN  /\ First(e, worker[w].todo)
           /\ outbox' = [outbox EXCEPT ![e] = AfterUpload(@, w, seen)]
           /\ Becomes(w, IF rest # {}
                         THEN [worker[w] EXCEPT !.todo = rest, !.again = again]
                         ELSE IF again = {} THEN Done(w, "renew")
                         ELSE [Done(w, "insert") EXCEPT !.todo = again, !.second = TRUE])
    /\ UNCHANGED <<leaseVars, inboxVars, binding, replay, trouble>>

-----------------------------------------------------------------------------
(* Phase 2, the claims: fetch, renew and apply, one phase each.            *)

\* The renewal that serves the first fetch ends the pass when it fails, a later
\* one ends the claiming.
Renew(w) ==
    /\ At(w, "renew") \/ At(w, "renewAgain")
    /\ Admitted(w)
    /\ Becomes(w, IF Holds(w) THEN [Goto(w, "fetch") EXCEPT !.moved = Moved(w)]
                  ELSE IF At(w, "renew") THEN EndPass(w) ELSE ClaimsDone(w))
    /\ UNCHANGED <<leaseVars, outbox, inboxVars, binding, replay, trouble>>

\* The fetch is not fenced.  It may find a claim stale whose worker is only
\* slow, or the answer may be lost after the claim is committed.
Fetch(w) ==
    /\ At(w, "fetch") /\ Admitted(w)
    /\ LET p == worker[w].project
       IN  \/ \E stale \in {Abandoned, AllClaims} : \E e \in Claimable(p, stale) :
                 /\ claimPassiveEvents(e, w, Token(w))
                 /\ \/ /\ Becomes(w, [Goto(w, "apply") EXCEPT
                                        !.moved = Moved(w), !.budget = @ - 1,
                                        !.claim = [event |-> e, id |-> inbox[e].id,
                                                   attempts |-> inbox[e].attempts + 1]])
                       /\ IF e \in Claimable(p, Abandoned) THEN UNCHANGED trouble ELSE Slip
                    \/ /\ e \in Claimable(p, Abandoned) /\ Fault
                       /\ Becomes(w, EndPass(w))
           \/ /\ Becomes(w, ClaimsDone(w))
              /\ IF Claimable(p, Abandoned) = {} THEN UNCHANGED trouble ELSE Slip
              /\ UNCHANGED inboxVars
    /\ UNCHANGED <<leaseVars, outbox, binding, replay>>

\* The pass goes on claiming while its own claims settle rows and the budget
\* lasts.
NextClaim(w, gain) ==
    IF gain /\ worker[w].budget > 0 THEN [Goto(w, "renewAgain") EXCEPT !.claim = NoClaim]
    ELSE ClaimsDone(w)

RenewForApply(w) ==
    /\ At(w, "apply") /\ Admitted(w)
    /\ Becomes(w, IF Holds(w) THEN [Goto(w, "applying") EXCEPT !.moved = Moved(w)]
                  ELSE ClaimsDone(w))
    /\ UNCHANGED <<leaseVars, outbox, inboxVars, binding, replay, trouble>>

\* The transaction that settles a claim: the fence, the claim, the new status.
Fenced(w) == assertLeaseFence(w, DrainLease(w, worker[w].project))
ClaimStands(w) == SameClaim(worker[w].claim, worker[w].project, w, Token(w))
CanSettle(w) == Holds(w) /\ ClaimStands(w)

\* completeApplied; on an error the row is read back.  An event of an
\* unsupported version is quarantined instead; an error is only reported, and
\* counts as progress when the row is found quarantined.
Apply(w) ==
    /\ At(w, "applying")
    /\ LET e == worker[w].claim.event
       IN  IF <<w, e>> \in Unsupported
           THEN \/ /\ CanSettle(w) /\ Fenced(w) /\ claimTransition(e, "quarantined")
                   /\ \/ Becomes(w, NextClaim(w, TRUE)) /\ UNCHANGED trouble
                      \/ Becomes(w, NextClaim(w, FALSE)) /\ Fault
                \/ /\ UNCHANGED <<leaseVars, inboxVars>>
                   /\ IF CanSettle(w) THEN Fault ELSE UNCHANGED trouble
                   /\ Becomes(w, NextClaim(w, In(e, worker[w].project)
                                               /\ inbox[e].status = "quarantined"))
           ELSE \/ /\ CanSettle(w) /\ Fenced(w) /\ completeApplied(e)
                   /\ \/ Becomes(w, NextClaim(w, TRUE)) /\ UNCHANGED trouble
                      \/ Becomes(w, Goto(w, "applyRead")) /\ Fault
                \/ /\ ~CanSettle(w) /\ UNCHANGED <<leaseVars, inboxVars, trouble>>
                   /\ Becomes(w, Goto(w, "applyRead"))
                \/ /\ CanSettle(w) /\ Fault /\ UNCHANGED <<leaseVars, inboxVars>>
                   /\ Becomes(w, Goto(w, "applyRead"))
    /\ UNCHANGED <<outbox, binding, replay>>

ReadBackClaim(w) ==
    /\ At(w, "applyRead")
    /\ LET e == worker[w].claim.event
           there == In(e, worker[w].project)
           mine == there /\ inbox[e].status = "claimed" /\ inbox[e].owner = w
                   /\ inbox[e].token = Token(w)
       IN  \/ /\ Becomes(w, IF mine THEN Goto(w, "punish")
                            ELSE NextClaim(w, there /\ inbox[e].status = "applied"))
              /\ UNCHANGED trouble
           \/ Becomes(w, NextClaim(w, FALSE)) /\ Fault
    /\ UNCHANGED <<leaseVars, outbox, inboxVars, binding, replay>>

\* A claim that could not be completed is retried later, or quarantined after
\* enough attempts.  An error here ends the pass.
Punish(w) ==
    /\ At(w, "punish")
    /\ LET poison == worker[w].claim.attempts >= QuarantineAfter
       IN  \/ /\ CanSettle(w) /\ Fenced(w)
              /\ claimTransition(worker[w].claim.event,
                                 IF poison THEN "quarantined" ELSE "retry")
              /\ \/ Becomes(w, NextClaim(w, poison)) /\ UNCHANGED trouble
                 \/ Becomes(w, EndPass(w)) /\ Fault
           \/ /\ Becomes(w, EndPass(w))
              /\ IF CanSettle(w) THEN Fault ELSE UNCHANGED trouble
              /\ UNCHANGED <<leaseVars, inboxVars>>
    /\ UNCHANGED <<outbox, binding, replay>>

-----------------------------------------------------------------------------
(* Phase 3, reconcileLocal: rows that wait for the remote outcome.         *)
Reconcile(w) ==
    /\ At(w, "reconcile") /\ Admitted(w)
    /\ LET S == AwaitingRemote
           Look(e) == IF In(e, worker[w].project) THEN Seen(inbox[e])
                      ELSE [kind |-> "missing", id |-> 0]
       IN  Becomes(w, [Goto(w, IF S = {} THEN "prune" ELSE "observe") EXCEPT
                         !.moved = Moved(w), !.todo = S, !.view = [e \in S |-> Look(e)]])
    /\ UNCHANGED <<leaseVars, outbox, inboxVars, binding, replay, trouble>>

\* Applied and quarantined rows are settled; rows the bound project does not
\* have go on to the recovery.
Observe(w) ==
    /\ At(w, "observe")
    /\ \E e \in worker[w].todo :
       LET seen == worker[w].view[e]
           rest == worker[w].todo \ {e}
           again == worker[w].again \cup IF seen.kind = "missing" THEN {e} ELSE {}
       IN  /\ First(e, worker[w].todo)
           /\ outbox' = [outbox EXCEPT ![e] =
                            CASE seen.kind = "applied" -> markAcknowledged(@, seen.id)
                              [] seen.kind = "quarantined" -> markQuarantined(@, seen.id)
                              [] OTHER -> @]
           /\ Becomes(w, IF rest # {}
                         THEN [worker[w] EXCEPT !.todo = rest, !.again = again]
                         ELSE IF again = {} THEN Done(w, "prune")
                         ELSE [Done(w, "unbound") EXCEPT !.todo = again])
    /\ UNCHANGED <<leaseVars, inboxVars, binding, replay, trouble>>

\* recoverUnbound: rows that may not be sent are quarantined where they are, the
\* copies of the others in other projects are withdrawn, unless the binding has
\* moved under the pass: then the call is answered with no outcomes.
WithdrawUnbound(w) ==
    /\ At(w, "unbound")
    /\ LET S == worker[w].todo
           unsafe == {e \in S : <<w, e>> \in Unsafe}
           known == [e \in S |-> outbox[e].inbox]
           Answer(stale) == Outcomes(S, worker[w].project, known, stale)
       IN  IF unsafe # {}
           THEN \E e \in unsafe :
                    /\ First(e, unsafe)
                    /\ outbox' = [outbox EXCEPT ![e] = markQuarantined(@, @.inbox)]
                    /\ Becomes(w, IF S = {e} THEN Done(w, "prune")
                                  ELSE [worker[w] EXCEPT !.todo = @ \ {e}])
                    /\ UNCHANGED <<inboxVars, trouble>>
           ELSE /\ UNCHANGED outbox
                /\ \/ /\ worker[w].moved /\ Becomes(w, Done(w, "prune"))
                      /\ UNCHANGED <<inboxVars, trouble>>
                   \/ /\ ~worker[w].moved
                      /\ \E stale \in {Abandoned, AllClaims} :
                            /\ releaseFromOtherProjects(Answer(stale))
                            /\ \/ /\ Becomes(w, [Goto(w, "requeue") EXCEPT !.view = Answer(stale)])
                                  /\ IF stale = Abandoned THEN UNCHANGED trouble ELSE Slip
                               \/ Becomes(w, Done(w, "prune")) /\ stale = Abandoned /\ Fault
                   \/ /\ ~worker[w].moved /\ Becomes(w, Done(w, "prune"))
                      /\ Fault /\ UNCHANGED inboxVars
    /\ UNCHANGED <<leaseVars, binding, replay>>

\* Fault: a copy that is nowhere is taken for one that was applied and pruned.
AbsentIsApplied(row, seen) ==
    CASE seen.kind = "released" -> requeueReplicated(row, row.inbox)
      [] seen.kind \in {"absent", "applied"} -> markAcknowledged(row, row.inbox)
      [] seen.kind = "quarantined" -> markQuarantined(row, seen.id)
      [] OTHER -> row

AfterWithdraw(row, seen) ==
    CASE seen.kind \in {"absent", "released"} -> requeueReplicated(row, row.inbox)
      [] seen.kind = "applied" -> markAcknowledged(row, seen.id)
      [] seen.kind = "quarantined" -> markQuarantined(row, seen.id)
      [] OTHER -> row

Requeue(w) ==
    /\ At(w, "requeue")
    /\ \E e \in worker[w].todo :
           /\ First(e, worker[w].todo)
           /\ outbox' = [outbox EXCEPT ![e] = AfterWithdraw(@, worker[w].view[e])]
           /\ Becomes(w, IF worker[w].todo = {e} THEN Done(w, "prune")
                         ELSE [worker[w] EXCEPT !.todo = @ \ {e}])
    /\ UNCHANGED <<leaseVars, inboxVars, binding, replay, trouble>>

-----------------------------------------------------------------------------
(* Phase 4, pruneAcknowledged, and the end of the pass.                    *)

\* The applied copies are deleted.  Unless the count proves that all of them
\* are gone, the rows are read back.
PruneRemote(w) ==
    /\ At(w, "prune") /\ Admitted(w)
    /\ LET keys == AwaitingPrune
           gone == {e \in keys : Prunable(e, worker[w].project, outbox[e].inbox)}
           Onward(pc) == [Goto(w, pc) EXCEPT !.todo = keys, !.moved = Moved(w)]
       IN  \/ keys = {} /\ Becomes(w, EndPass(w)) /\ UNCHANGED <<inboxVars, trouble>>
           \/ /\ keys # {}
              /\ \/ inbox' = Deleted(gone) /\ UNCHANGED <<copies, applied>>
                    /\ \/ Becomes(w, Onward(IF gone = keys THEN "pruned" ELSE "pruneRead"))
                          /\ UNCHANGED trouble
                       \/ Becomes(w, Onward("pruneRead")) /\ Fault
                 \/ Becomes(w, Onward("pruneRead")) /\ Fault /\ UNCHANGED inboxVars
    /\ UNCHANGED <<leaseVars, outbox, binding, replay>>

PruneRead(w) ==
    /\ At(w, "pruneRead")
    /\ LET proven == {e \in worker[w].todo : ~In(e, worker[w].project)}
       IN  \/ /\ Becomes(w, IF proven = {} THEN EndPass(w)
                            ELSE [Goto(w, "pruned") EXCEPT !.todo = proven])
              /\ UNCHANGED trouble
           \/ Becomes(w, EndPass(w)) /\ Fault
    /\ UNCHANGED <<leaseVars, outbox, inboxVars, binding, replay>>

PruneLocal(w) ==
    /\ At(w, "pruned")
    /\ \E e \in worker[w].todo :
           /\ First(e, worker[w].todo)
           /\ outbox' = [outbox EXCEPT ![e] = markRemotePruned(@)]
           /\ Becomes(w, IF worker[w].todo = {e} THEN EndPass(w)
                         ELSE [worker[w] EXCEPT !.todo = @ \ {e}])
    /\ UNCHANGED <<leaseVars, inboxVars, binding, replay, trouble>>

\* The lease is given back in a finally block, outside of any admission.
Release(w) ==
    /\ At(w, "release")
    /\ LET r == DrainLease(w, worker[w].project)
       IN  \/ releaseLease(w, r) /\ UNCHANGED trouble
           \/ forgetLease(w, r) /\ Fault
    /\ Becomes(w, Idle)
    /\ UNCHANGED <<outbox, inboxVars, binding, replay>>

\* A phase is not admitted (the lock is contended, the backend switched), or its
\* first call fails: the pass ends.
Abort(w) ==
    /\ worker[w].pc \in Between
    /\ Becomes(w, EndPass(w))
    /\ Fault
    /\ UNCHANGED <<leaseVars, outbox, inboxVars, binding, replay>>

\* The process dies, and another takes its place.  Its locks go with it, its
\* claims and its lease do not.  The new process has an id of its own; the model
\* keeps the name, which nothing can confuse: the token it draws is new, and it
\* settles only rows it has claimed itself.
Crash(w) ==
    /\ worker[w].pc # "idle"
    /\ forgetLease(w, DrainLease(w, worker[w].project))
    /\ Becomes(w, Idle)
    /\ Fault
    /\ UNCHANGED <<outbox, inboxVars, binding, replay>>

Step(w) ==
    \/ StartPass(w) \/ ClaimLocal(w) \/ ScreenOut(w) \/ Upload(w) \/ ReadBack(w)
    \/ Withdraw(w) \/ SettleUpload(w) \/ Renew(w) \/ Fetch(w) \/ RenewForApply(w)
    \/ Apply(w) \/ ReadBackClaim(w) \/ Punish(w) \/ Reconcile(w) \/ Observe(w)
    \/ WithdrawUnbound(w) \/ Requeue(w) \/ PruneRemote(w) \/ PruneRead(w)
    \/ PruneLocal(w) \/ Release(w)

-----------------------------------------------------------------------------
(* The rest of the world: hooks, local retention, the operator, the clock. *)

AppendEvent(e) ==
    /\ Free /\ insertEvent(e)
    /\ UNCHANGED <<leaseVars, inboxVars, worker, binding, replay, trouble>>

Retain(e) ==
    /\ Free /\ pruneProcessed(e)
    /\ UNCHANGED <<leaseVars, inboxVars, worker, binding, replay, trouble>>

Relink(p) ==
    /\ Free /\ p # binding
    /\ binding' = p /\ Spend("relinks")
    /\ UNCHANGED <<leaseVars, outbox, inboxVars, worker, replay>>

\* `lcm events replay`: the copy in the bound project is looked at, the local
\* row is replayed under the lock, and after it the copy, if it was found
\* quarantined.  Nothing holds the lock from one step to the next.
ReplayRead(e) ==
    /\ replay = NoReplay
    /\ LET remote == In(e, binding) /\ inbox[e].status = "quarantined"
       IN  /\ remote \/ outbox[e].state = "quarantined"
           /\ replay' = [event |-> e, project |-> binding,
                         steps |-> {"local"} \cup IF remote THEN {"remote"} ELSE {}]
    /\ Spend("replays")
    /\ UNCHANGED <<leaseVars, outbox, inboxVars, worker, binding>>

ReplayLocal ==
    /\ "local" \in replay.steps /\ Free
    /\ outbox' = [outbox EXCEPT ![replay.event] = replayQuarantinedRow(@)]
    /\ replay' = IF replay.steps = {"local"} THEN NoReplay ELSE [replay EXCEPT !.steps = {"remote"}]
    /\ UNCHANGED <<leaseVars, inboxVars, worker, binding, trouble>>

ReplayRemote ==
    /\ replay.steps = {"remote"}
    /\ \/ replayQuarantined(replay.event, replay.project)
       \/ UNCHANGED inboxVars      \* the command dies or the call fails
    /\ replay' = NoReplay
    /\ UNCHANGED <<leaseVars, outbox, worker, binding, trouble>>

InUse(r) == \E w \in Processes : Owned(w, r) /\ held[w][r] # 0

LeaseRunsOut(r) ==
    /\ expireLease(r)
    /\ IF InUse(r) THEN Slip ELSE UNCHANGED trouble
    /\ UNCHANGED <<outbox, inboxVars, worker, binding, replay>>

World ==
    \/ \E e \in Events : AppendEvent(e) \/ Retain(e) \/ ReplayRead(e)
    \/ \E p \in Projects : Relink(p)
    \/ ReplayLocal \/ ReplayRemote
    \/ \E r \in Resources : LeaseRunsOut(r)

Next == World \/ \E w \in Processes : Step(w) \/ Abort(w) \/ Crash(w)

Spec == Init /\ [][Next]_vars

\* The sweep starts a pass again and again and a running process goes on; a
\* lease nobody renews runs out.
FairSpec ==
    /\ Spec
    /\ \A w \in Processes : WF_vars(Step(w))
    /\ \A r \in Resources : WF_vars(~InUse(r) /\ LeaseRunsOut(r))

-----------------------------------------------------------------------------
TypeOK ==
    /\ LeaseTypeOK
    /\ \A e \in Events :
        /\ outbox[e].state \in OutboxStates
        /\ outbox[e].owner \in Processes \cup {NoWorker}
        /\ outbox[e].inbox <= copies[e]
        /\ inbox[e].id <= copies[e]
        /\ inbox[e].status \in {"none", "pending", "claimed", "retry", "applied", "quarantined"}
        /\ inbox[e].project \in Projects \cup {NoProject}
    /\ \A w \in Processes :
        /\ worker[w].pc \in {"idle", "release"} \cup Between \cup Inside
        /\ worker[w].todo \subseteq Events
    /\ Cardinality({d \in Daemons : worker[d].pc \in Inside}) <= 1

(* A row the outbox calls acknowledged, or has deleted, was applied: no    *)
(* interleaving of passes, crashes and relinks lets local retention drop   *)
(* an event that did not arrive (markAcknowledged, pruneProcessed).        *)
AcknowledgedIsApplied ==
    \A e \in Events : outbox[e].state \in {"acknowledged", "deleted"} => applied[e] > 0

(* While the project stays linked an event becomes applied at most once,   *)
(* whatever is retried: a settled or pruned event is never inserted again  *)
(* (insertEvents, completeApplied, pruneApplied).  After a relink only a   *)
(* failure between the withdrawal and the local update delivers it twice.  *)
AppliedOnce ==
    (trouble.relinks = 0 \/ trouble.faults = 0) => \A e \in Events : applied[e] <= 1

(* While the project stays linked, and nothing is replayed, an event is    *)
(* applied only after every earlier one was applied or is quarantined      *)
(* (claimDeliveries takes prefixes, claimPassiveEvents heads).             *)
AppliedInOrder ==
    (trouble.relinks = 0 /\ trouble.replays = 0) =>
        \A d, e \in Events :
            d < e /\ applied[e] > 0 =>
                applied[d] > 0 \/ "quarantined" \in {outbox[d].state, inbox[d].status}

(* While the project stays linked, a row that is recorded as pruned has no *)
(* copy left in the inbox (pruneAcknowledged).                             *)
PrunedIsGone ==
    trouble.relinks = 0 =>
        \A e \in Events : (outbox[e].pruned \/ outbox[e].state = "deleted") => ~Stored(e)

(* Every captured event is acknowledged or quarantined in the end: retries,*)
(* lost leases and dead daemons only postpone it.                          *)
Delivered ==
    \A e \in Events :
        (outbox[e].state # "absent") ~>
            (outbox[e].state \in {"acknowledged", "quarantined", "deleted"})

(* A row whose copy was applied is not left quarantined: the pass observes *)
(* a replay once its remote transition is made.                            *)
ReplayObserved ==
    \A e \in Events :
        replay = NoReplay /\ outbox[e].state = "quarantined" =>
            ~(inbox[e].status = "applied" /\ inbox[e].id = outbox[e].inbox)
=============================================================================
