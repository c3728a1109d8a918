------------------------ MODULE EventReplicationProofs ------------------------
(***************************************************************************)
(* What the replication promises, for any processes, projects and events.  *)
(*                                                                         *)
(* The invariants come in layers, each inductive over the ones before it:  *)
(*   Core         types, places, the lock, the ids (EventReplicationTypes) *)
(*   Custody      what a pass knows of the rows it has in hand, so that    *)
(*                AcknowledgedIsApplied                                    *)
(*   Once         while the project stays linked: one project, no copy of  *)
(*                a row recorded as pruned, so that PrunedIsGone; and no   *)
(*                second copy of an event once applied, so that AppliedOnce*)
(*   Ordered      while nothing is replayed either: what arrived, and what *)
(*                a pass is sending, so that AppliedInOrder                *)
(*                                                                         *)
(* A daemon in a phase has the lock of its home.  The others can then only *)
(* claim, settle claims, end their passes or die, so what it has read of   *)
(* the outbox stays true until the phase ends.                             *)
(***************************************************************************)
EXTENDS EventReplicationTypes

UploadPcs == {"screen", "insert", "readback", "withdraw", "settle"}
RemotePcs == {"observe", "unbound", "requeue"}
BusyPcs == UploadPcs \cup RemotePcs \cup {"pruneRead", "pruned"}

-----------------------------------------------------------------------------
(* The steps that are made with no rows in hand.                           *)

Resting(w) ==
  \/ StartPass(w) \/ Renew(w) \/ Fetch(w) \/ RenewForApply(w) \/ Apply(w) \/ ReadBackClaim(w)
  \/ Punish(w) \/ Release(w) \/ Abort(w) \/ Crash(w)

\* What they do to the inbox: a claim, its end, or nothing.
Claims(w) ==
  \E e \in Events, stale \in {Abandoned, AllClaims} :
    /\ e \in Claimable(worker[w].project, stale)
    /\ RowMoves(e, "claimed") /\ AppliedKept
Fails ==
  \E e \in Events, st \in {"quarantined", "retry"} :
    /\ inbox[e].status = "claimed" /\ RowMoves(e, st) /\ AppliedKept
Applies ==
  \E e \in Events :
    /\ inbox[e].status = "claimed" /\ RowMoves(e, "applied")
    /\ applied' = [applied EXCEPT ![e] = applied[e] + 1]
InboxMoves(w) == InboxKept \/ Claims(w) \/ Fails \/ Applies

LEMMA RestingStep ==
  ASSUME Core, NEW w \in Processes, Resting(w)
  PROVE  RowsKept /\ worker'[w].pc \notin BusyPcs /\ InboxMoves(w)
<1>0. Types /\ Sound(w)
  BY CoreParts
<1>1. CASE StartPass(w)
  <2>1. RowsKept /\ InboxKept /\ worker'[w].pc = FirstPhase(w)
    BY <1>0, <1>1, StartPassStep
  <2> QED
    BY <2>1 DEF FirstPhase, BusyPcs, UploadPcs, RemotePcs, InboxMoves
<1>2. CASE Renew(w)
  <2>1. RowsKept /\ InboxKept /\ Turns(w, {"fetch", "release", AfterClaims(w)})
    BY <1>0, <1>2, RenewStep
  <2> QED
    BY <2>1 DEF Turns, AfterClaims, BusyPcs, UploadPcs, RemotePcs, InboxMoves
<1>3. CASE Fetch(w)
  <2>0. Token(w) \in Nat
    BY <1>3, CoreParts DEF Fetch, At
  <2>1. /\ RowsKept
        /\ \/ Claims(w) /\ (Turns(w, {"apply"}) \/ Turns(w, {"release"}))
           \/ InboxKept /\ Turns(w, {AfterClaims(w)})
    BY <1>0, <1>3, <2>0, FetchStep DEF Claims
  <2> QED
    BY <2>1 DEF Turns, AfterClaims, BusyPcs, UploadPcs, RemotePcs, InboxMoves
<1>4. CASE RenewForApply(w)
  <2>1. RowsKept /\ InboxKept /\ (Turns(w, {"applying"}) \/ Turns(w, {AfterClaims(w)}))
    BY <1>0, <1>4, RenewForApplyStep
  <2> QED
    BY <2>1 DEF Turns, AfterClaims, BusyPcs, UploadPcs, RemotePcs, InboxMoves
<1>5. CASE Apply(w)
  <2>0. worker[w].claim.event \in Events
    BY <1>0, <1>5 DEF Sound, ClaimPcs, Apply, At
  <2>1. /\ RowsKept /\ (InboxKept \/ Fails \/ Applies)
        /\ Turns(w, Onwards(w)) \/ Turns(w, {"applyRead"})
    BY <1>0, <1>5, <2>0, ApplyStep DEF Fails, Applies, Settles
  <2> QED
    BY <2>1 DEF Turns, Onwards, AfterClaims, BusyPcs, UploadPcs, RemotePcs, InboxMoves
<1>6. CASE ReadBackClaim(w)
  <2>1. RowsKept /\ InboxKept /\ (Turns(w, Onwards(w)) \/ Turns(w, {"punish"}))
    BY <1>0, <1>6, ReadBackClaimStep
  <2> QED
    BY <2>1 DEF Turns, Onwards, AfterClaims, BusyPcs, UploadPcs, RemotePcs, InboxMoves
<1>7. CASE Punish(w)
  <2>0. worker[w].claim.event \in Events
    BY <1>0, <1>7 DEF Sound, ClaimPcs, Punish, At
  <2>1. /\ RowsKept /\ (InboxKept \/ Fails)
        /\ Turns(w, {"release"}) \/ Turns(w, {"release"} \cup Onwards(w))
    BY <1>0, <1>7, <2>0, PunishStep DEF Fails, Settles
  <2> QED
    BY <2>1 DEF Turns, Onwards, AfterClaims, BusyPcs, UploadPcs, RemotePcs, InboxMoves
<1>8. CASE Release(w) \/ Abort(w) \/ Crash(w)
  <2>1. RowsKept /\ InboxKept /\ (worker'[w].pc = "idle" \/ Turns(w, {"release"}))
    BY <1>0, <1>8, EndingsStep
  <2> QED
    BY <2>1 DEF Turns, BusyPcs, UploadPcs, RemotePcs, InboxMoves
<1> QED
  BY <1>1, <1>2, <1>3, <1>4, <1>5, <1>6, <1>7, <1>8 DEF Resting

\* The outbox is left alone, and in the inbox only the status of a copy changes.
Untouched ==
  /\ RowsKept /\ copies' = copies
  /\ \A e \in Events : /\ inbox'[e].id = inbox[e].id /\ inbox'[e].project = inbox[e].project
                       /\ inbox'[e].status = "none" <=> inbox[e].status = "none"
                       /\ applied[e] <= applied'[e]

LEMMA MovesUntouched ==
  ASSUME Core, RowsKept, NEW e \in Events, NEW st \in Statuses \ {"none"},
         inbox[e].status # "none", RowMoves(e, st),
         AppliedKept \/ applied' = [applied EXCEPT ![e] = applied[e] + 1]
  PROVE  Untouched
<1>1. Types
  BY DEF Core
<1>2. \A d \in Events : applied[d] \in Nat
  BY <1>1, RowFields DEF Types
<1>3. \A d \in Events : applied[d] <= applied'[d]
  BY <1>1, <1>2 DEF AppliedKept, Types, StoreTypes
<1> QED
  BY <1>3 DEF RowMoves, Untouched, Statuses

LEMMA RestingUntouched ==
  ASSUME Core, NEW w \in Processes, Resting(w)
  PROVE  Untouched
<1>1. RowsKept /\ InboxMoves(w)
  BY RestingStep
<1>2. CASE InboxKept
  <2>1. \A e \in Events : applied[e] \in Nat
    BY CoreParts, RowFields
  <2> QED
    BY <1>1, <1>2, <2>1 DEF InboxKept, Untouched
<1>3. CASE Claims(w)
  <2>1. PICK e \in Events : inbox[e].status # "none" /\ RowMoves(e, "claimed") /\ AppliedKept
    BY <1>3 DEF Claims, Claimable, In, Stored
  <2> QED
    BY <1>1, <2>1, MovesUntouched DEF Statuses
<1>4. CASE Fails
  <2>1. PICK e \in Events, st \in {"quarantined", "retry"} :
          inbox[e].status = "claimed" /\ RowMoves(e, st) /\ AppliedKept
    BY <1>4 DEF Fails
  <2>2. st \in Statuses \ {"none"}
    BY <2>1 DEF Statuses
  <2> QED
    BY <1>1, <2>1, <2>2, MovesUntouched
<1>5. CASE Applies
  <2>1. PICK e \in Events : /\ inbox[e].status = "claimed" /\ RowMoves(e, "applied")
                            /\ applied' = [applied EXCEPT ![e] = applied[e] + 1]
    BY <1>5 DEF Applies
  <2> QED
    BY <1>1, <2>1, MovesUntouched DEF Statuses
<1> QED
  BY <1>1, <1>2, <1>3, <1>4, <1>5 DEF InboxMoves

(* While a daemon is in a phase, the others rest. *)
LEMMA OthersRest ==
  ASSUME Core, NEW v \in Daemons, worker[v].pc \in Inside,
         NEW w \in Processes, w # v, Acts(w)
  PROVE  Resting(w)
<1>1. Sound(w) /\ Sound(v)
  BY CoreParts, ReplicationAssumption
<1>2. ASSUME w \in Daemons
      PROVE  worker[w].pc \notin Inside /\ ~Admitted(w)
  BY <1>2 DEF Core, Exclusive, Admitted, Free
<1>3. worker[w].pc \notin BusyPcs
  BY <1>1, <1>2 DEF Sound, PeerPcs, Inside, BusyPcs, UploadPcs, RemotePcs
<1>4. ~ClaimLocal(w) /\ ~Reconcile(w) /\ ~PruneRemote(w)
  BY <1>1, <1>2 DEF Sound, PeerPcs, ClaimLocal, Reconcile, PruneRemote, At
<1>5. ~(ScreenOut(w) \/ Upload(w) \/ ReadBack(w) \/ Withdraw(w) \/ SettleUpload(w) \/ Observe(w)
        \/ WithdrawUnbound(w) \/ Requeue(w) \/ PruneRead(w) \/ PruneLocal(w))
  BY <1>3 DEF ScreenOut, Upload, ReadBack, Withdraw, SettleUpload, Observe, WithdrawUnbound,
              Requeue, PruneRead, PruneLocal, At, BusyPcs, UploadPcs, RemotePcs
<1> QED
  BY <1>4, <1>5 DEF Acts, Step, Resting

LEMMA WorldUntouched ==
  ASSUME Core, World, NEW v \in Daemons, worker[v].pc \in Inside
  PROVE  Untouched
<1>1. Types /\ \A e \in Events : applied[e] \in Nat
  BY CoreParts, RowFields, ReplicationAssumption
<1>2. ~Free
  BY DEF Free
<1>3. CASE ReplayRemote
  <2>1. /\ RowsKept /\ AppliedKept
        /\ \/ InboxKept
           \/ \E e \in Events : inbox[e].status = "quarantined" /\ RowMoves(e, "pending")
    BY <1>1, <1>3, ReplayRemoteStep
  <2>2. CASE InboxKept
    BY <1>1, <2>1, <2>2 DEF InboxKept, Untouched
  <2>3. CASE \E e \in Events : inbox[e].status = "quarantined" /\ RowMoves(e, "pending")
    BY <2>1, <2>3, MovesUntouched DEF Statuses
  <2> QED
    BY <2>1, <2>2, <2>3
<1>4. CASE (\E e \in Events : ReplayRead(e)) \/ (\E r \in Resources : LeaseRunsOut(r))
  <2>1. RowsKept /\ InboxKept
    BY <1>4 DEF ReplayRead, LeaseRunsOut, RowsKept, InboxKept, inboxVars
  <2> QED
    BY <1>1, <2>1 DEF InboxKept, Untouched
<1> QED
  BY <1>2, <1>3, <1>4 DEF World, AppendEvent, Retain, Relink, ReplayLocal

(* So what a worker in a busy phase has read is not disturbed by others. *)
Undisturbed(v) ==
  worker'[v] = worker[v] /\ (worker[v].pc \in BusyPcs => Untouched)

LEMMA BusyIsInside ==
  ASSUME Core, NEW v \in Processes, worker[v].pc \in BusyPcs
  PROVE  v \in Daemons /\ worker[v].pc \in Inside
<1>1. Sound(v)
  BY CoreParts
<1> QED
  BY <1>1 DEF Sound, PeerPcs, Inside, BusyPcs, UploadPcs, RemotePcs

LEMMA Bystanders ==
  ASSUME Core, NEW w \in Processes, Acts(w), NEW v \in Processes, v # w
  PROVE  Undisturbed(v)
<1>1. worker'[v] = worker[v]
  BY StepGood DEF TurnGood, Turn
<1>2. ASSUME worker[v].pc \in BusyPcs
      PROVE  Untouched
  BY <1>2, BusyIsInside, OthersRest, RestingUntouched
<1> QED
  BY <1>1, <1>2 DEF Undisturbed

LEMMA Spectators ==
  ASSUME Core, World, NEW v \in Processes
  PROVE  Undisturbed(v)
<1>1. worker'[v] = worker[v]
  BY WorldGood
<1>2. ASSUME worker[v].pc \in BusyPcs
      PROVE  Untouched
  BY <1>2, BusyIsInside, WorldUntouched
<1> QED
  BY <1>1, <1>2 DEF Undisturbed

-----------------------------------------------------------------------------
(* Custody: the rows of the outbox, and the rows a pass has in hand.       *)

\* A row to deliver knows no copy, only acknowledged rows are pruned, and a
\* copy that is applied, or a row that is acknowledged, has been applied.
Fits(row, copy, times) ==
  /\ row.state \in {"pending", "retry", "claimed"} => row.inbox = 0
  /\ row.pruned => row.state = "acknowledged"
  /\ copy.status = "applied" => times > 0
  /\ row.state \in {"acknowledged", "deleted"} => times > 0
Records == \A e \in Events : Fits(outbox[e], inbox[e], applied[e])

\* Rows on their way out are claimed by the worker that sends them, rows it
\* observes have a copy, what it saw applied has been applied, and a row is kept
\* for later only once.
Hand(w) ==
  /\ worker[w].pc \in UploadPcs =>
       \A e \in worker[w].todo \cup worker[w].again :
          outbox[e].state = "claimed" /\ outbox[e].owner = w
  /\ worker[w].pc \in RemotePcs =>
       \A e \in worker[w].todo \cup worker[w].again :
          outbox[e].state = "replicated" /\ outbox[e].inbox # 0
  /\ worker[w].pc \in ViewPcs =>
       \A e \in worker[w].todo : worker[w].view[e].kind = "applied" => applied[e] > 0
  /\ worker[w].pc \in {"settle", "observe"} => worker[w].todo \cap worker[w].again = {}

Custody == Records /\ \A w \in Processes : Hand(w)

\* What the inbox may do.
AppliedGrows ==
  \A e \in Events : /\ applied[e] <= applied'[e] /\ applied'[e] \in Nat
                    /\ inbox'[e].status = "applied" => applied'[e] > 0

LEMMA KeepsApplied ==
  ASSUME Core, Records, InboxKept
  PROVE  AppliedGrows
<1>1. \A e \in Events : applied[e] \in Nat
  BY RowFields DEF Core, Types
<1> QED
  BY <1>1 DEF InboxKept, Records, Fits, AppliedGrows

LEMMA EmptyApplied ==
  ASSUME Core, Records, NEW G, Emptied(G)
  PROVE  AppliedGrows
<1>1. \A e \in Events : applied[e] \in Nat
  BY RowFields DEF Core, Types
<1>2. \A e \in Events : inbox'[e] = Missing \/ inbox'[e] = inbox[e]
  BY DEF Emptied
<1>3. \A e \in Events : inbox'[e].status = "applied" => inbox[e].status = "applied"
  BY <1>2, MissingForm
<1> QED
  BY <1>1, <1>3 DEF Emptied, Records, Fits, AppliedGrows

LEMMA InsertApplied ==
  ASSUME Core, Records, NEW S, NEW p, Inserted(S, p)
  PROVE  AppliedGrows
<1>1. \A e \in Events : applied[e] \in Nat
  BY RowFields DEF Core, Types
<1>2. \A e \in Events : inbox'[e].status = "applied" => inbox[e].status = "applied"
  BY DEF Inserted
<1> QED
  BY <1>1, <1>2 DEF Inserted, Records, Fits, AppliedGrows

LEMMA MovesApplied ==
  ASSUME Core, Records, NEW e \in Events, NEW st, RowMoves(e, st),
         \/ AppliedKept /\ st # "applied"
         \/ applied' = [applied EXCEPT ![e] = applied[e] + 1]
  PROVE  AppliedGrows
<1>1. \A d \in Events : applied[d] \in Nat
  BY RowFields DEF Core, Types
<1>2. \A d \in Events \ {e} : inbox'[d] = inbox[d]
  BY DEF RowMoves
<1>3. inbox'[e].status = st
  BY DEF RowMoves
<1>4. CASE AppliedKept /\ st # "applied"
  BY <1>1, <1>2, <1>3, <1>4 DEF AppliedKept, Records, Fits, AppliedGrows
<1>5. CASE applied' = [applied EXCEPT ![e] = applied[e] + 1]
  <2>1. applied \in [Events -> Nat]
    BY DEF Core, Types, StoreTypes
  <2>2. /\ applied'[e] = applied[e] + 1
        /\ \A d \in Events \ {e} : applied'[d] = applied[d]
    BY <1>5, <2>1
  <2> QED
    BY <1>1, <1>2, <2>2 DEF Records, Fits, AppliedGrows
<1> QED
  BY <1>4, <1>5

LEMMA InboxMovesApplied ==
  ASSUME Core, Records, NEW w \in Processes, InboxMoves(w)
  PROVE  AppliedGrows
<1>1. CASE InboxKept
  BY <1>1, KeepsApplied
<1>2. CASE Claims(w)
  <2>1. PICK e \in Events : RowMoves(e, "claimed") /\ AppliedKept
    BY <1>2 DEF Claims
  <2> QED
    BY <2>1, MovesApplied
<1>3. CASE Fails
  <2>1. PICK e \in Events, st \in {"quarantined", "retry"} : RowMoves(e, st) /\ AppliedKept
    BY <1>3 DEF Fails
  <2>2. st # "applied"
    BY <2>1
  <2> QED
    BY <2>1, <2>2, MovesApplied
<1>4. CASE Applies
  <2>1. PICK e \in Events : /\ RowMoves(e, "applied")
                            /\ applied' = [applied EXCEPT ![e] = applied[e] + 1]
    BY <1>4 DEF Applies
  <2> QED
    BY <2>1, MovesApplied
<1> QED
  BY <1>1, <1>2, <1>3, <1>4 DEF InboxMoves

LEMMA KeepsRecords ==
  ASSUME Core, Records, RowsKept, AppliedGrows
  PROVE  Records'
<1>1. \A e \in Events : applied[e] \in Nat
  BY RowFields DEF Core, Types
<1> QED
  BY <1>1 DEF RowsKept, Records, Fits, AppliedGrows

LEMMA RowRecords ==
  ASSUME Core, Records, InboxKept, NEW e \in Events, NEW r, OneRow(e, r),
         Fits(r, inbox[e], applied[e])
  PROVE  Records'
<1>1. outbox'[e] = r /\ \A d \in Events \ {e} : outbox'[d] = outbox[d]
  BY DEF OneRow
<1>2. \A d \in Events : inbox'[d] = inbox[d] /\ applied'[d] = applied[d]
  BY DEF InboxKept
<1> QED
  BY <1>1, <1>2 DEF Records, Fits

(* A worker that has nothing in hand. *)
LEMMA FreeHand ==
  ASSUME NEW w \in Processes, worker'[w].pc \notin UploadPcs \cup RemotePcs
  PROVE  Hand(w)'
  BY DEF Hand, ViewPcs, UploadPcs, RemotePcs

LEMMA StillHand ==
  ASSUME Core, AppliedGrows, NEW v \in Processes, Hand(v), Undisturbed(v)
  PROVE  Hand(v)'
<1>1. CASE worker[v].pc \in BusyPcs
  <2>1. RowsKept /\ worker'[v] = worker[v]
    BY <1>1 DEF Undisturbed, Untouched
  <2>2. worker[v].todo \subseteq Events
    BY WorkerFields DEF Core, Types
  <2>3. \A e \in Events : applied[e] \in Nat
    BY RowFields DEF Core, Types
  <2>4. \A e \in worker[v].todo : applied[e] > 0 => applied'[e] > 0
    BY <2>2, <2>3 DEF AppliedGrows
  <2> QED
    BY <2>1, <2>4 DEF Hand, RowsKept
<1>2. CASE worker[v].pc \notin BusyPcs
  BY <1>2, FreeHand DEF Undisturbed, BusyPcs
<1> QED
  BY <1>1, <1>2

-----------------------------------------------------------------------------
(* Every step of a worker keeps the custody.                               *)
Keeps(w) == Records' /\ AppliedGrows /\ Hand(w)'

LEMMA RestingCustody ==
  ASSUME Core, Custody, NEW w \in Processes, Resting(w)
  PROVE  Keeps(w)
<1>1. RowsKept /\ worker'[w].pc \notin BusyPcs /\ InboxMoves(w)
  BY RestingStep
<1>2. AppliedGrows
  BY <1>1, InboxMovesApplied DEF Custody
<1>3. Records'
  BY <1>1, <1>2, KeepsRecords DEF Custody
<1>4. Hand(w)'
  BY <1>1, FreeHand DEF BusyPcs
<1> QED
  BY <1>2, <1>3, <1>4 DEF Keeps

\* The rows in hand stay as they are, or some of them.
LEMMA SameHand ==
  ASSUME Core, Custody, NEW w \in Processes, RowsKept, AppliedGrows,
         worker'[w].todo \subseteq worker[w].todo, worker'[w].again = {},
         \/ worker[w].pc \in UploadPcs /\ worker'[w].pc \in UploadPcs
         \/ worker[w].pc \in RemotePcs /\ worker'[w].pc \in RemotePcs,
         worker'[w].pc \in ViewPcs =>
           \A e \in worker'[w].todo : worker'[w].view[e].kind = "applied" => applied'[e] > 0
  PROVE  Keeps(w)
<1>1. Records'
  BY KeepsRecords DEF Custody
<1>2. Hand(w)'
  BY DEF Custody, Hand, RowsKept, UploadPcs, RemotePcs
<1> QED
  BY <1>1, <1>2 DEF Keeps

\* One row changes, the others in hand stay as they are.
LEMMA LessHand ==
  ASSUME Core, Custody, NEW w \in Processes, InboxKept, NEW e \in Events, NEW r, OneRow(e, r),
         Fits(r, inbox[e], applied[e]),
         worker'[w].todo \subseteq worker[w].todo \ {e}, worker'[w].again = {},
         \/ worker[w].pc \in UploadPcs /\ worker'[w].pc \in UploadPcs
         \/ worker[w].pc \in RemotePcs /\ worker'[w].pc \in RemotePcs
         \/ worker'[w].pc \notin UploadPcs \cup RemotePcs,
         worker'[w].pc \in ViewPcs =>
           worker[w].pc \in ViewPcs /\ worker'[w].view = worker[w].view
  PROVE  Keeps(w)
<1>1. Records' /\ AppliedGrows
  BY RowRecords, KeepsApplied DEF Custody
<1>2. CASE worker'[w].pc \notin UploadPcs \cup RemotePcs
  BY <1>1, <1>2, FreeHand DEF Keeps
<1>3. CASE \/ worker[w].pc \in UploadPcs /\ worker'[w].pc \in UploadPcs
           \/ worker[w].pc \in RemotePcs /\ worker'[w].pc \in RemotePcs
  <2>0. worker[w].todo \subseteq Events
    BY WorkerFields DEF Core, Types
  <2>1. \A d \in Events \ {e} : outbox'[d] = outbox[d]
    BY DEF OneRow
  <2>2. \A d \in worker'[w].todo \cup worker'[w].again : outbox'[d] = outbox[d]
    BY <2>0, <2>1
  <2>3. worker'[w].pc \in UploadPcs =>
          \A d \in worker'[w].todo \cup worker'[w].again :
             outbox'[d].state = "claimed" /\ outbox'[d].owner = w
    BY <1>3, <2>2 DEF Custody, Hand, UploadPcs, RemotePcs
  <2>4. worker'[w].pc \in RemotePcs =>
          \A d \in worker'[w].todo \cup worker'[w].again :
             outbox'[d].state = "replicated" /\ outbox'[d].inbox # 0
    BY <1>3, <2>2 DEF Custody, Hand, UploadPcs, RemotePcs
  <2>5. worker'[w].pc \in ViewPcs =>
          \A d \in worker'[w].todo : worker'[w].view[d].kind = "applied" => applied'[d] > 0
    BY DEF Custody, Hand, InboxKept
  <2> QED
    BY <1>1, <2>3, <2>4, <2>5 DEF Hand, Keeps
<1> QED
  BY <1>2, <1>3

LEMMA ClaimLocalCustody ==
  ASSUME Core, Custody, NEW w \in Processes, ClaimLocal(w)
  PROVE  Keeps(w)
<1>0. Types /\ worker[w].again = {} /\ AppliedGrows
  BY CoreParts, KeepsApplied, ClaimLocalStep DEF Sound, ClaimLocal, At, Custody
<1>1. InboxKept
  BY <1>0, ClaimLocalStep
<1>2. PICK S \in EventSets :
        /\ \A e \in S : /\ e \in Deliverable
                        /\ outbox'[e].state = "claimed" /\ outbox'[e].owner = w
                        /\ outbox'[e].inbox = outbox[e].inbox
                        /\ outbox'[e].pruned = outbox[e].pruned
        /\ \A e \in Events \ S : outbox'[e] = outbox[e]
        /\ Comes(w, "renew", S) \/ Comes(w, "screen", S)
  BY <1>0, ClaimLocalStep
<1>3. \A e \in Events : Fits(outbox'[e], inbox[e], applied[e])
  <2>1. ASSUME NEW e \in S
        PROVE  Fits(outbox'[e], inbox[e], applied[e])
    <3>1. e \in Events /\ outbox[e].state \in {"pending", "retry", "claimed"}
      BY <1>2, <2>1 DEF Deliverable
    <3>2. Fits(outbox[e], inbox[e], applied[e])
      BY <3>1 DEF Custody, Records
    <3> QED
      BY <1>2, <2>1, <3>1, <3>2 DEF Fits
  <2>2. ASSUME NEW e \in Events \ S
        PROVE  Fits(outbox'[e], inbox[e], applied[e])
    BY <1>2, <2>2 DEF Custody, Records
  <2> QED
    BY <2>1, <2>2
<1>4. Records'
  BY <1>1, <1>3 DEF Records, InboxKept
<1>5. Hand(w)'
  <2>1. worker'[w].todo = S /\ worker'[w].again = {} /\ worker'[w].pc \in {"renew", "screen"}
    BY <1>0, <1>2 DEF Comes
  <2> QED
    BY <1>2, <2>1 DEF Hand, UploadPcs, RemotePcs, ViewPcs
<1> QED
  BY <1>0, <1>4, <1>5 DEF Keeps

LEMMA ScreenOutCustody ==
  ASSUME Core, Custody, NEW w \in Processes, ScreenOut(w)
  PROVE  Keeps(w)
<1>0. Types /\ worker[w].again = {} /\ worker[w].pc = "screen" /\ worker[w].todo \subseteq Events
  BY CoreParts, WorkerFields DEF Sound, ScreenOut, At
<1>1. InboxKept /\ AppliedGrows
  BY <1>0, ScreenOutStep, KeepsApplied DEF Custody
<1>2. CASE RowsKept /\ Turns(w, {"renew"})
  <2>1. Records'
    BY <1>1, <1>2, KeepsRecords DEF Custody
  <2>2. Hand(w)'
    BY <1>2, FreeHand DEF Turns, UploadPcs, RemotePcs
  <2> QED
    BY <1>1, <2>1, <2>2 DEF Keeps
<1>3. CASE RowsKept /\ Comes(w, "insert", worker[w].todo)
  BY <1>0, <1>1, <1>3, SameHand DEF Comes, UploadPcs, ViewPcs
<1>4. CASE \E e \in worker[w].todo :
             /\ OneRow(e, markDeliveryQuarantined(outbox[e], w))
             /\ Comes(w, "screen", worker[w].todo \ {e})
  <2>1. PICK e \in worker[w].todo :
             /\ OneRow(e, markDeliveryQuarantined(outbox[e], w))
             /\ Comes(w, "screen", worker[w].todo \ {e})
    BY <1>4
  <2>2. e \in Events /\ outbox[e] \in RowSet
    BY <1>0, <2>1, RowFields DEF Types
  <2>3. Fits(outbox[e], inbox[e], applied[e])
    BY <2>2 DEF Custody, Records
  <2>4. Fits(markDeliveryQuarantined(outbox[e], w), inbox[e], applied[e])
    <3>1. /\ Settled(outbox[e], "quarantined", 0).state = "quarantined"
          /\ Settled(outbox[e], "quarantined", 0).pruned = outbox[e].pruned
      BY <2>2 DEF Settled, RowSet
    <3> QED
      BY <2>3, <3>1 DEF Fits, markDeliveryQuarantined, Claimed
  <2> QED
    BY <1>0, <1>1, <2>1, <2>2, <2>4, LessHand DEF Comes, UploadPcs, ViewPcs
<1> QED
  BY <1>0, <1>2, <1>3, <1>4, ScreenOutStep

LEMMA UploadCustody ==
  ASSUME Core, Custody, NEW w \in Processes, Upload(w)
  PROVE  Keeps(w)
<1>0. /\ Types /\ worker[w].again = {} /\ worker[w].pc = "insert" /\ worker[w].todo \subseteq Events
      /\ worker[w].project \in Projects
  BY CoreParts, WorkerFields DEF Sound, Upload, At
<1>1. CASE InboxKept /\ Comes(w, "readback", worker[w].todo)
  <2>1. RowsKept /\ AppliedGrows
    BY <1>0, <1>1, UploadStep, KeepsApplied DEF Custody
  <2> QED
    BY <1>0, <1>1, <2>1, SameHand DEF Comes, UploadPcs, ViewPcs
<1>2. CASE /\ Inserted(worker[w].todo, worker[w].project)
           /\ \/ /\ Comes(w, "settle", worker[w].todo)
                 /\ \A e \in worker[w].todo : worker'[w].view[e] = Seen(inbox'[e])
              \/ Comes(w, "readback", worker[w].todo)
  <2>1. RowsKept /\ AppliedGrows
    BY <1>0, <1>2, UploadStep, InsertApplied DEF Custody
  <2>2. CASE Comes(w, "readback", worker[w].todo)
    BY <1>0, <2>1, <2>2, SameHand DEF Comes, UploadPcs, ViewPcs
  <2>3. CASE /\ Comes(w, "settle", worker[w].todo)
             /\ \A e \in worker[w].todo : worker'[w].view[e] = Seen(inbox'[e])
    <3>1. \A e \in worker[w].todo : worker'[w].view[e].kind = "applied" => applied'[e] > 0
      BY <1>0, <2>1, <2>3, SeenKinds DEF AppliedGrows
    <3> QED
      BY <1>0, <2>1, <2>3, <3>1, SameHand DEF Comes, UploadPcs
  <2> QED
    BY <1>2, <2>2, <2>3
<1> QED
  BY <1>0, <1>1, <1>2, UploadStep

LEMMA RetriesCustody ==
  ASSUME Core, Custody, NEW w \in Processes, worker[w].pc \in UploadPcs \ {"settle"},
         Retries(w), RowsKept, AppliedGrows
  PROVE  Keeps(w)
<1>1. worker[w].again = {}
  BY CoreParts DEF Sound, UploadPcs
<1>2. \A e \in worker[w].todo : worker'[w].view[e].kind # "applied"
  BY DEF Retries
<1> QED
  BY <1>1, <1>2, SameHand DEF Retries, Comes, UploadPcs

LEMMA ReadBackCustody ==
  ASSUME Core, Custody, NEW w \in Processes, ReadBack(w)
  PROVE  Keeps(w)
<1>0. /\ Types /\ worker[w].pc = "readback" /\ worker[w].again = {}
      /\ worker[w].todo \subseteq Events
  BY CoreParts, WorkerFields DEF Sound, ReadBack, At
<1>1. RowsKept /\ InboxKept /\ AppliedGrows
  BY <1>0, ReadBackStep, KeepsApplied DEF Custody
<1>2. CASE Retries(w)
  BY <1>0, <1>1, <1>2, RetriesCustody DEF UploadPcs
<1>3. CASE Comes(w, "withdraw", worker[w].todo)
  BY <1>0, <1>1, <1>3, SameHand DEF Comes, UploadPcs, ViewPcs
<1>4. CASE /\ Comes(w, "settle", worker[w].todo)
           /\ \A e \in worker[w].todo : /\ In(e, worker[w].project)
                                        /\ worker'[w].view[e] = Seen(inbox[e])
  <2>1. \A e \in worker[w].todo : worker'[w].view[e].kind = "applied" => applied'[e] > 0
    BY <1>0, <1>1, <1>4, SeenKinds DEF AppliedGrows, InboxKept
  <2> QED
    BY <1>0, <1>1, <1>4, <2>1, SameHand DEF Comes, UploadPcs
<1> QED
  BY <1>0, <1>2, <1>3, <1>4, ReadBackStep

\* A withdrawal says applied of copies that are.
LEMMA WithdrawnApplied ==
  ASSUME Core, Custody, NEW S \in EventSets, NEW p, NEW ids, NEW stale, NEW f,
         Withdrawn(S, p, ids, stale, f)
  PROVE  AppliedGrows /\ \A e \in S : f[e].kind = "applied" => applied'[e] > 0
<1>1. AppliedGrows
  BY EmptyApplied DEF Withdrawn, Custody
<1>2. ASSUME NEW e \in S, f[e].kind = "applied"
      PROVE  applied'[e] > 0
  <2>1. inbox[e].status = "applied"
    BY <1>2 DEF Withdrawn, WithdrawOutcome
  <2>2. e \in Events /\ applied' = applied
    BY DEF Withdrawn, Emptied, EventSets
  <2> QED
    BY <2>1, <2>2 DEF Custody, Records, Fits
<1> QED
  BY <1>1, <1>2

LEMMA WithdrawCustody ==
  ASSUME Core, Custody, NEW w \in Processes, Withdraw(w)
  PROVE  Keeps(w)
<1>0. /\ Types /\ worker[w].pc = "withdraw" /\ worker[w].again = {}
      /\ worker[w].todo \in EventSets
  BY CoreParts, WorkerFields DEF Sound, Withdraw, At
<1>1. RowsKept
  BY <1>0, WithdrawStep
<1>2. CASE InboxKept /\ Retries(w)
  BY <1>0, <1>1, <1>2, RetriesCustody, KeepsApplied DEF UploadPcs, Custody
<1>3. CASE \E stale \in {Abandoned, AllClaims}, f \in ViewSet :
             /\ Withdrawn(worker[w].todo, worker[w].project,
                          [e \in worker[w].todo |-> 0], stale, f)
             /\ \/ Comes(w, "settle", worker[w].todo) /\ worker'[w].view = f
                \/ Retries(w) /\ Fault
  <2>1. PICK stale \in {Abandoned, AllClaims}, f \in ViewSet :
             /\ Withdrawn(worker[w].todo, worker[w].project,
                          [e \in worker[w].todo |-> 0], stale, f)
             /\ \/ Comes(w, "settle", worker[w].todo) /\ worker'[w].view = f
                \/ Retries(w)
    BY <1>3
  <2>2. AppliedGrows /\ \A e \in worker[w].todo : f[e].kind = "applied" => applied'[e] > 0
    BY <1>0, <2>1, WithdrawnApplied
  <2>3. CASE Retries(w)
    BY <1>0, <1>1, <2>2, <2>3, RetriesCustody DEF UploadPcs
  <2>4. CASE Comes(w, "settle", worker[w].todo) /\ worker'[w].view = f
    BY <1>0, <1>1, <2>2, <2>4, SameHand DEF Comes, UploadPcs
  <2> QED
    BY <2>1, <2>3, <2>4
<1> QED
  BY <1>0, <1>2, <1>3, WithdrawStep

\* A phase that goes through rows one by one, and keeps some for the next step.
LEMMA WorksCustody ==
  ASSUME Core, Custody, NEW w \in Processes, InboxKept,
         NEW e \in worker[w].todo, NEW r, OneRow(e, r), Fits(r, inbox[e], applied[e]),
         NEW kind, NEW kinds, kind \in kinds => r = outbox[e],
         NEW done \in {"renew", "prune"}, NEW next,
         \/ worker[w].pc = "settle" /\ next = "insert"
         \/ worker[w].pc = "observe" /\ next = "unbound",
         Works(w, e, worker[w].pc, Kept(e, kind, kinds), done, next)
  PROVE  Keeps(w)
<1> DEFINE keep == Kept(e, kind, kinds)
<1>0. /\ worker[w].todo \subseteq Events /\ worker[w].again \subseteq Events /\ Hand(w)
      /\ worker[w].todo \cap worker[w].again = {}
  BY WorkerFields DEF Core, Types, Custody, Hand
<1>1. Records' /\ AppliedGrows
  BY <1>0, RowRecords, KeepsApplied DEF Custody
<1>2. keep \subseteq {e} /\ (keep = {} \/ r = outbox[e])
  BY DEF Kept
<1>3. \A d \in (worker[w].todo \ {e}) \cup worker[w].again \cup keep : outbox'[d] = outbox[d]
  BY <1>0, <1>2 DEF OneRow
<1> HIDE DEF keep
<1>4. CASE worker'[w].pc = done
  BY <1>1, <1>4, FreeHand DEF Keeps, UploadPcs, RemotePcs
<1>5. CASE /\ worker'[w].pc = worker[w].pc /\ worker'[w].view = worker[w].view
           /\ worker'[w].todo = worker[w].todo \ {e}
           /\ worker'[w].again = worker[w].again \cup keep
  <2>1. worker'[w].todo \cap worker'[w].again = {}
    BY <1>0, <1>2, <1>5
  <2>2. \A d \in worker'[w].todo \cup worker'[w].again :
           outbox'[d] = outbox[d] /\ d \in worker[w].todo \cup worker[w].again
    BY <1>2, <1>3, <1>5
  <2>3. \A d \in worker'[w].todo : worker'[w].view[d].kind = "applied" => applied'[d] > 0
    BY <1>0, <1>5 DEF Hand, ViewPcs, InboxKept
  <2>4. Hand(w)'
    BY <1>0, <1>5, <2>1, <2>2, <2>3 DEF Hand, UploadPcs, RemotePcs
  <2> QED
    BY <1>1, <2>4 DEF Keeps
<1>6. CASE /\ worker'[w].pc = next /\ worker'[w].todo = worker[w].again \cup keep
           /\ worker'[w].again = {}
  <2>1. \A d \in worker'[w].todo \cup worker'[w].again :
           outbox'[d] = outbox[d] /\ d \in worker[w].todo \cup worker[w].again
    BY <1>2, <1>3, <1>6
  <2>2. Hand(w)'
    BY <1>0, <1>6, <2>1 DEF Hand, UploadPcs, RemotePcs, ViewPcs
  <2> QED
    BY <1>1, <2>2 DEF Keeps
<1> QED
  BY <1>4, <1>5, <1>6 DEF Works, keep

LEMMA SettleUploadCustody ==
  ASSUME Core, Custody, NEW w \in Processes, SettleUpload(w)
  PROVE  Keeps(w)
<1>0. /\ Types /\ Covered(w) /\ worker[w].pc = "settle" /\ Hand(w)
      /\ worker[w].todo \subseteq Events
  BY CoreParts, WorkerFields DEF SettleUpload, At, Custody
<1>1. InboxKept
  BY <1>0, SettleUploadStep
<1>2. PICK e \in worker[w].todo :
        /\ OneRow(e, AfterUpload(outbox[e], w, worker[w].view[e]))
        /\ Works(w, e, "settle",
                 Kept(e, worker[w].view[e].kind, {"absent", "released", "bound"}),
                 "renew", "insert")
  BY <1>0, SettleUploadStep
<1> DEFINE r == AfterUpload(outbox[e], w, worker[w].view[e])
           kind == worker[w].view[e].kind
<1>3. /\ e \in Events /\ outbox[e] \in RowSet /\ worker[w].view[e] \in SeenSet
      /\ kind \in Kinds /\ Fits(outbox[e], inbox[e], applied[e])
  BY <1>0, <1>2, RowFields DEF Covered, Types, Custody, Records, SeenSet, ViewPcs
<1>4. /\ outbox[e].state = "claimed" /\ outbox[e].owner = w
      /\ kind = "applied" => applied[e] > 0
  BY <1>0, <1>2 DEF Hand, UploadPcs, ViewPcs
<1>5. outbox[e].inbox = 0 /\ outbox[e].pruned # TRUE
  BY <1>3, <1>4 DEF Fits
<1>6. /\ r \in RowSet /\ r.pruned = outbox[e].pruned
      /\ kind = "applied" => r.state = "acknowledged"
      /\ kind = "quarantined" => r.state = "quarantined"
      /\ kind = "open" => r.state = "replicated"
      /\ kind \in {"retry", "busy"} => r.state = "retry" /\ r.inbox = 0
      /\ kind \notin {"applied", "quarantined", "open", "retry", "busy"} => r = outbox[e]
  BY <1>3, <1>4, <1>5, AfterUploadForm
<1> HIDE DEF r
<1>7. Fits(r, inbox[e], applied[e])
  BY <1>3, <1>4, <1>5, <1>6 DEF Fits
<1>8. OneRow(e, r)
  BY <1>2 DEF r
<1>9. kind \in {"absent", "released", "bound"} => r = outbox[e]
  BY <1>6
<1>10. Works(w, e, worker[w].pc, Kept(e, kind, {"absent", "released", "bound"}), "renew", "insert")
  BY <1>0, <1>2
<1> HIDE DEF kind
<1>11. "renew" \in {"renew", "prune"}
  OBVIOUS
<1> QED
  BY <1>0, <1>1, <1>7, <1>8, <1>9, <1>10, <1>11, WorksCustody

LEMMA ReconcileCustody ==
  ASSUME Core, Custody, NEW w \in Processes, Reconcile(w)
  PROVE  Keeps(w)
<1>0. Types /\ worker[w].again = {}
  BY CoreParts DEF Sound, Reconcile, At
<1>1. RowsKept /\ InboxKept /\ worker'[w].pc \in {"prune", "observe"}
  BY <1>0, ReconcileStep
<1>2. /\ worker'[w].todo = AwaitingRemote /\ worker'[w].again = {}
      /\ \A e \in AwaitingRemote :
           \/ worker'[w].view[e] = Seen(inbox[e])
           \/ worker'[w].view[e] = [kind |-> "missing", id |-> 0]
  BY <1>0, ReconcileStep
<1>3. AppliedGrows /\ Records'
  BY <1>1, KeepsApplied, KeepsRecords DEF Custody
<1>4. \A e \in AwaitingRemote :
        /\ outbox'[e].state = "replicated" /\ outbox'[e].inbox # 0
        /\ worker'[w].view[e].kind = "applied" => applied'[e] > 0
  <2>1. ASSUME NEW e \in AwaitingRemote, worker'[w].view[e].kind = "applied"
        PROVE  inbox[e].status = "applied"
    BY <1>2, <2>1, SeenKinds
  <2> QED
    BY <1>1, <2>1 DEF AwaitingRemote, RowsKept, InboxKept, Custody, Records, Fits
<1>5. Hand(w)'
  BY <1>1, <1>2, <1>4 DEF Hand, UploadPcs, RemotePcs, ViewPcs
<1> QED
  BY <1>3, <1>5 DEF Keeps

LEMMA ObserveCustody ==
  ASSUME Core, Custody, NEW w \in Processes, Observe(w)
  PROVE  Keeps(w)
<1>0. /\ Types /\ Covered(w) /\ worker[w].pc = "observe" /\ Hand(w)
      /\ worker[w].todo \subseteq Events
  BY CoreParts, WorkerFields DEF Observe, At, Custody
<1>1. InboxKept
  BY <1>0, ObserveStep
<1>2. PICK e \in worker[w].todo :
        /\ OneRow(e, ObservedRow(outbox[e], worker[w].view[e]))
        /\ Works(w, e, "observe", Kept(e, worker[w].view[e].kind, {"missing"}), "prune", "unbound")
  BY <1>0, ObserveStep
<1> DEFINE r == ObservedRow(outbox[e], worker[w].view[e])
           kind == worker[w].view[e].kind
<1>3. /\ e \in Events /\ outbox[e] \in RowSet /\ worker[w].view[e] \in SeenSet
      /\ Fits(outbox[e], inbox[e], applied[e])
  BY <1>0, <1>2, RowFields DEF Covered, Types, Custody, Records, ViewPcs
<1>4. /\ outbox[e].state = "replicated"
      /\ kind = "applied" => applied[e] > 0
  BY <1>0, <1>2 DEF Hand, RemotePcs, ViewPcs
<1>5. /\ r \in RowSet /\ r.pruned = outbox[e].pruned
      /\ \/ r = outbox[e]
         \/ kind = "applied" /\ r.state = "acknowledged"
         \/ kind = "quarantined" /\ r.state = "quarantined"
  BY <1>3, ObservedForm
<1> HIDE DEF r
<1>6. Fits(r, inbox[e], applied[e])
  BY <1>3, <1>4, <1>5 DEF Fits
<1>7. OneRow(e, r)
  BY <1>2 DEF r
<1>8. kind \in {"missing"} => r = outbox[e]
  BY <1>5
<1>9. Works(w, e, worker[w].pc, Kept(e, kind, {"missing"}), "prune", "unbound")
  BY <1>0, <1>2
<1> HIDE DEF kind
<1>10. "prune" \in {"renew", "prune"}
  OBVIOUS
<1> QED
  BY <1>0, <1>1, <1>6, <1>7, <1>8, <1>9, <1>10, WorksCustody

\* A phase that goes through rows one by one.
LEMMA LeavesCustody ==
  ASSUME Core, Custody, NEW w \in Processes, InboxKept,
         worker[w].pc \in {"requeue", "unbound", "pruned"}, NEW e \in worker[w].todo,
         NEW r, OneRow(e, r), Fits(r, inbox[e], applied[e]),
         NEW done \in {"prune", "release"}, Leaves(w, e, worker[w].pc, done)
  PROVE  Keeps(w)
<1>0. worker[w].again = {} /\ e \in Events
  BY CoreParts, WorkerFields DEF Sound
<1>1. CASE Comes(w, worker[w].pc, worker[w].todo \ {e}) /\ worker'[w].view = worker[w].view
  <2>1. CASE worker[w].pc = "pruned"
    BY <1>0, <1>1, <2>1, LessHand DEF Comes, UploadPcs, RemotePcs, ViewPcs
  <2>2. CASE worker[w].pc \in {"requeue", "unbound"}
    BY <1>0, <1>1, <2>2, LessHand DEF Comes, UploadPcs, RemotePcs, ViewPcs
  <2> QED
    BY <2>1, <2>2
<1>2. CASE Turns(w, {done})
  <2>1. Records' /\ AppliedGrows
    BY <1>0, RowRecords, KeepsApplied DEF Custody
  <2>2. Hand(w)'
    BY <1>2, FreeHand DEF Turns, UploadPcs, RemotePcs
  <2> QED
    BY <2>1, <2>2 DEF Keeps
<1> QED
  BY <1>1, <1>2 DEF Leaves

LEMMA RequeueCustody ==
  ASSUME Core, Custody, NEW w \in Processes, Requeue(w)
  PROVE  Keeps(w)
<1>0. /\ Types /\ Covered(w) /\ worker[w].pc = "requeue" /\ Hand(w)
      /\ worker[w].todo \subseteq Events
  BY CoreParts, WorkerFields DEF Requeue, At, Custody
<1>1. InboxKept
  BY <1>0, RequeueStep
<1>2. PICK e \in worker[w].todo :
        /\ OneRow(e, AfterWithdraw(outbox[e], worker[w].view[e]))
        /\ Leaves(w, e, "requeue", "prune")
  BY <1>0, RequeueStep
<1> DEFINE r == AfterWithdraw(outbox[e], worker[w].view[e])
           kind == worker[w].view[e].kind
<1>3. /\ e \in Events /\ outbox[e] \in RowSet /\ worker[w].view[e] \in SeenSet
      /\ Fits(outbox[e], inbox[e], applied[e])
  BY <1>0, <1>2, RowFields DEF Covered, Types, Custody, Records, ViewPcs
<1>4. /\ outbox[e].state = "replicated"
      /\ kind = "applied" => applied[e] > 0
  BY <1>0, <1>2 DEF Hand, RemotePcs, ViewPcs
<1>5. /\ r \in RowSet /\ r.pruned = outbox[e].pruned
      /\ \/ r = outbox[e]
         \/ r.state = "pending" /\ r.inbox = 0
         \/ kind = "applied" /\ r.state = "acknowledged"
         \/ r.state = "quarantined"
  BY <1>3, <1>4, AfterWithdrawForm
<1> HIDE DEF r
<1>6. Fits(r, inbox[e], applied[e])
  BY <1>3, <1>4, <1>5 DEF Fits
<1>7. OneRow(e, r)
  BY <1>2 DEF r
<1> QED
  BY <1>0, <1>1, <1>2, <1>6, <1>7, LeavesCustody

LEMMA WithdrawUnboundCustody ==
  ASSUME Core, Custody, NEW w \in Processes, WithdrawUnbound(w)
  PROVE  Keeps(w)
<1>0. /\ Types /\ worker[w].pc = "unbound" /\ Hand(w) /\ worker[w].again = {}
      /\ worker[w].todo \in EventSets /\ worker[w].todo \subseteq Events
  BY CoreParts, WorkerFields DEF Sound, WithdrawUnbound, At, Custody
<1>1. CASE /\ InboxKept
           /\ \E e \in worker[w].todo :
                /\ OneRow(e, markQuarantined(outbox[e], outbox[e].inbox))
                /\ Leaves(w, e, "unbound", "prune")
  <2>1. PICK e \in worker[w].todo :
           /\ OneRow(e, markQuarantined(outbox[e], outbox[e].inbox))
           /\ Leaves(w, e, "unbound", "prune")
    BY <1>1
  <2> DEFINE r == markQuarantined(outbox[e], outbox[e].inbox)
  <2>2. e \in Events /\ outbox[e] \in RowSet /\ Fits(outbox[e], inbox[e], applied[e])
    BY <1>0, <2>1, RowFields DEF Types, Custody, Records
  <2>3. outbox[e].state = "replicated"
    BY <1>0, <2>1 DEF Hand, RemotePcs
  <2>4. r.pruned = outbox[e].pruned /\ r.state = "quarantined"
    BY <2>2, <2>3, QuarantineForm
  <2>5. OneRow(e, r)
    BY <2>1
  <2> HIDE DEF r
  <2>6. Fits(r, inbox[e], applied[e])
    BY <2>2, <2>3, <2>4 DEF Fits
  <2> QED
    BY <1>0, <1>1, <2>1, <2>5, <2>6, LeavesCustody
<1>2. CASE RowsKept /\ InboxKept /\ Turns(w, {"prune"})
  <2>1. Records' /\ AppliedGrows
    BY <1>2, KeepsRecords, KeepsApplied DEF Custody
  <2>2. Hand(w)'
    BY <1>2, FreeHand DEF Turns, UploadPcs, RemotePcs
  <2> QED
    BY <2>1, <2>2 DEF Keeps
<1>3. CASE /\ RowsKept
           /\ \E stale \in {Abandoned, AllClaims}, f \in ViewSet :
                /\ Withdrawn(worker[w].todo, worker[w].project,
                             [e \in worker[w].todo |-> outbox[e].inbox], stale, f)
                /\ \/ Comes(w, "requeue", worker[w].todo) /\ worker'[w].view = f
                   \/ Turns(w, {"prune"})
  <2>1. PICK stale \in {Abandoned, AllClaims}, f \in ViewSet :
           /\ Withdrawn(worker[w].todo, worker[w].project,
                        [e \in worker[w].todo |-> outbox[e].inbox], stale, f)
           /\ \/ Comes(w, "requeue", worker[w].todo) /\ worker'[w].view = f
              \/ Turns(w, {"prune"})
    BY <1>3
  <2>2. AppliedGrows /\ \A e \in worker[w].todo : f[e].kind = "applied" => applied'[e] > 0
    BY <1>0, <2>1, WithdrawnApplied
  <2>3. CASE Comes(w, "requeue", worker[w].todo) /\ worker'[w].view = f
    BY <1>0, <1>3, <2>2, <2>3, SameHand DEF Comes, RemotePcs
  <2>4. CASE Turns(w, {"prune"})
    <3>1. Records'
      BY <1>3, <2>2, KeepsRecords DEF Custody
    <3>2. Hand(w)'
      BY <2>4, FreeHand DEF Turns, UploadPcs, RemotePcs
    <3> QED
      BY <2>2, <3>1, <3>2 DEF Keeps
  <2> QED
    BY <2>1, <2>3, <2>4
<1> QED
  BY <1>0, <1>1, <1>2, <1>3, WithdrawUnboundStep

LEMMA PruneRemoteCustody ==
  ASSUME Core, Custody, NEW w \in Processes, PruneRemote(w)
  PROVE  Keeps(w)
<1>0. Types
  BY DEF Core
<1>1. RowsKept /\ worker'[w].pc \in {"release", "pruned", "pruneRead"}
  BY <1>0, PruneRemoteStep DEF Turns
<1>2. AppliedGrows
  <2>1. InboxKept \/ \E G : Emptied(G)
    BY <1>0, PruneRemoteStep
  <2> QED
    BY <2>1, KeepsApplied, EmptyApplied DEF Custody
<1>3. Records'
  BY <1>1, <1>2, KeepsRecords DEF Custody
<1>4. Hand(w)'
  BY <1>1, FreeHand DEF UploadPcs, RemotePcs
<1> QED
  BY <1>2, <1>3, <1>4 DEF Keeps

LEMMA PruneReadCustody ==
  ASSUME Core, Custody, NEW w \in Processes, PruneRead(w)
  PROVE  Keeps(w)
<1>0. Types
  BY DEF Core
<1>1. RowsKept /\ InboxKept /\ worker'[w].pc \in {"release", "pruned"}
  BY <1>0, PruneReadStep DEF Turns
<1>2. Records' /\ AppliedGrows
  BY <1>1, KeepsRecords, KeepsApplied DEF Custody
<1>3. Hand(w)'
  BY <1>1, FreeHand DEF UploadPcs, RemotePcs
<1> QED
  BY <1>2, <1>3 DEF Keeps

LEMMA PruneLocalCustody ==
  ASSUME Core, Custody, NEW w \in Processes, PruneLocal(w)
  PROVE  Keeps(w)
<1>0. Types /\ worker[w].pc = "pruned" /\ worker[w].todo \subseteq Events
  BY CoreParts, WorkerFields DEF PruneLocal, At
<1>1. InboxKept
  BY <1>0, PruneLocalStep
<1>2. PICK e \in worker[w].todo :
        /\ OneRow(e, markRemotePruned(outbox[e]))
        /\ Leaves(w, e, "pruned", "release")
  BY <1>0, PruneLocalStep
<1> DEFINE r == markRemotePruned(outbox[e])
<1>3. e \in Events /\ outbox[e] \in RowSet /\ Fits(outbox[e], inbox[e], applied[e])
  BY <1>0, <1>2, RowFields DEF Types, Custody, Records
<1>4. /\ r.state = outbox[e].state /\ r.inbox = outbox[e].inbox
      /\ r = outbox[e] \/ outbox[e].state = "acknowledged"
  BY <1>3, PrunedForm
<1>5. OneRow(e, r)
  BY <1>2
<1> HIDE DEF r
<1>6. Fits(r, inbox[e], applied[e])
  BY <1>3, <1>4 DEF Fits
<1> QED
  BY <1>0, <1>1, <1>2, <1>5, <1>6, LeavesCustody

LEMMA StepKeeps ==
  ASSUME Core, Custody, NEW w \in Processes, Acts(w)
  PROVE  Keeps(w)
<1>1. CASE Resting(w)
  BY <1>1, RestingCustody
<1>2. CASE ClaimLocal(w) \/ ScreenOut(w) \/ Upload(w) \/ ReadBack(w) \/ Withdraw(w)
           \/ SettleUpload(w)
  BY <1>2, ClaimLocalCustody, ScreenOutCustody, UploadCustody, ReadBackCustody,
     WithdrawCustody, SettleUploadCustody
<1>3. CASE Reconcile(w) \/ Observe(w) \/ WithdrawUnbound(w) \/ Requeue(w) \/ PruneRemote(w)
           \/ PruneRead(w) \/ PruneLocal(w)
  BY <1>3, ReconcileCustody, ObserveCustody, WithdrawUnboundCustody, RequeueCustody,
     PruneRemoteCustody, PruneReadCustody, PruneLocalCustody
<1> QED
  BY <1>1, <1>2, <1>3 DEF Acts, Step, Resting

LEMMA StepCustody ==
  ASSUME Core, Custody, NEW w \in Processes, Acts(w)
  PROVE  Custody'
<1>1. Keeps(w)
  BY StepKeeps
<1>2. ASSUME NEW v \in Processes, v # w
      PROVE  Hand(v)'
  BY <1>1, <1>2, Bystanders, StillHand DEF Keeps, Custody
<1> QED
  BY <1>1, <1>2 DEF Keeps, Custody

LEMMA WorldCustody ==
  ASSUME Core, Custody, World
  PROVE  Custody'
<1>0. Types
  BY DEF Core
<1>1. Records' /\ AppliedGrows
  <2>1. CASE RowsKept /\ InboxKept
    BY <2>1, KeepsRecords, KeepsApplied DEF Custody
  <2>2. ASSUME NEW e \in Events, AppendEvent(e)
        PROVE  Records' /\ AppliedGrows
    <3>1. OneRow(e, NewRow("pending")) /\ InboxKept
      BY <1>0, <2>2, AppendStep
    <3>2. Fits(outbox[e], inbox[e], applied[e])
      BY DEF Custody, Records
    <3>3. Fits(NewRow("pending"), inbox[e], applied[e])
      BY <3>2 DEF Fits, NewRow
    <3> QED
      BY <3>1, <3>3, RowRecords, KeepsApplied DEF Custody
  <2>3. ASSUME NEW e \in Events, Retain(e)
        PROVE  Records' /\ AppliedGrows
    <3>1. OneRow(e, NewRow("deleted")) /\ InboxKept /\ outbox[e].state = "acknowledged"
      BY <1>0, <2>3, RetainStep
    <3>2. Fits(outbox[e], inbox[e], applied[e])
      BY DEF Custody, Records
    <3>3. Fits(NewRow("deleted"), inbox[e], applied[e])
      BY <3>1, <3>2 DEF Fits, NewRow
    <3> QED
      BY <3>1, <3>3, RowRecords, KeepsApplied DEF Custody
  <2>4. CASE ReplayLocal
    <3>1. PICK e \in Events : OneRow(e, replayQuarantinedRow(outbox[e]))
      BY <1>0, <2>4, ReplayLocalStep
    <3> DEFINE r == replayQuarantinedRow(outbox[e])
    <3>2. outbox[e] \in RowSet /\ Fits(outbox[e], inbox[e], applied[e])
      BY <1>0, RowFields DEF Types, Custody, Records
    <3>3. /\ r.inbox = outbox[e].inbox /\ r.pruned = outbox[e].pruned
          /\ \/ r = outbox[e]
             \/ /\ outbox[e].state = "quarantined"
                /\ \/ r.state = "pending" /\ r.inbox = 0
                   \/ r.state = "replicated"
      BY <3>2, ReplayedForm
    <3>4. OneRow(e, r)
      BY <3>1
    <3> HIDE DEF r
    <3>5. Fits(r, inbox[e], applied[e])
      BY <3>2, <3>3 DEF Fits
    <3>6. InboxKept
      BY <1>0, <2>4, ReplayLocalStep
    <3> QED
      BY <3>4, <3>5, <3>6, RowRecords, KeepsApplied DEF Custody
  <2>5. CASE ReplayRemote
    <3>1. /\ RowsKept /\ AppliedKept
          /\ InboxKept \/ \E e \in Events : RowMoves(e, "pending")
      BY <1>0, <2>5, ReplayRemoteStep
    <3>2. AppliedGrows
      BY <3>1, KeepsApplied, MovesApplied DEF Custody
    <3> QED
      BY <3>1, <3>2, KeepsRecords DEF Custody
  <2>6. ASSUME \/ \E e \in Events : ReplayRead(e)
               \/ \E p \in Projects : Relink(p)
               \/ \E r \in Resources : LeaseRunsOut(r)
        PROVE  RowsKept /\ InboxKept
    BY <2>6 DEF ReplayRead, Relink, LeaseRunsOut, RowsKept, InboxKept, inboxVars
  <2> QED
    BY <2>1, <2>2, <2>3, <2>4, <2>5, <2>6 DEF World
<1>2. ASSUME NEW v \in Processes
      PROVE  Hand(v)'
  BY <1>1, <1>2, Spectators, StillHand DEF Custody
<1> QED
  BY <1>1, <1>2 DEF Custody

LEMMA InitCustody == Init => Custody
<1> SUFFICES ASSUME Init
             PROVE  Custody
  OBVIOUS
<1>1. Records
  BY DEF Init, OutboxInit, InboxInit, NewRow, Missing, Records, Fits
<1>2. \A w \in Processes : Hand(w)
  BY DEF Init, Idle, Hand, UploadPcs, RemotePcs, ViewPcs
<1> QED
  BY <1>1, <1>2 DEF Custody

LEMMA NextCustody ==
  ASSUME Core, Custody, [Next]_vars
  PROVE  Custody'
<1>1. CASE World
  BY <1>1, WorldCustody
<1>2. ASSUME NEW w \in Processes, Acts(w)
      PROVE  Custody'
  BY <1>2, StepCustody
<1>3. CASE UNCHANGED vars
  BY <1>3 DEF vars, inboxVars, Custody, Records, Fits, Hand
<1> QED
  BY <1>1, <1>2, <1>3 DEF Next, Acts

LEMMA CustodyAlways == Spec => [](Core /\ Custody)
<1>1. Init => Core /\ Custody
  BY InitCore, InitCustody
<1>2. Core /\ Custody /\ [Next]_vars => (Core /\ Custody)'
  BY NextCore, NextCustody
<1> QED
  BY <1>1, <1>2, PTL DEF Spec

(* A row the outbox calls acknowledged, or has let retention delete, was   *)
(* applied in the remote project: whatever passes, crashes, lost answers,  *)
(* replays and relinks come between (markAcknowledged, pruneProcessed).    *)
THEOREM NothingAcknowledgedUnapplied == Spec => []AcknowledgedIsApplied
<1>1. Core /\ Custody => AcknowledgedIsApplied
  BY DEF Custody, Records, Fits, AcknowledgedIsApplied
<1> QED
  BY <1>1, CustodyAlways, PTL

-----------------------------------------------------------------------------
(* What the steps of a worker do to a row, to the table, and to the        *)
(* project it works for.                                                   *)

\* A row is claimed, leaves the hand of the worker, or is recorded as pruned.
RowTurn(w, e) ==
  \/ outbox'[e] = outbox[e]
  \/ /\ outbox'[e].pruned = outbox[e].pruned
     /\ \/ /\ outbox[e].state \in {"pending", "retry", "claimed"}
           /\ outbox'[e].state = "claimed"
        \/ /\ e \in worker[w].todo /\ worker[w].pc \in {"screen", "settle"}
           /\ outbox[e].state = "claimed"
           /\ outbox'[e].state \in {"retry", "replicated", "acknowledged", "quarantined"}
           /\ outbox'[e].state = "replicated" =>
                worker[w].pc = "settle" /\ worker[w].view[e].kind = "open"
        \/ /\ e \in worker[w].todo /\ worker[w].pc \in RemotePcs
           /\ outbox[e].state = "replicated"
           /\ outbox'[e].state \in {"acknowledged", "quarantined", "pending"}
  \/ /\ worker[w].pc = "pruned" /\ e \in worker[w].todo
     /\ outbox[e].state = "acknowledged" /\ outbox'[e].state = "acknowledged"

LEMMA OneRowTurn ==
  ASSUME NEW w \in Processes, NEW e \in Events, NEW r, OneRow(e, r), RowTurn(w, e)
  PROVE  \A d \in Events : RowTurn(w, d)
<1>1. \A d \in Events \ {e} : outbox'[d] = outbox[d]
  BY DEF OneRow
<1> QED
  BY <1>1 DEF RowTurn

\* The row of a settled upload.
LEMMA SettledUpload ==
  ASSUME Core, Custody, NEW w \in Processes, worker[w].pc = "settle", NEW e \in worker[w].todo,
         NEW r, r = AfterUpload(outbox[e], w, worker[w].view[e])
  PROVE  /\ outbox[e].state = "claimed" /\ r.pruned = outbox[e].pruned
         /\ worker[w].view[e].kind = "applied" => r.state = "acknowledged"
         /\ worker[w].view[e].kind = "quarantined" => r.state = "quarantined"
         /\ worker[w].view[e].kind = "open" => r.state = "replicated"
         /\ worker[w].view[e].kind \in {"retry", "busy"} => r.state = "retry"
         /\ worker[w].view[e].kind \notin {"applied", "quarantined", "open", "retry", "busy"} =>
              r = outbox[e]
<1>1. /\ Covered(w) /\ Hand(w) /\ e \in Events /\ outbox[e] \in RowSet
      /\ Fits(outbox[e], inbox[e], applied[e])
  BY CoreParts, WorkerFields, RowFields DEF Custody, Records
<1>2. worker[w].view[e] \in SeenSet
  BY <1>1 DEF Covered, ViewPcs
<1>3. outbox[e].state = "claimed" /\ outbox[e].owner = w
  BY <1>1 DEF Hand, UploadPcs
<1>4. outbox[e].inbox = 0
  BY <1>1, <1>3 DEF Fits
<1> QED
  BY <1>1, <1>2, <1>3, <1>4, AfterUploadForm

\* The row of a copy elsewhere.
LEMMA SettledWithdraw ==
  ASSUME Core, Custody, NEW w \in Processes, worker[w].pc = "requeue", NEW e \in worker[w].todo,
         NEW r, r = AfterWithdraw(outbox[e], worker[w].view[e])
  PROVE  /\ outbox[e].state = "replicated" /\ r.pruned = outbox[e].pruned
         /\ \/ r = outbox[e]
            \/ r.state \in {"acknowledged", "quarantined", "pending"}
         /\ (worker[w].view[e].kind = "applied" /\ worker[w].view[e].id = outbox[e].inbox)
              => r.state = "acknowledged"
<1>1. Covered(w) /\ Hand(w) /\ e \in Events /\ outbox[e] \in RowSet
  BY CoreParts, WorkerFields, RowFields DEF Custody
<1>2. worker[w].view[e] \in SeenSet
  BY <1>1 DEF Covered, ViewPcs
<1>3. outbox[e].state = "replicated"
  BY <1>1 DEF Hand, RemotePcs
<1> QED
  BY <1>1, <1>2, <1>3, AfterWithdrawForm

LEMMA UploadRows ==
  ASSUME Core, Custody, NEW w \in Processes, NEW e \in Events,
         \/ ClaimLocal(w) \/ ScreenOut(w) \/ Upload(w) \/ ReadBack(w) \/ Withdraw(w)
         \/ SettleUpload(w)
  PROVE  RowTurn(w, e)
<1>0. /\ Types /\ Covered(w) /\ Sound(w) /\ Hand(w) /\ worker[w].todo \subseteq Events
      /\ \A d \in Events : outbox[d] \in RowSet /\ Fits(outbox[d], inbox[d], applied[d])
  BY CoreParts, WorkerFields, RowFields DEF Custody, Records
<1>1. CASE ClaimLocal(w)
  <2>1. PICK S \in EventSets :
          /\ \A d \in S : /\ d \in Deliverable /\ outbox'[d].state = "claimed"
                          /\ outbox'[d].pruned = outbox[d].pruned
          /\ \A d \in Events \ S : outbox'[d] = outbox[d]
    BY <1>0, <1>1, ClaimLocalStep
  <2> QED
    BY <2>1 DEF RowTurn, Deliverable
<1>2. CASE ScreenOut(w)
  <2>1. CASE RowsKept
    BY <2>1 DEF RowsKept, RowTurn
  <2>2. CASE \E d \in worker[w].todo : OneRow(d, markDeliveryQuarantined(outbox[d], w))
    <3>1. PICK d \in worker[w].todo : OneRow(d, markDeliveryQuarantined(outbox[d], w))
      BY <2>2
    <3>2. d \in Events /\ worker[w].pc = "screen"
      BY <1>0, <1>2 DEF ScreenOut, At
    <3>3. outbox[d].state = "claimed" /\ outbox[d].owner = w
      BY <1>0, <3>2 DEF Hand, UploadPcs
    <3>4. outbox[d].inbox = 0
      BY <1>0, <3>2, <3>3 DEF Fits
    <3>5. /\ Settled(outbox[d], "quarantined", 0).state = "quarantined"
          /\ Settled(outbox[d], "quarantined", 0).pruned = outbox[d].pruned
      BY <1>0, <3>2 DEF Settled, RowSet
    <3>6. outbox'[d].state = "quarantined" /\ outbox'[d].pruned = outbox[d].pruned
      BY <3>1, <3>3, <3>4, <3>5 DEF OneRow, markDeliveryQuarantined, Claimed
    <3>7. RowTurn(w, d)
      BY <3>2, <3>3, <3>6 DEF RowTurn
    <3> QED
      BY <3>1, <3>2, <3>7, OneRowTurn
  <2> QED
    BY <1>0, <1>2, <2>1, <2>2, ScreenOutStep
<1>3. CASE Upload(w)
  <2>1. worker[w].project \in Projects
    BY <1>0, <1>3 DEF Sound, Upload, At
  <2> QED
    BY <1>0, <1>3, <2>1, UploadStep DEF RowsKept, RowTurn
<1>4. CASE ReadBack(w)
  BY <1>0, <1>4, ReadBackStep DEF RowsKept, RowTurn
<1>5. CASE Withdraw(w)
  BY <1>0, <1>5, WithdrawStep DEF RowsKept, RowTurn
<1>6. CASE SettleUpload(w)
  <2>1. PICK d \in worker[w].todo : OneRow(d, AfterUpload(outbox[d], w, worker[w].view[d]))
    BY <1>0, <1>6, SettleUploadStep
  <2>2. d \in Events /\ worker[w].pc = "settle" /\ worker[w].view[d].kind \in Kinds
    BY <1>0, <1>6 DEF SettleUpload, At, Covered, ViewPcs, SeenSet
  <2> DEFINE r == AfterUpload(outbox[d], w, worker[w].view[d])
  <2>3. /\ outbox[d].state = "claimed" /\ r.pruned = outbox[d].pruned
        /\ worker[w].view[d].kind = "applied" => r.state = "acknowledged"
        /\ worker[w].view[d].kind = "quarantined" => r.state = "quarantined"
        /\ worker[w].view[d].kind = "open" => r.state = "replicated"
        /\ worker[w].view[d].kind \in {"retry", "busy"} => r.state = "retry"
        /\ worker[w].view[d].kind \notin {"applied", "quarantined", "open", "retry", "busy"} =>
             r = outbox[d]
    BY <2>2, SettledUpload
  <2>4. OneRow(d, r)
    BY <2>1
  <2> HIDE DEF r
  <2>5. RowTurn(w, d)
    BY <2>2, <2>3, <2>4 DEF RowTurn, OneRow
  <2> QED
    BY <2>2, <2>4, <2>5, OneRowTurn
<1> QED
  BY <1>1, <1>2, <1>3, <1>4, <1>5, <1>6

LEMMA RemoteRows ==
  ASSUME Core, Custody, NEW w \in Processes, NEW e \in Events,
         \/ Reconcile(w) \/ Observe(w) \/ WithdrawUnbound(w) \/ Requeue(w) \/ PruneRemote(w)
         \/ PruneRead(w) \/ PruneLocal(w)
  PROVE  RowTurn(w, e)
<1>0. /\ Types /\ Covered(w) /\ Hand(w) /\ worker[w].todo \subseteq Events
      /\ \A d \in Events : outbox[d] \in RowSet /\ Fits(outbox[d], inbox[d], applied[d])
  BY CoreParts, WorkerFields, RowFields DEF Custody, Records
<1>1. CASE Reconcile(w) \/ PruneRemote(w) \/ PruneRead(w)
  BY <1>0, <1>1, ReconcileStep, PruneRemoteStep, PruneReadStep DEF RowsKept, RowTurn
<1>2. CASE Observe(w)
  <2>1. PICK d \in worker[w].todo : OneRow(d, ObservedRow(outbox[d], worker[w].view[d]))
    BY <1>0, <1>2, ObserveStep
  <2>2. d \in Events /\ worker[w].pc = "observe" /\ worker[w].view[d] \in SeenSet
    BY <1>0, <1>2 DEF Observe, At, Covered, ViewPcs
  <2> DEFINE r == ObservedRow(outbox[d], worker[w].view[d])
  <2>3. outbox[d].state = "replicated"
    BY <1>0, <2>2 DEF Hand, RemotePcs
  <2>4. /\ r.pruned = outbox[d].pruned
        /\ r = outbox[d] \/ r.state \in {"acknowledged", "quarantined"}
    BY <1>0, <2>2, ObservedForm
  <2>5. OneRow(d, r)
    BY <2>1
  <2> HIDE DEF r
  <2>6. RowTurn(w, d)
    BY <2>2, <2>3, <2>4, <2>5 DEF RowTurn, OneRow, RemotePcs
  <2> QED
    BY <2>2, <2>5, <2>6, OneRowTurn
<1>3. CASE WithdrawUnbound(w)
  <2>1. CASE RowsKept
    BY <2>1 DEF RowsKept, RowTurn
  <2>2. CASE \E d \in worker[w].todo : OneRow(d, markQuarantined(outbox[d], outbox[d].inbox))
    <3>1. PICK d \in worker[w].todo : OneRow(d, markQuarantined(outbox[d], outbox[d].inbox))
      BY <2>2
    <3> DEFINE r == markQuarantined(outbox[d], outbox[d].inbox)
    <3>2. d \in Events /\ worker[w].pc = "unbound"
      BY <1>0, <1>3 DEF WithdrawUnbound, At
    <3>3. outbox[d].state = "replicated"
      BY <1>0, <3>2 DEF Hand, RemotePcs
    <3>4. r.pruned = outbox[d].pruned /\ r.state = "quarantined"
      BY <1>0, <3>2, <3>3, QuarantineForm
    <3>5. OneRow(d, r)
      BY <3>1
    <3> HIDE DEF r
    <3>6. RowTurn(w, d)
      BY <3>2, <3>3, <3>4, <3>5 DEF RowTurn, OneRow, RemotePcs
    <3> QED
      BY <3>2, <3>5, <3>6, OneRowTurn
  <2> QED
    BY <1>0, <1>3, <2>1, <2>2, WithdrawUnboundStep
<1>4. CASE Requeue(w)
  <2>1. PICK d \in worker[w].todo : OneRow(d, AfterWithdraw(outbox[d], worker[w].view[d]))
    BY <1>0, <1>4, RequeueStep
  <2>2. d \in Events /\ worker[w].pc = "requeue"
    BY <1>0, <1>4 DEF Requeue, At
  <2> DEFINE r == AfterWithdraw(outbox[d], worker[w].view[d])
  <2>3. /\ outbox[d].state = "replicated" /\ r.pruned = outbox[d].pruned
        /\ r = outbox[d] \/ r.state \in {"acknowledged", "quarantined", "pending"}
    BY <2>2, SettledWithdraw
  <2>4. OneRow(d, r)
    BY <2>1
  <2> HIDE DEF r
  <2>5. RowTurn(w, d)
    BY <2>2, <2>3, <2>4 DEF RowTurn, OneRow, RemotePcs
  <2> QED
    BY <2>2, <2>4, <2>5, OneRowTurn
<1>5. CASE PruneLocal(w)
  <2>1. PICK d \in worker[w].todo : OneRow(d, markRemotePruned(outbox[d]))
    BY <1>0, <1>5, PruneLocalStep
  <2>2. d \in Events /\ worker[w].pc = "pruned"
    BY <1>0, <1>5 DEF PruneLocal, At
  <2> DEFINE r == markRemotePruned(outbox[d])
  <2>3. /\ r.state = outbox[d].state
        /\ r = outbox[d] \/ outbox[d].state = "acknowledged"
    BY <1>0, <2>2, PrunedForm
  <2>4. OneRow(d, r)
    BY <2>1
  <2> HIDE DEF r
  <2>5. RowTurn(w, d)
    BY <2>2, <2>3, <2>4 DEF RowTurn, OneRow
  <2> QED
    BY <2>2, <2>4, <2>5, OneRowTurn
<1> QED
  BY <1>1, <1>2, <1>3, <1>4, <1>5

LEMMA RowSteps ==
  ASSUME Core, Custody, NEW w \in Processes, Acts(w), NEW e \in Events
  PROVE  RowTurn(w, e)
<1>1. CASE Resting(w)
  BY <1>1, RestingStep DEF RowsKept, RowTurn
<1>2. CASE ~Resting(w)
  BY <1>2, UploadRows, RemoteRows DEF Acts, Step, Resting
<1> QED
  BY <1>1, <1>2

\* How the table changes.
Deletes(w) ==
  \E G \in SUBSET AwaitingPrune :
    /\ worker[w].pc = "prune" /\ Emptied(G)
    /\ \A e \in G : inbox[e].status = "applied"
Inserts(w) ==
  worker[w].pc = "insert" /\ Inserted(worker[w].todo, worker[w].project)
Withdraws(w) ==
  /\ worker[w].pc \in {"withdraw", "unbound"}
  /\ \E ids, stale, f : /\ stale \in {Abandoned, AllClaims}
                        /\ Withdrawn(worker[w].todo, worker[w].project, ids, stale, f)

LEMMA InboxSteps ==
  ASSUME Core, NEW w \in Processes, Acts(w)
  PROVE  InboxMoves(w) \/ Deletes(w) \/ Inserts(w) \/ Withdraws(w)
<1>0. Types /\ Covered(w) /\ Sound(w)
  BY CoreParts
<1>1. CASE Resting(w)
  BY <1>1, RestingStep
<1>2. CASE Upload(w)
  <2>1. worker[w].project \in Projects /\ worker[w].pc = "insert"
    BY <1>0, <1>2 DEF Sound, Upload, At
  <2> QED
    BY <1>0, <1>2, <2>1, UploadStep DEF InboxMoves, Inserts
<1>3. CASE Withdraw(w)
  <2>1. worker[w].pc = "withdraw"
    BY <1>3 DEF Withdraw, At
  <2>2. CASE InboxKept
    BY <2>2 DEF InboxMoves
  <2>3. CASE \E stale \in {Abandoned, AllClaims}, f \in ViewSet :
               Withdrawn(worker[w].todo, worker[w].project,
                         [e \in worker[w].todo |-> 0], stale, f)
    BY <2>1, <2>3 DEF Withdraws
  <2> QED
    BY <1>0, <1>3, <2>2, <2>3, WithdrawStep
<1>4. CASE WithdrawUnbound(w)
  <2>1. worker[w].pc = "unbound"
    BY <1>4 DEF WithdrawUnbound, At
  <2>2. CASE InboxKept
    BY <2>2 DEF InboxMoves
  <2>3. CASE \E stale \in {Abandoned, AllClaims}, f \in ViewSet :
               Withdrawn(worker[w].todo, worker[w].project,
                         [e \in worker[w].todo |-> outbox[e].inbox], stale, f)
    BY <2>1, <2>3 DEF Withdraws
  <2> QED
    BY <1>0, <1>4, <2>2, <2>3, WithdrawUnboundStep
<1>5. CASE PruneRemote(w)
  <2>1. worker[w].pc = "prune"
    BY <1>5 DEF PruneRemote, At
  <2>2. CASE InboxKept
    BY <2>2 DEF InboxMoves
  <2>3. CASE \E G \in SUBSET AwaitingPrune :
               /\ \A e \in G : Prunable(e, worker[w].project, outbox[e].inbox)
               /\ Emptied(G)
    BY <2>1, <2>3 DEF Deletes, Prunable
  <2> QED
    BY <1>0, <1>5, <2>2, <2>3, PruneRemoteStep
<1>6. CASE \/ ClaimLocal(w) \/ ScreenOut(w) \/ ReadBack(w) \/ SettleUpload(w) \/ Reconcile(w)
           \/ Observe(w) \/ Requeue(w) \/ PruneRead(w) \/ PruneLocal(w)
  <2>1. InboxKept
    BY <1>0, <1>6, ClaimLocalStep, ScreenOutStep, ReadBackStep, SettleUploadStep, ReconcileStep,
       ObserveStep, RequeueStep, PruneReadStep, PruneLocalStep
  <2> QED
    BY <2>1 DEF InboxMoves
<1> QED
  BY <1>1, <1>2, <1>3, <1>4, <1>5, <1>6 DEF Acts, Step, Resting

\* A pass keeps its project until it ends.
LEMMA ProjectSteps ==
  ASSUME Core, NEW w \in Processes, Acts(w), worker'[w].pc # "idle"
  PROVE  \/ worker[w].pc = "idle" /\ worker'[w].project = BoundTo(w)
         \/ worker[w].pc # "idle" /\ worker'[w].project = worker[w].project
<1>0. Types /\ Covered(w) /\ Sound(w)
  BY CoreParts
<1>1. CASE StartPass(w)
  BY <1>0, <1>1, StartPassStep DEF StartPass, At
<1>2. CASE Renew(w) \/ RenewForApply(w) \/ ReadBackClaim(w)
  BY <1>0, <1>2, RenewStep, RenewForApplyStep, ReadBackClaimStep
     DEF Renew, RenewForApply, ReadBackClaim, At, Turns
<1>3. CASE Fetch(w)
  <2>1. Token(w) \in Nat /\ worker[w].pc # "idle"
    BY <1>3, CoreParts DEF Fetch, At
  <2> QED
    BY <1>0, <1>3, <2>1, FetchStep DEF Turns
<1>4. CASE Apply(w)
  <2>1. worker[w].claim.event \in Events /\ worker[w].pc # "idle"
    BY <1>0, <1>4 DEF Sound, ClaimPcs, Apply, At
  <2> QED
    BY <1>0, <1>4, <2>1, ApplyStep DEF Turns
<1>5. CASE Punish(w)
  <2>1. worker[w].claim.event \in Events /\ worker[w].pc # "idle"
    BY <1>0, <1>5 DEF Sound, ClaimPcs, Punish, At
  <2> QED
    BY <1>0, <1>5, <2>1, PunishStep DEF Turns
<1>6. CASE Release(w) \/ Abort(w) \/ Crash(w)
  BY <1>0, <1>6, EndingsStep, PcForms DEF Turns
<1>7. CASE ClaimLocal(w) \/ ScreenOut(w) \/ ReadBack(w) \/ Withdraw(w)
  BY <1>0, <1>7, ClaimLocalStep, ScreenOutStep, ReadBackStep, WithdrawStep
     DEF ClaimLocal, ScreenOut, ReadBack, Withdraw, At, Turns, Comes, Retries
<1>8. CASE Upload(w)
  <2>1. worker[w].project \in Projects /\ worker[w].pc # "idle"
    BY <1>0, <1>8 DEF Sound, Upload, At
  <2> QED
    BY <1>0, <1>8, <2>1, UploadStep DEF Comes
<1>9. CASE SettleUpload(w) \/ Observe(w)
  BY <1>0, <1>9, SettleUploadStep, ObserveStep DEF SettleUpload, Observe, At, Works
<1>10. CASE WithdrawUnbound(w) \/ Requeue(w) \/ PruneLocal(w)
  BY <1>0, <1>10, WithdrawUnboundStep, RequeueStep, PruneLocalStep
     DEF WithdrawUnbound, Requeue, PruneLocal, At, Leaves, Turns, Comes
<1>11. CASE Reconcile(w) \/ PruneRemote(w) \/ PruneRead(w)
  BY <1>0, <1>11, ReconcileStep, PruneRemoteStep, PruneReadStep
     DEF Reconcile, PruneRemote, PruneRead, At, Turns
<1> QED
  BY <1>1, <1>2, <1>3, <1>4, <1>5, <1>6, <1>7, <1>8, <1>9, <1>10, <1>11 DEF Acts, Step

-----------------------------------------------------------------------------
(* While the project stays linked to one remote project, everything        *)
(* happens there: copies are not withdrawn, and a row recorded as pruned   *)
(* has no copy.                                                            *)
Home ==
  /\ binding = HomeProject
  /\ \A w \in Processes : worker[w].pc # "idle" => worker[w].project = HomeProject
  /\ \A e \in Events : Stored(e) => inbox[e].project = HomeProject
Proven(w) == worker[w].pc = "pruned" => \A e \in worker[w].todo : ~Stored(e)
Gone == \A e \in Events : (outbox[e].pruned \/ outbox[e].state = "deleted") => ~Stored(e)
Linked == Home /\ Gone /\ \A w \in Processes : Proven(w)

\* A withdrawal finds nothing to withdraw.
LEMMA NothingElsewhere ==
  ASSUME Core, Home, NEW w \in Processes, worker[w].pc # "idle", NEW e \in Events
  PROVE  ~Elsewhere(e, worker[w].project)
  BY DEF Home, Elsewhere, Stored

LEMMA WithdrawnAtHome ==
  ASSUME Core, Home, NEW w \in Processes, worker[w].pc # "idle", NEW ids, NEW stale, NEW f,
         Withdrawn(worker[w].todo, worker[w].project, ids, stale, f)
  PROVE  /\ InboxKept
         /\ \A e \in worker[w].todo : f[e].kind \in {"absent", "bound"}
<1>1. worker[w].todo \subseteq Events
  BY WorkerFields DEF Core, Types
<1>2. \A e \in worker[w].todo : f[e].kind \in {"absent", "bound"}
  <2>1. ASSUME NEW e \in worker[w].todo
        PROVE  f[e].kind \in {"absent", "bound"}
    <3>1. ~Elsewhere(e, worker[w].project)
      BY <1>1, NothingElsewhere
    <3>2. ~Stored(e) \/ In(e, worker[w].project)
      BY <3>1 DEF Elsewhere, In
    <3>3. f[e].kind = WithdrawOutcome(e, worker[w].project, ids[e], stale)
      BY DEF Withdrawn
    <3> QED
      BY <3>2, <3>3 DEF WithdrawOutcome, In, Elsewhere, Stored
  <2> QED
    BY <2>1
<1>3. {e \in worker[w].todo : f[e].kind \in {"applied", "released"}} = {}
  BY <1>2
<1>4. Emptied({})
  BY <1>3 DEF Withdrawn
<1>5. /\ inbox \in [Events -> InboxSet] /\ inbox' \in [Events -> InboxSet]
      /\ copies' = copies /\ applied' = applied /\ \A e \in Events : inbox'[e] = inbox[e]
  BY <1>4 DEF Emptied, Core, Types, StoreTypes
<1>6. inbox' = inbox
  BY <1>5
<1> QED
  BY <1>2, <1>5, <1>6 DEF InboxKept

\* So the table changes by what is claimed, inserted or pruned.
LEMMA HomeInboxSteps ==
  ASSUME Core, Home, NEW w \in Processes, Acts(w)
  PROVE  InboxMoves(w) \/ Deletes(w) \/ Inserts(w)
<1>1. ASSUME Withdraws(w)
      PROVE  InboxKept
  BY <1>1, WithdrawnAtHome DEF Withdraws
<1> QED
  BY <1>1, InboxSteps DEF InboxMoves

\* What moves in the table was there.
LEMMA MovesStored ==
  ASSUME Core, NEW w \in Processes, InboxMoves(w), NEW e \in Events
  PROVE  /\ inbox'[e].status = "none" <=> inbox[e].status = "none"
         /\ inbox'[e].project = inbox[e].project
<1>1. CASE InboxKept
  BY <1>1 DEF InboxKept
<1>2. CASE Claims(w)
  <2>1. PICK d \in Events : inbox[d].status # "none" /\ RowMoves(d, "claimed")
    BY <1>2 DEF Claims, Claimable, In, Stored
  <2> QED
    BY <2>1 DEF RowMoves
<1>3. CASE Fails
  BY <1>3 DEF Fails, RowMoves
<1>4. CASE Applies
  BY <1>4 DEF Applies, RowMoves
<1> QED
  BY <1>1, <1>2, <1>3, <1>4 DEF InboxMoves

LEMMA StepHome ==
  ASSUME Core, Home, NEW w \in Processes, Acts(w)
  PROVE  Home'
<1>1. binding' = HomeProject
  BY StepAside DEF Aside, Home
<1>2. ASSUME NEW v \in Processes, worker'[v].pc # "idle"
      PROVE  worker'[v].project = HomeProject
  <2>1. CASE v = w
    BY <1>2, <2>1, ProjectSteps DEF Home, BoundTo
  <2>2. CASE v # w
    BY <1>2, <2>2, Bystanders DEF Home, Undisturbed
  <2> QED
    BY <2>1, <2>2
<1>3. ASSUME NEW e \in Events, inbox'[e].status # "none"
      PROVE  inbox'[e].project = HomeProject
  <2>1. CASE InboxMoves(w)
    BY <1>3, <2>1, MovesStored DEF Home, Stored
  <2>2. CASE Deletes(w)
    <3>1. inbox'[e] = Missing \/ inbox'[e] = inbox[e]
      BY <2>2 DEF Deletes, Emptied
    <3> QED
      BY <1>3, <3>1, MissingForm DEF Home, Stored
  <2>3. CASE Inserts(w)
    <3>1. worker[w].project = HomeProject
      BY <2>3 DEF Inserts, Home
    <3>2. inbox'[e] = inbox[e] \/ inbox'[e].project = worker[w].project
      BY <2>3 DEF Inserts, Inserted
    <3> QED
      BY <1>3, <3>1, <3>2 DEF Home, Stored
  <2> QED
    BY <2>1, <2>2, <2>3, HomeInboxSteps
<1> QED
  BY <1>1, <1>2, <1>3 DEF Home, Stored

\* A copy appears only for a row that is on its way out.
LEMMA NewCopies ==
  ASSUME Core, Custody, NEW w \in Processes, Acts(w), NEW e \in Events,
         inbox[e].status = "none", inbox'[e].status # "none"
  PROVE  /\ worker[w].pc = "insert" /\ e \in worker[w].todo
         /\ outbox[e].state = "claimed" /\ outbox' = outbox /\ Inserts(w)
<1>1. ~InboxMoves(w)
  BY MovesStored
<1>2. ASSUME NEW G \in SUBSET Events, Emptied(G)
      PROVE  inbox'[e].status = "none"
  <2>1. inbox'[e] = Missing \/ inbox'[e] = inbox[e]
    BY <1>2 DEF Emptied
  <2> QED
    BY <2>1, MissingForm
<1>3. ~Deletes(w)
  <2>1. AwaitingPrune \subseteq Events
    BY DEF AwaitingPrune
  <2> QED
    BY <1>2, <2>1 DEF Deletes
<1>4. ~Withdraws(w)
  <2>1. worker[w].todo \subseteq Events
    BY WorkerFields DEF Core, Types
  <2>2. ASSUME NEW f, Emptied({d \in worker[w].todo : f[d].kind \in {"applied", "released"}})
        PROVE  FALSE
    BY <1>2, <2>1, <2>2
  <2> QED
    BY <2>2 DEF Withdraws, Withdrawn
<1>5. Inserts(w)
  BY <1>1, <1>3, <1>4, InboxSteps
<1>6. worker[w].pc = "insert" /\ e \in worker[w].todo
  BY <1>5 DEF Inserts, Inserted
<1>7. outbox[e].state = "claimed"
  BY <1>6 DEF Custody, Hand, UploadPcs
<1>8. RowsKept
  <2>1. Upload(w) \/ Crash(w)
    BY <1>6, PcForms DEF Acts, Step, StartPass, ClaimLocal, ScreenOut, ReadBack, Withdraw, SettleUpload,
       Renew, Fetch, RenewForApply, Apply, ReadBackClaim, Punish, Reconcile, Observe,
       WithdrawUnbound, Requeue, PruneRemote, PruneRead, PruneLocal, Release, Abort, At, Inside,
       Between
  <2>2. Types /\ worker[w].project \in Projects
    BY <1>6, CoreParts DEF Sound
  <2> QED
    BY <2>1, <2>2, UploadStep, EndingsStep
<1> QED
  BY <1>5, <1>6, <1>7, <1>8 DEF RowsKept

\* Under a phase of another, or outside of one, what was proven stays so.
LEMMA StillProven ==
  ASSUME Core, NEW v \in Processes, Proven(v), Undisturbed(v)
  PROVE  Proven(v)'
<1>1. CASE worker[v].pc = "pruned"
  <2>1. Untouched /\ worker[v].todo \subseteq Events
    BY <1>1, WorkerFields DEF Undisturbed, BusyPcs, Core, Types
  <2> QED
    BY <2>1 DEF Proven, Undisturbed, Untouched, Stored
<1>2. CASE worker[v].pc # "pruned"
  BY <1>2 DEF Proven, Undisturbed
<1> QED
  BY <1>1, <1>2

\* How a worker comes to prove that copies are gone.
LEMMA StepProven ==
  ASSUME Core, Home, Custody, NEW w \in Processes, Proven(w), Acts(w)
  PROVE  Proven(w)'
<1> SUFFICES ASSUME worker'[w].pc = "pruned"
             PROVE  \A e \in worker'[w].todo : inbox'[e].status = "none"
  BY DEF Proven, Stored
<1>0. Types /\ Sound(w) /\ Covered(w) /\ worker[w].todo \subseteq Events
  BY CoreParts, WorkerFields
<1>1. ~Resting(w)
  BY RestingStep DEF BusyPcs
<1>2. CASE PruneRemote(w)
  <2>1. PICK G \in SUBSET AwaitingPrune : Emptied(G) /\ worker'[w].todo \subseteq G
    BY <1>0, <1>2, PruneRemoteStep DEF Turns
  <2> QED
    BY <2>1, MissingForm DEF Emptied
<1>3. CASE PruneRead(w)
  <2>1. /\ InboxKept /\ worker'[w].todo \subseteq worker[w].todo
        /\ \A e \in worker'[w].todo : ~In(e, worker[w].project)
    BY <1>0, <1>3, PruneReadStep DEF Turns
  <2>2. worker[w].project = HomeProject
    BY <1>3 DEF Home, PruneRead, At
  <2> QED
    BY <1>0, <2>1, <2>2 DEF Home, In, Stored, InboxKept
<1>4. CASE PruneLocal(w)
  <2>1. InboxKept /\ \E e \in worker[w].todo : Leaves(w, e, "pruned", "release")
    BY <1>0, <1>4, PruneLocalStep
  <2>2. worker'[w].todo \subseteq worker[w].todo
    BY <2>1 DEF Leaves, Turns, Comes
  <2> QED
    BY <1>4, <2>1, <2>2 DEF Proven, PruneLocal, At, Stored, InboxKept
<1>5. CASE ClaimLocal(w) \/ ScreenOut(w) \/ ReadBack(w) \/ Withdraw(w) \/ SettleUpload(w)
  BY <1>0, <1>5, ClaimLocalStep, ScreenOutStep, ReadBackStep, WithdrawStep, SettleUploadStep
     DEF Comes, Turns, Retries, Works
<1>6. CASE Upload(w)
  <2>1. worker[w].project \in Projects
    BY <1>0, <1>6 DEF Sound, Upload, At
  <2> QED
    BY <1>0, <1>6, <2>1, UploadStep DEF Comes
<1>7. CASE Reconcile(w) \/ Observe(w) \/ WithdrawUnbound(w) \/ Requeue(w)
  BY <1>0, <1>7, ReconcileStep, ObserveStep, WithdrawUnboundStep, RequeueStep
     DEF Comes, Turns, Works, Leaves
<1> QED
  BY <1>1, <1>2, <1>3, <1>4, <1>5, <1>6, <1>7 DEF Acts, Step, Resting

LEMMA StepGone ==
  ASSUME Core, Custody, Linked, NEW w \in Processes, Acts(w)
  PROVE  Gone'
<1> SUFFICES ASSUME NEW e \in Events, outbox'[e].pruned \/ outbox'[e].state = "deleted"
             PROVE  inbox'[e].status = "none"
  BY DEF Gone, Stored
<1>1. RowTurn(w, e) /\ Fits(outbox[e], inbox[e], applied[e])
  BY RowSteps DEF Custody, Records
<1>2. inbox[e].status = "none"
  <2>1. CASE outbox[e].pruned \/ outbox[e].state = "deleted"
    BY <2>1 DEF Linked, Gone, Stored
  <2>2. CASE worker[w].pc = "pruned" /\ e \in worker[w].todo
    BY <2>2 DEF Linked, Proven, Stored
  <2> QED
    BY <1>1, <2>1, <2>2 DEF RowTurn
<1>3. ASSUME inbox'[e].status # "none"
      PROVE  FALSE
  <2>1. outbox[e].state = "claimed" /\ outbox' = outbox
    BY <1>2, <1>3, NewCopies
  <2> QED
    BY <1>1, <2>1 DEF Fits
<1> QED
  BY <1>3

LEMMA StepLinked ==
  ASSUME Core, Custody, Linked, NEW w \in Processes, Acts(w)
  PROVE  Linked'
<1>1. Home' /\ Gone'
  BY StepHome, StepGone DEF Linked
<1>2. ASSUME NEW v \in Processes
      PROVE  Proven(v)'
  BY StepProven, StillProven, Bystanders DEF Linked
<1> QED
  BY <1>1, <1>2 DEF Linked

LEMMA WorldLinked ==
  ASSUME Core, Custody, Linked, World, trouble'.relinks = 0
  PROVE  Linked'
<1>0. Types /\ trouble \in TroubleSet /\ worker' = worker
  BY WorldGood DEF Core, Types, WorldTypes
<1>1. \A p \in Projects : ~Relink(p)
  BY <1>0, TroubleForm DEF Relink
<1>2. binding' = binding
  BY <1>1 DEF World, AppendEvent, Retain, ReplayRead, ReplayLocal, ReplayRemote, LeaseRunsOut
<1>3. ASSUME NEW e \in Events
      PROVE  /\ inbox'[e].status = "none" <=> inbox[e].status = "none"
             /\ inbox'[e].project = inbox[e].project
  <2>1. CASE ReplayRemote
    <3>1. \/ InboxKept
          \/ \E d \in Events : inbox[d].status = "quarantined" /\ RowMoves(d, "pending")
      BY <1>0, <2>1, ReplayRemoteStep
    <3> QED
      BY <3>1 DEF InboxKept, RowMoves
  <2>2. CASE ~ReplayRemote
    BY <2>2 DEF World, AppendEvent, Retain, ReplayRead, Relink, ReplayLocal, LeaseRunsOut, inboxVars
  <2> QED
    BY <2>1, <2>2
<1>4. Home'
  BY <1>0, <1>2, <1>3 DEF Linked, Home, Stored
<1>5. ASSUME NEW v \in Processes
      PROVE  Proven(v)'
  BY Spectators, StillProven DEF Linked
<1>6. ASSUME NEW e \in Events, outbox'[e].pruned \/ outbox'[e].state = "deleted"
      PROVE  inbox[e].status = "none"
  <2>1. ASSUME outbox[e].pruned \/ outbox[e].state = "deleted"
        PROVE  inbox[e].status = "none"
    BY <2>1 DEF Linked, Gone, Stored
  <2>2. CASE outbox' = outbox
    BY <1>6, <2>1, <2>2
  <2>3. ASSUME NEW d \in Events, AppendEvent(d)
        PROVE  inbox[e].status = "none"
    <3>1. OneRow(d, NewRow("pending"))
      BY <1>0, <2>3, AppendStep
    <3>2. d # e
      BY <1>6, <3>1 DEF OneRow, NewRow
    <3> QED
      BY <1>6, <2>1, <3>1, <3>2 DEF OneRow
  <2>4. ASSUME NEW d \in Events, Retain(d)
        PROVE  inbox[e].status = "none"
    <3>1. OneRow(d, NewRow("deleted")) /\ outbox[d].pruned
      BY <1>0, <2>4, RetainStep
    <3> QED
      BY <1>6, <2>1, <3>1 DEF OneRow
  <2>5. CASE ReplayLocal
    <3>1. PICK d \in Events : OneRow(d, replayQuarantinedRow(outbox[d]))
      BY <1>0, <2>5, ReplayLocalStep
    <3>2. CASE d # e
      BY <1>6, <2>1, <3>1, <3>2 DEF OneRow
    <3>3. CASE d = e
      <4> DEFINE r == replayQuarantinedRow(outbox[e])
      <4>1. outbox[e] \in RowSet /\ outbox'[e] = r
        BY <1>0, <3>1, <3>3, RowFields DEF Types, OneRow
      <4>2. /\ r.pruned = outbox[e].pruned
            /\ r = outbox[e] \/ r.state \in {"pending", "replicated"}
        BY <4>1, ReplayedForm
      <4> QED
        BY <1>6, <2>1, <4>1, <4>2
    <3> QED
      BY <3>2, <3>3
  <2> QED
    BY <2>2, <2>3, <2>4, <2>5
       DEF World, ReplayRead, Relink, ReplayRemote, LeaseRunsOut
<1>7. Gone'
  BY <1>3, <1>6 DEF Gone, Stored
<1> QED
  BY <1>4, <1>5, <1>7 DEF Linked

\* Relinks and replays are only counted up.
LEMMA TroublesGrow ==
  ASSUME Core, [Next]_vars
  PROVE  /\ trouble'.relinks = 0 => trouble.relinks = 0
         /\ trouble'.replays = 0 => trouble.replays = 0
         /\ trouble'.faults = 0 => trouble.faults = 0
<1>0. /\ trouble \in TroubleSet
      /\ trouble.relinks \in Nat /\ trouble.replays \in Nat /\ trouble.faults \in Nat
  BY DEF Core, Types, WorldTypes, TroubleSet
<1>1. ASSUME Worsens
      PROVE  /\ trouble'.relinks = 0 => trouble.relinks = 0
             /\ trouble'.replays = 0 => trouble.replays = 0
             /\ trouble'.faults = 0 => trouble.faults = 0
  BY <1>0, <1>1 DEF Worsens, TroubleSet
<1>2. CASE World
  <2>1. UNCHANGED trouble \/ Spend("slips") \/ Spend("relinks") \/ Spend("replays")
    BY <1>2 DEF World, AppendEvent, Retain, Relink, ReplayRead, ReplayLocal, ReplayRemote,
       LeaseRunsOut, Slip
  <2> QED
    BY <1>0, <1>1, <2>1, TroubleForm DEF Slip
<1>3. ASSUME NEW w \in Processes, Acts(w)
      PROVE  Worsens
  BY <1>3, StepAside DEF Aside
<1>4. CASE UNCHANGED vars
  BY <1>4 DEF vars
<1> QED
  BY <1>1, <1>2, <1>3, <1>4 DEF Next, Acts

LinkedInv == trouble.relinks = 0 => Linked

LEMMA NextLinked ==
  ASSUME Core, Custody, LinkedInv, [Next]_vars
  PROVE  LinkedInv'
<1> SUFFICES ASSUME trouble'.relinks = 0
             PROVE  Linked'
  BY DEF LinkedInv
<1>0. Linked
  BY TroublesGrow DEF LinkedInv
<1>1. CASE World
  BY <1>0, <1>1, WorldLinked
<1>2. ASSUME NEW w \in Processes, Acts(w)
      PROVE  Linked'
  BY <1>0, <1>2, StepLinked
<1>3. CASE UNCHANGED vars
  BY <1>0, <1>3 DEF vars, inboxVars, Linked, Home, Gone, Proven, Stored
<1> QED
  BY <1>1, <1>2, <1>3 DEF Next, Acts

LEMMA InitLinked == Init => LinkedInv
  BY DEF Init, OutboxInit, InboxInit, NewRow, Missing, Idle, LinkedInv, Linked, Home, Gone,
         Proven, Stored

LEMMA LinkedAlways == Spec => [](Core /\ Custody /\ LinkedInv)
<1>1. Init => Core /\ Custody /\ LinkedInv
  BY InitCore, InitCustody, InitLinked
<1>2. Core /\ Custody /\ LinkedInv /\ [Next]_vars => (Core /\ Custody /\ LinkedInv)'
  BY NextCore, NextCustody, NextLinked
<1> QED
  BY <1>1, <1>2, PTL DEF Spec

(* While the project stays linked, a row that is recorded as pruned, and   *)
(* so may be deleted by local retention, has no copy left in the remote    *)
(* inbox, whatever answers were lost (pruneAcknowledged).                  *)
THEOREM PruneIsProven == Spec => []PrunedIsGone
<1>1. LinkedInv => PrunedIsGone
  BY DEF LinkedInv, Linked, Gone, PrunedIsGone
<1> QED
  BY <1>1, LinkedAlways, PTL

-----------------------------------------------------------------------------
(* An event is applied once: a copy that was applied stays, or its row is  *)
(* done, or - after a relink - a pass that has withdrawn it is about to    *)
(* settle its row.                                                         *)
Steady == trouble.relinks = 0 \/ trouble.faults = 0

InFlight(e) ==
  \E w \in Processes :
    /\ worker[w].pc \in {"settle", "requeue"} /\ e \in worker[w].todo
    /\ worker[w].view[e].kind = "applied"
    /\ worker[w].pc = "requeue" => worker[w].view[e].id = outbox[e].inbox

Single(e) ==
  applied[e] > 0 =>
    /\ applied[e] = 1
    /\ \/ inbox[e].status = "applied"
       \/ /\ inbox[e].status = "none"
          /\ \/ outbox[e].state \in {"acknowledged", "deleted"}
             \/ trouble.relinks # 0 /\ InFlight(e)

OnceOnly == Steady => \A e \in Events : Single(e)

LEMMA DoneStays ==
  ASSUME Core, Custody, NEW w \in Processes, Acts(w), NEW e \in Events,
         outbox[e].state \in {"acknowledged", "deleted"}
  PROVE  outbox'[e].state \in {"acknowledged", "deleted"}
  BY RowSteps DEF RowTurn

LEMMA SettlingFlight ==
  ASSUME Core, Custody, NEW w \in Processes, SettleUpload(w), NEW e \in worker[w].todo,
         worker[w].view[e].kind = "applied"
  PROVE  InFlight(e)' \/ outbox'[e].state = "acknowledged"
<1>0. Types /\ Covered(w) /\ worker[w].pc = "settle" /\ e \in Events
  BY CoreParts, WorkerFields DEF SettleUpload, At
<1>1. PICK d \in worker[w].todo :
        /\ OneRow(d, AfterUpload(outbox[d], w, worker[w].view[d]))
        /\ Works(w, d, "settle",
                 Kept(d, worker[w].view[d].kind, {"absent", "released", "bound"}),
                 "renew", "insert")
  BY <1>0, SettleUploadStep
<1>2. CASE d = e
  BY <1>0, <1>1, <1>2, SettledUpload DEF OneRow
<1>3. CASE d # e
  <2>1. e \in worker[w].todo \ {d}
    BY <1>3
  <2>2. /\ worker'[w].pc = "settle" /\ e \in worker'[w].todo
        /\ worker'[w].view = worker[w].view
    BY <1>1, <2>1 DEF Works
  <2> QED
    BY <2>2 DEF InFlight
<1> QED
  BY <1>2, <1>3

LEMMA RequeueingFlight ==
  ASSUME Core, Custody, NEW w \in Processes, Requeue(w), NEW e \in worker[w].todo,
         worker[w].view[e].kind = "applied", worker[w].view[e].id = outbox[e].inbox
  PROVE  InFlight(e)' \/ outbox'[e].state = "acknowledged"
<1>0. Types /\ worker[w].pc = "requeue" /\ e \in Events /\ worker[w].todo \subseteq Events
  BY CoreParts, WorkerFields DEF Requeue, At
<1>1. PICK d \in worker[w].todo :
        /\ outbox' = [outbox EXCEPT ![d] = AfterWithdraw(outbox[d], worker[w].view[d])]
        /\ Becomes(w, IF worker[w].todo = {d} THEN Done(w, "prune")
                      ELSE [worker[w] EXCEPT !.todo = worker[w].todo \ {d}])
  BY DEF Requeue
<1>2. outbox \in [Events -> RowSet] /\ worker \in [Processes -> WorkerSet]
  BY <1>0 DEF Types, StoreTypes, WorkerTypes
<1>3. CASE d = e
  <2>1. outbox'[e] = AfterWithdraw(outbox[e], worker[w].view[e])
    BY <1>0, <1>1, <1>2, <1>3
  <2> QED
    BY <1>0, <2>1, SettledWithdraw
<1>4. CASE d # e
  <2>1. Becomes(w, [worker[w] EXCEPT !.todo = worker[w].todo \ {d}])
    BY <1>1, <1>4
  <2>2. worker'[w] = [worker[w] EXCEPT !.todo = worker[w].todo \ {d}]
    BY <1>2, <2>1 DEF Becomes
  <2>3. worker[w] \in WorkerSet
    BY <1>2
  <2>4. /\ worker'[w].pc = "requeue" /\ worker'[w].todo = worker[w].todo \ {d}
        /\ worker'[w].view = worker[w].view
    BY <1>0, <2>2, <2>3 DEF WorkerSet
  <2>5. outbox'[e] = outbox[e]
    BY <1>0, <1>1, <1>2, <1>4
  <2> QED
    BY <1>4, <2>4, <2>5 DEF InFlight
<1> QED
  BY <1>3, <1>4

LEMMA FlightStays ==
  ASSUME Core, Custody, NEW w \in Processes, Acts(w), trouble'.faults = 0, NEW e \in Events,
         InFlight(e)
  PROVE  InFlight(e)' \/ outbox'[e].state = "acknowledged"
<1>1. PICK v \in Processes :
        /\ worker[v].pc \in {"settle", "requeue"} /\ e \in worker[v].todo
        /\ worker[v].view[e].kind = "applied"
        /\ worker[v].pc = "requeue" => worker[v].view[e].id = outbox[e].inbox
  BY DEF InFlight
<1>2. CASE v # w
  <2>1. Undisturbed(v) /\ worker[v].pc \in BusyPcs
    BY <1>1, <1>2, Bystanders DEF BusyPcs, UploadPcs, RemotePcs
  <2>2. worker'[v] = worker[v] /\ outbox' = outbox
    BY <2>1 DEF Undisturbed, Untouched, RowsKept
  <2> QED
    BY <1>1, <2>2 DEF InFlight
<1>3. CASE v = w
  <2>1. ~Crash(w)
    BY TroubleForm DEF Crash, Core, Types, WorldTypes
  <2>2. SettleUpload(w) \/ Requeue(w)
    BY <1>1, <1>3, <2>1, PcForms DEF Acts, Step, StartPass, ClaimLocal, ScreenOut, Upload,
       ReadBack, Withdraw, Renew, Fetch, RenewForApply, Apply, ReadBackClaim, Punish, Reconcile,
       Observe, WithdrawUnbound, PruneRemote, PruneRead, PruneLocal, Release, Abort, At, Inside
  <2>3. CASE SettleUpload(w)
    BY <1>1, <1>3, <2>3, SettlingFlight
  <2>4. CASE Requeue(w)
    <3>1. worker[w].pc = "requeue"
      BY <2>4 DEF Requeue, At
    <3> QED
      BY <1>1, <1>3, <2>4, <3>1, RequeueingFlight
  <2> QED
    BY <2>2, <2>3, <2>4
<1> QED
  BY <1>2, <1>3

\* The copy of an event stays as it is.
LEMMA CopyStays ==
  ASSUME Core, Custody, NEW w \in Processes, Acts(w), Steady', NEW e \in Events, Single(e),
         inbox'[e].status = inbox[e].status, applied'[e] = applied[e]
  PROVE  Single(e)'
<1>1. trouble'.relinks = trouble.relinks
  BY StepAside DEF Aside
<1>2. ASSUME trouble.relinks # 0, InFlight(e)
      PROVE  InFlight(e)' \/ outbox'[e].state = "acknowledged"
  BY <1>1, <1>2, FlightStays DEF Steady
<1>3. ASSUME outbox[e].state \in {"acknowledged", "deleted"}
      PROVE  outbox'[e].state \in {"acknowledged", "deleted"}
  BY <1>3, DoneStays
<1> QED
  BY <1>1, <1>2, <1>3 DEF Single

LEMMA MovesSingle ==
  ASSUME Core, Custody, NEW w \in Processes, Acts(w), Steady', NEW e \in Events, Single(e),
         InboxMoves(w)
  PROVE  Single(e)'
<1>0. applied \in [Events -> Nat] /\ applied[e] \in Nat
  BY RowFields DEF Core, Types, StoreTypes
<1>1. CASE InboxKept
  BY <1>1, CopyStays DEF InboxKept
<1>2. CASE Claims(w)
  <2>1. PICK d \in Events, stale \in {Abandoned, AllClaims} :
          /\ d \in Claimable(worker[w].project, stale) /\ RowMoves(d, "claimed") /\ AppliedKept
    BY <1>2 DEF Claims
  <2>2. inbox[d].status \in {"pending", "retry", "claimed"}
    BY <2>1 DEF Claimable, Abandoned, AllClaims
  <2>3. CASE d = e
    BY <1>0, <2>1, <2>2, <2>3 DEF Single, AppliedKept
  <2>4. CASE d # e
    BY <2>1, <2>4, CopyStays DEF RowMoves, AppliedKept
  <2> QED
    BY <2>3, <2>4
<1>3. CASE Fails
  <2>1. PICK d \in Events, st \in {"quarantined", "retry"} :
          inbox[d].status = "claimed" /\ RowMoves(d, st) /\ AppliedKept
    BY <1>3 DEF Fails
  <2>2. CASE d = e
    BY <1>0, <2>1, <2>2 DEF Single, AppliedKept
  <2>3. CASE d # e
    BY <2>1, <2>3, CopyStays DEF RowMoves, AppliedKept
  <2> QED
    BY <2>2, <2>3
<1>4. CASE Applies
  <2>1. PICK d \in Events : /\ inbox[d].status = "claimed" /\ RowMoves(d, "applied")
                            /\ applied' = [applied EXCEPT ![d] = applied[d] + 1]
    BY <1>4 DEF Applies
  <2>2. CASE d = e
    <3>1. applied[e] = 0
      BY <1>0, <2>1, <2>2 DEF Single
    <3>2. applied'[e] = 1 /\ inbox'[e].status = "applied"
      BY <1>0, <2>1, <2>2, <3>1 DEF RowMoves
    <3> QED
      BY <3>2 DEF Single
  <2>3. CASE d # e
    BY <1>0, <2>1, <2>3, CopyStays DEF RowMoves
  <2> QED
    BY <2>2, <2>3
<1> QED
  BY <1>1, <1>2, <1>3, <1>4 DEF InboxMoves

LEMMA InsertsSingle ==
  ASSUME Core, Custody, NEW w \in Processes, Acts(w), Steady', NEW e \in Events, Single(e),
         Inserts(w)
  PROVE  Single(e)'
<1>0. applied'[e] = applied[e] /\ applied[e] \in Nat
  BY RowFields DEF Core, Types, Inserts, Inserted
<1>1. CASE inbox'[e] = inbox[e]
  BY <1>0, <1>1, CopyStays
<1>2. CASE inbox'[e] # inbox[e]
  <2>1. inbox[e].status = "none" /\ inbox'[e].status # "none"
    BY <1>2 DEF Inserts, Inserted, Stored
  <2>2. worker[w].pc = "insert" /\ outbox[e].state = "claimed"
    BY <2>1, NewCopies
  <2>3. ~InFlight(e)
    <3>1. ASSUME NEW v \in Processes, worker[v].pc \in {"settle", "requeue"}
          PROVE  FALSE
      <4>1. worker[v].pc \in BusyPcs /\ worker[w].pc \in BusyPcs
        BY <2>2, <3>1 DEF BusyPcs, UploadPcs, RemotePcs
      <4>2. v = w
        BY <4>1, BusyIsInside DEF Core, Exclusive
      <4> QED
        BY <2>2, <3>1, <4>2
    <3> QED
      BY <3>1 DEF InFlight
  <2>4. ~(applied[e] > 0)
    BY <2>1, <2>2, <2>3 DEF Single
  <2> QED
    BY <1>0, <2>4 DEF Single
<1> QED
  BY <1>1, <1>2

LEMMA DeletesSingle ==
  ASSUME Core, Custody, NEW w \in Processes, Acts(w), Steady', NEW e \in Events, Single(e),
         Deletes(w)
  PROVE  Single(e)'
<1>1. PICK G \in SUBSET AwaitingPrune :
        Emptied(G) /\ \A d \in G : inbox[d].status = "applied"
  BY DEF Deletes
<1>2. applied'[e] = applied[e]
  BY <1>1 DEF Emptied
<1>3. CASE e \notin G
  BY <1>1, <1>2, <1>3, CopyStays DEF Emptied
<1>4. CASE e \in G
  <2>1. outbox'[e].state \in {"acknowledged", "deleted"}
    BY <1>4, DoneStays DEF AwaitingPrune
  <2>2. inbox'[e].status = "none"
    BY <1>1, <1>4, MissingForm DEF Emptied
  <2>3. inbox[e].status = "applied"
    BY <1>1, <1>4
  <2> QED
    BY <1>2, <2>1, <2>2, <2>3 DEF Single
<1> QED
  BY <1>3, <1>4

\* What a withdrawal deletes of a copy that was applied.
LEMMA WithdrawnSingle ==
  ASSUME Core, NEW S \in EventSets, NEW p, NEW ids, NEW stale, NEW f,
         Withdrawn(S, p, ids, stale, f), NEW e \in Events, Single(e)
  PROVE  /\ applied'[e] = applied[e]
         /\ \/ inbox'[e] = inbox[e]
            \/ applied[e] = 0
            \/ /\ e \in S /\ inbox'[e].status = "none"
               /\ f[e].kind = "applied" /\ f[e].id = inbox[e].id /\ ~OtherCopy(e, ids[e])
<1> DEFINE G == {d \in S : f[d].kind \in {"applied", "released"}}
<1>0. Emptied(G) /\ applied[e] \in Nat
  BY RowFields DEF Withdrawn, Core, Types
<1>1. applied'[e] = applied[e]
  BY <1>0 DEF Emptied
<1>2. CASE e \notin G
  BY <1>0, <1>1, <1>2 DEF Emptied
<1>3. CASE e \in G
  <2>1. e \in S /\ f[e].kind \in {"applied", "released"} /\ f[e].id = inbox[e].id
        /\ f[e].kind = WithdrawOutcome(e, p, ids[e], stale)
    BY <1>3 DEF Withdrawn
  <2>2. inbox'[e].status = "none"
    BY <1>0, <1>3, MissingForm DEF Emptied
  <2>3. Stored(e) /\ ~In(e, p) /\ ~OtherCopy(e, ids[e])
    <3>1. f[e].kind \notin {"absent", "bound", "mismatch"}
      BY <2>1
    <3> QED
      BY <2>1, <3>1 DEF WithdrawOutcome, In, Elsewhere, Stored
  <2>4. ASSUME f[e].kind = "released"
        PROVE  inbox[e].status # "applied"
    BY <2>1, <2>3, <2>4 DEF WithdrawOutcome, In, Elsewhere
  <2>5. applied[e] > 0 => inbox[e].status = "applied"
    BY <2>3 DEF Single, Stored
  <2> QED
    BY <1>0, <1>1, <2>1, <2>2, <2>3, <2>4, <2>5
<1> QED
  BY <1>2, <1>3

LEMMA WithdrawSingle ==
  ASSUME Core, Custody, NEW w \in Processes, Withdraw(w), Steady', trouble'.relinks # 0,
         NEW e \in Events, Single(e)
  PROVE  Single(e)'
<1>0. Types /\ worker[w].todo \in EventSets /\ Acts(w) /\ trouble \in TroubleSet
  BY WorkerFields DEF Core, Types, WorldTypes, Acts, Step
<1>1. ~Fault
  BY <1>0, TroubleForm DEF Steady
<1>2. CASE InboxKept
  BY <1>0, <1>2, CopyStays DEF InboxKept
<1>3. CASE ~InboxKept
  <2>1. PICK stale \in {Abandoned, AllClaims}, f \in ViewSet :
          /\ Withdrawn(worker[w].todo, worker[w].project, [d \in worker[w].todo |-> 0], stale, f)
          /\ Comes(w, "settle", worker[w].todo) /\ worker'[w].view = f
    BY <1>0, <1>1, <1>3, WithdrawStep
  <2>2. /\ applied'[e] = applied[e]
        /\ \/ inbox'[e] = inbox[e]
           \/ applied[e] = 0
           \/ e \in worker[w].todo /\ inbox'[e].status = "none" /\ f[e].kind = "applied"
    BY <1>0, <2>1, WithdrawnSingle
  <2>3. CASE inbox'[e] = inbox[e]
    BY <1>0, <2>2, <2>3, CopyStays
  <2>4. CASE e \in worker[w].todo /\ inbox'[e].status = "none" /\ f[e].kind = "applied"
    <3>1. InFlight(e)'
      BY <2>1, <2>4 DEF InFlight, Comes
    <3> QED
      BY <2>2, <2>4, <3>1 DEF Single
  <2>5. CASE applied[e] = 0
    BY <2>2, <2>5 DEF Single
  <2> QED
    BY <2>2, <2>3, <2>4, <2>5
<1> QED
  BY <1>2, <1>3

LEMMA WithdrawUnboundSingle ==
  ASSUME Core, Custody, NEW w \in Processes, WithdrawUnbound(w), Steady', trouble'.relinks # 0,
         NEW e \in Events, Single(e)
  PROVE  Single(e)'
<1>0. /\ Types /\ worker[w].todo \in EventSets /\ Acts(w) /\ trouble \in TroubleSet
      /\ worker[w].pc = "unbound" /\ Hand(w)
  BY WorkerFields DEF Core, Types, WorldTypes, Acts, Step, WithdrawUnbound, At, Custody
<1>1. ~Fault
  BY <1>0, TroubleForm DEF Steady
<1>2. CASE InboxKept
  BY <1>0, <1>2, CopyStays DEF InboxKept
<1>3. CASE ~InboxKept
  <2> DEFINE ids == [d \in worker[w].todo |-> outbox[d].inbox]
  <2>1. RowsKept /\ \E stale \in {Abandoned, AllClaims}, f \in ViewSet :
          /\ Withdrawn(worker[w].todo, worker[w].project, ids, stale, f)
          /\ Comes(w, "requeue", worker[w].todo) /\ worker'[w].view = f
    BY <1>0, <1>1, <1>3, WithdrawUnboundStep
  <2>2. PICK stale \in {Abandoned, AllClaims}, f \in ViewSet :
          /\ Withdrawn(worker[w].todo, worker[w].project, ids, stale, f)
          /\ Comes(w, "requeue", worker[w].todo) /\ worker'[w].view = f
    BY <2>1
  <2>3. ASSUME e \in worker[w].todo
        PROVE  ids[e] = outbox[e].inbox /\ outbox[e].inbox # 0
    BY <1>0, <2>3 DEF Hand, RemotePcs
  <2> HIDE DEF ids
  <2>4. /\ applied'[e] = applied[e]
        /\ \/ inbox'[e] = inbox[e]
           \/ applied[e] = 0
           \/ /\ e \in worker[w].todo /\ inbox'[e].status = "none"
              /\ f[e].kind = "applied" /\ f[e].id = inbox[e].id /\ ~OtherCopy(e, ids[e])
    BY <1>0, <2>2, WithdrawnSingle
  <2>5. CASE inbox'[e] = inbox[e]
    BY <1>0, <2>4, <2>5, CopyStays
  <2>6. CASE /\ e \in worker[w].todo /\ inbox'[e].status = "none" /\ f[e].kind = "applied"
             /\ f[e].id = inbox[e].id /\ ~OtherCopy(e, ids[e])
    <3>1. f[e].id = outbox'[e].inbox
      BY <2>1, <2>3, <2>6 DEF OtherCopy, RowsKept
    <3>2. InFlight(e)'
      BY <2>2, <2>6, <3>1 DEF InFlight, Comes
    <3> QED
      BY <2>4, <2>6, <3>2 DEF Single
  <2>7. CASE applied[e] = 0
    BY <2>4, <2>7 DEF Single
  <2> QED
    BY <2>4, <2>5, <2>6, <2>7
<1> QED
  BY <1>2, <1>3

LEMMA WithdrawsSingle ==
  ASSUME Core, Custody, LinkedInv, NEW w \in Processes, Acts(w), Steady', NEW e \in Events,
         Single(e), Withdraws(w)
  PROVE  Single(e)'
<1>0. trouble'.relinks = trouble.relinks
  BY StepAside DEF Aside
<1>1. CASE trouble.relinks = 0
  <2>1. InboxKept
    BY <1>1, WithdrawnAtHome DEF LinkedInv, Linked, Withdraws
  <2> QED
    BY <2>1, CopyStays DEF InboxKept
<1>2. CASE trouble.relinks # 0
  <2>1. Withdraw(w) \/ WithdrawUnbound(w) \/ Crash(w)
    BY PcForms DEF Withdraws, Acts, Step, StartPass, ClaimLocal, ScreenOut, Upload, ReadBack,
       SettleUpload, Renew, Fetch, RenewForApply, Apply, ReadBackClaim, Punish, Reconcile, Observe,
       Requeue, PruneRemote, PruneRead, PruneLocal, Release, Abort, At, Inside
  <2>2. ASSUME Crash(w)
        PROVE  InboxKept
    BY <2>2, EndingsStep DEF Core
  <2>3. CASE InboxKept
    BY <2>3, CopyStays DEF InboxKept
  <2> QED
    BY <1>0, <1>2, <2>1, <2>2, <2>3, WithdrawSingle, WithdrawUnboundSingle
<1> QED
  BY <1>1, <1>2

LEMMA StepOnce ==
  ASSUME Core, Custody, LinkedInv, NEW w \in Processes, Acts(w), Steady', NEW e \in Events,
         Single(e)
  PROVE  Single(e)'
  BY InboxSteps, MovesSingle, DeletesSingle, InsertsSingle, WithdrawsSingle

LEMMA WorldOnce ==
  ASSUME Core, Custody, World, NEW e \in Events, Single(e)
  PROVE  Single(e)'
<1>0. /\ Types /\ worker' = worker /\ applied[e] \in Nat
      /\ trouble.relinks # 0 => trouble'.relinks # 0
  BY WorldGood, TroublesGrow, RowFields DEF Core, Types, Next
<1>1. ASSUME InFlight(e)
      PROVE  InFlight(e)'
  <2>1. PICK v \in Processes :
          /\ worker[v].pc \in {"settle", "requeue"} /\ e \in worker[v].todo
          /\ worker[v].view[e].kind = "applied"
          /\ worker[v].pc = "requeue" => worker[v].view[e].id = outbox[e].inbox
    BY <1>1 DEF InFlight
  <2>2. outbox' = outbox
    BY <2>1, Spectators DEF Undisturbed, Untouched, RowsKept, BusyPcs, UploadPcs, RemotePcs
  <2> QED
    BY <1>0, <2>1, <2>2 DEF InFlight
<1>2. ASSUME outbox[e].state \in {"acknowledged", "deleted"}
      PROVE  outbox'[e].state \in {"acknowledged", "deleted"}
  <2>1. ASSUME NEW d \in Events, AppendEvent(d)
        PROVE  outbox'[e].state \in {"acknowledged", "deleted"}
    <3>1. outbox[d].state = "absent" /\ OneRow(d, NewRow("pending"))
      BY <1>0, <2>1, AppendStep
    <3> QED
      BY <1>2, <3>1 DEF OneRow
  <2>2. ASSUME NEW d \in Events, Retain(d)
        PROVE  outbox'[e].state \in {"acknowledged", "deleted"}
    <3>1. OneRow(d, NewRow("deleted"))
      BY <1>0, <2>2, RetainStep
    <3> QED
      BY <1>2, <3>1 DEF OneRow, NewRow
  <2>3. CASE ReplayLocal
    <3>1. PICK d \in Events : OneRow(d, replayQuarantinedRow(outbox[d]))
      BY <1>0, <2>3, ReplayLocalStep
    <3> QED
      BY <1>2, <3>1 DEF OneRow, replayQuarantinedRow
  <2> QED
    BY <1>2, <2>1, <2>2, <2>3 DEF World, ReplayRead, Relink, ReplayRemote, LeaseRunsOut
<1>3. CASE ReplayRemote
  <2>1. /\ applied' = applied
        /\ \/ InboxKept
           \/ \E d \in Events : inbox[d].status = "quarantined" /\ RowMoves(d, "pending")
    BY <1>0, <1>3, ReplayRemoteStep DEF AppliedKept
  <2>2. inbox'[e] = inbox[e] \/ inbox[e].status = "quarantined"
    BY <2>1 DEF InboxKept, RowMoves
  <2> QED
    BY <1>0, <1>1, <1>2, <2>1, <2>2 DEF Single
<1>4. CASE ~ReplayRemote
  <2>1. inbox' = inbox /\ applied' = applied
    BY <1>4 DEF World, AppendEvent, Retain, ReplayRead, Relink, ReplayLocal, LeaseRunsOut, inboxVars
  <2> QED
    BY <1>0, <1>1, <1>2, <2>1 DEF Single
<1> QED
  BY <1>3, <1>4

LEMMA NextOnce ==
  ASSUME Core, Custody, LinkedInv, OnceOnly, [Next]_vars
  PROVE  OnceOnly'
<1> SUFFICES ASSUME Steady', NEW e \in Events
             PROVE  Single(e)'
  BY DEF OnceOnly
<1>0. Single(e)
  BY TroublesGrow DEF OnceOnly, Steady
<1>1. CASE World
  BY <1>0, <1>1, WorldOnce
<1>2. ASSUME NEW w \in Processes, Acts(w)
      PROVE  Single(e)'
  BY <1>0, <1>2, StepOnce
<1>3. CASE UNCHANGED vars
  BY <1>0, <1>3 DEF vars, inboxVars, Single, InFlight
<1> QED
  BY <1>1, <1>2, <1>3 DEF Next, Acts

LEMMA InitOnce == Init => OnceOnly
  BY DEF Init, InboxInit, OnceOnly, Single

LEMMA OnceAlways == Spec => [](Core /\ Custody /\ LinkedInv /\ OnceOnly)
<1>1. Init => Core /\ Custody /\ LinkedInv /\ OnceOnly
  BY InitCore, InitCustody, InitLinked, InitOnce
<1>2. Core /\ Custody /\ LinkedInv /\ OnceOnly /\ [Next]_vars
        => (Core /\ Custody /\ LinkedInv /\ OnceOnly)'
  BY NextCore, NextCustody, NextLinked, NextOnce
<1> QED
  BY <1>1, <1>2, PTL DEF Spec

(* While the project stays linked an event becomes applied at most once,   *)
(* whatever is retried, replayed, pruned or lost; after a relink too, as   *)
(* long as no call fails and no process dies between the withdrawal of an  *)
(* applied copy and the settlement of its row (insertEvents,               *)
(* releaseFromOtherProjects, completeApplied, pruneApplied).               *)
THEOREM DeliveredOnce == Spec => []AppliedOnce
<1>1. Core /\ OnceOnly => AppliedOnce
  <2> SUFFICES ASSUME Core, OnceOnly, Steady, NEW e \in Events
               PROVE  applied[e] <= 1
    BY DEF AppliedOnce, Steady
  <2>1. applied[e] \in Nat
    BY RowFields DEF Core, Types
  <2> QED
    BY <2>1 DEF OnceOnly, Single
<1> QED
  BY <1>1, OnceAlways, PTL

-----------------------------------------------------------------------------
(* The order of the events.  Rows are captured in sequence order.          *)
CapturedInOrder ==
  \A d, e \in Events : d < e /\ outbox[e].state # "absent" => outbox[d].state # "absent"

LEMMA NextCaptured ==
  ASSUME Core, Custody, CapturedInOrder, [Next]_vars
  PROVE  CapturedInOrder'
<1>0. Types
  BY DEF Core
<1>1. ASSUME \A e \in Events : outbox'[e].state = "absent" <=> outbox[e].state = "absent"
      PROVE  CapturedInOrder'
  BY <1>1 DEF CapturedInOrder
<1>2. ASSUME NEW w \in Processes, Acts(w)
      PROVE  CapturedInOrder'
  <2>1. ASSUME NEW e \in Events
        PROVE  outbox'[e].state = "absent" <=> outbox[e].state = "absent"
    BY <1>2, RowSteps DEF RowTurn
  <2> QED
    BY <1>1, <2>1
<1>3. ASSUME NEW c \in Events, AppendEvent(c)
      PROVE  CapturedInOrder'
  <2>1. /\ OneRow(c, NewRow("pending")) /\ outbox[c].state = "absent"
        /\ \A d \in Events : d < c => outbox[d].state # "absent"
    BY <1>0, <1>3, AppendStep
  <2>2. /\ outbox'[c].state # "absent"
        /\ \A d \in Events \ {c} : outbox'[d] = outbox[d]
    BY <2>1 DEF OneRow, NewRow
  <2> QED
    BY <2>1, <2>2 DEF CapturedInOrder
<1>4. ASSUME NEW c \in Events, Retain(c)
      PROVE  CapturedInOrder'
  <2>1. OneRow(c, NewRow("deleted")) /\ outbox[c].state = "acknowledged"
    BY <1>0, <1>4, RetainStep
  <2> QED
    BY <1>1, <2>1 DEF OneRow, NewRow
<1>5. CASE ReplayLocal
  <2>1. PICK c \in Events : OneRow(c, replayQuarantinedRow(outbox[c]))
    BY <1>0, <1>5, ReplayLocalStep
  <2> DEFINE r == replayQuarantinedRow(outbox[c])
  <2>2. outbox[c] \in RowSet
    BY <1>0, RowFields DEF Types
  <2>3. r = outbox[c] \/ (outbox[c].state = "quarantined" /\ r.state \in {"pending", "replicated"})
    BY <2>2, ReplayedForm
  <2>4. OneRow(c, r)
    BY <2>1
  <2> HIDE DEF r
  <2> QED
    BY <1>1, <2>3, <2>4 DEF OneRow
<1>6. CASE outbox' = outbox
  BY <1>1, <1>6
<1> QED
  BY <1>2, <1>3, <1>4, <1>5, <1>6
     DEF Next, World, Acts, ReplayRead, Relink, ReplayRemote, LeaseRunsOut, vars

(* While the project stays linked and nothing is replayed: rows that wait  *)
(* for their outcome have a copy or had one; an event arrives after the    *)
(* earlier ones, and is claimed when they are finished.                    *)
Arrived(e) == inbox[e].status # "none" \/ applied[e] > 0
Finished(e) == applied[e] > 0 \/ "quarantined" \in {outbox[e].state, inbox[e].status}

Arrivals ==
  /\ \A e \in Events : outbox[e].state = "replicated" => Arrived(e)
  /\ \A d, e \in Events : d < e /\ Arrived(e) => Arrived(d) \/ outbox[d].state = "quarantined"
  /\ \A d, e \in Events :
       d < e /\ (inbox[e].status = "claimed" \/ applied[e] > 0) => Finished(d)

\* A worker that is going to insert rows.
Sending(w) ==
  \/ worker[w].pc \in {"screen", "insert", "readback", "withdraw"}
  \/ worker[w].pc = "settle"
     /\ \A e \in worker[w].todo : worker[w].view[e].kind \in {"absent", "bound"}

\* What it saw is there.
Looked(w) ==
  worker[w].pc \in {"settle", "observe"} =>
    \A e \in worker[w].todo :
      worker[w].view[e].kind \in {"open", "applied", "quarantined"} => Arrived(e)
\* It sends no row before one that has to go first.
InTurn(w) ==
  Sending(w) =>
    \A e \in worker[w].todo \cup worker[w].again, d \in Deliverable :
      d < e => d \in worker[w].todo \cup worker[w].again
\* The rows are inserted again all together, or none of them.
Agreed(w) ==
  worker[w].pc = "settle" =>
    \/ \A e \in worker[w].todo : worker[w].view[e].kind \in {"absent", "bound"}
    \/ /\ worker[w].again = {}
       /\ \A e \in worker[w].todo :
            worker[w].view[e].kind \in {"open", "applied", "quarantined", "retry"}
Sight(w) == Looked(w) /\ InTurn(w) /\ Agreed(w)

InOrder == Arrivals /\ \A w \in Processes : Sight(w)

\* What arrived, or is finished, stays so.
ArrivedStays == \A e \in Events : Arrived(e) => Arrived(e)'

LEMMA StepArrived ==
  ASSUME Core, Custody, Home, NEW w \in Processes, Acts(w)
  PROVE  ArrivedStays
<1> SUFFICES ASSUME NEW e \in Events, Arrived(e)
             PROVE  Arrived(e)'
  BY DEF ArrivedStays
<1>0. /\ applied[e] \in Nat /\ applied'[e] \in Nat /\ applied[e] <= applied'[e]
      /\ inbox[e].status = "applied" => applied[e] > 0
  BY StepKeeps, RowFields DEF Keeps, AppliedGrows, Core, Types, Custody, Records, Fits
<1>1. CASE InboxMoves(w)
  BY <1>0, <1>1, MovesStored DEF Arrived
<1>2. CASE Deletes(w)
  <2>1. inbox'[e] = inbox[e] \/ inbox[e].status = "applied"
    BY <1>2 DEF Deletes, Emptied
  <2> QED
    BY <1>0, <2>1 DEF Arrived
<1>3. CASE Inserts(w)
  <2>1. inbox'[e] = inbox[e] \/ inbox'[e].status = "pending"
    BY <1>3 DEF Inserts, Inserted
  <2> QED
    BY <1>0, <2>1 DEF Arrived
<1> QED
  BY <1>1, <1>2, <1>3, HomeInboxSteps

LEMMA StepFinished ==
  ASSUME Core, Custody, Home, NEW w \in Processes, Acts(w), NEW e \in Events, Finished(e)
  PROVE  Finished(e)'
<1>0. /\ applied[e] \in Nat /\ applied'[e] \in Nat /\ applied[e] <= applied'[e]
      /\ inbox[e].status = "applied" => applied[e] > 0
  BY StepKeeps, RowFields DEF Keeps, AppliedGrows, Core, Types, Custody, Records, Fits
<1>1. CASE applied[e] > 0
  BY <1>0, <1>1 DEF Finished
<1>2. CASE outbox[e].state = "quarantined"
  BY <1>2, RowSteps DEF RowTurn, Finished, RemotePcs
<1>3. CASE inbox[e].status = "quarantined"
  <2>1. CASE InboxMoves(w)
    <3>1. CASE InboxKept
      BY <1>3, <3>1 DEF InboxKept, Finished
    <3>2. CASE Claims(w)
      <4>1. PICK d \in Events, stale \in {Abandoned, AllClaims} :
              d \in Claimable(worker[w].project, stale) /\ RowMoves(d, "claimed")
        BY <3>2 DEF Claims
      <4>2. inbox[d].status \in {"pending", "retry", "claimed"}
        BY <4>1 DEF Claimable, Abandoned, AllClaims
      <4> QED
        BY <1>3, <4>1, <4>2 DEF RowMoves, Finished
    <3>3. CASE Fails \/ Applies
      BY <1>3, <3>3 DEF Fails, Applies, RowMoves, Finished
    <3> QED
      BY <2>1, <3>1, <3>2, <3>3 DEF InboxMoves
  <2>2. CASE Deletes(w)
    <3>1. inbox'[e] = inbox[e]
      BY <1>3, <2>2 DEF Deletes, Emptied
    <3> QED
      BY <1>3, <3>1 DEF Finished
  <2>3. CASE Inserts(w)
    <3>1. inbox'[e] = inbox[e]
      BY <1>3, <2>3 DEF Inserts, Inserted, Stored
    <3> QED
      BY <1>3, <3>1 DEF Finished
  <2> QED
    BY <2>1, <2>2, <2>3, HomeInboxSteps
<1> QED
  BY <1>1, <1>2, <1>3 DEF Finished

\* The first copy of an event comes after the earlier events.
LEMMA ArrivesInTurn ==
  ASSUME Core, Custody, CapturedInOrder, Arrivals, NEW w \in Processes, InTurn(w), Acts(w),
         NEW d \in Events, NEW e \in Events, d < e,
         inbox[e].status = "none", inbox'[e].status # "none"
  PROVE  inbox'[d].status # "none" \/ Arrived(d) \/ outbox[d].state = "quarantined"
<1>1. /\ worker[w].pc = "insert" /\ e \in worker[w].todo /\ outbox[e].state = "claimed"
      /\ Inserts(w)
  BY NewCopies
<1>2. worker[w].again = {} /\ outbox[d].state \in OutboxStates
      /\ Fits(outbox[d], inbox[d], applied[d])
  BY <1>1, CoreParts, RowFields DEF Sound, RowSet, Custody, Records
<1>3. CASE d \in Deliverable
  <2>1. d \in worker[w].todo
    BY <1>1, <1>2, <1>3 DEF InTurn, Sending
  <2> QED
    BY <1>1, <2>1 DEF Inserts, Inserted, Stored
<1>4. CASE outbox[d].state = "absent"
  BY <1>1, <1>4 DEF CapturedInOrder
<1>5. CASE outbox[d].state \in {"replicated", "acknowledged", "deleted"}
  BY <1>2, <1>5 DEF Arrivals, Arrived, Fits
<1> QED
  BY <1>2, <1>3, <1>4, <1>5 DEF Deliverable, OutboxStates

\* An event is claimed after the earlier events are finished.
LEMMA ClaimedInTurn ==
  ASSUME Core, Custody, Home, Arrivals, NEW w \in Processes, Claims(w),
         NEW d \in Events, NEW e \in Events, d < e,
         inbox[e].status # "claimed", inbox'[e].status = "claimed"
  PROVE  Finished(d)
<1>1. PICK c \in Events, stale \in {Abandoned, AllClaims} :
        c \in Claimable(worker[w].project, stale) /\ RowMoves(c, "claimed")
  BY DEF Claims
<1>2. c = e
  BY <1>1 DEF RowMoves
<1>3. /\ inbox[e].status # "none" /\ worker[w].project = HomeProject
      /\ ~Behind(e, HomeProject)
  BY <1>1, <1>2 DEF Claimable, In, Stored, Home
<1>4. Arrived(d) \/ outbox[d].state = "quarantined"
  BY <1>3 DEF Arrivals, Arrived
<1>5. ASSUME inbox[d].status # "none"
      PROVE  inbox[d].status \in {"applied", "quarantined"}
  BY <1>3, <1>5 DEF Behind, In, Stored, Home, Terminal
<1>6. inbox[d].status = "applied" => applied[d] > 0
  BY DEF Custody, Records, Fits
<1> QED
  BY <1>4, <1>5, <1>6 DEF Arrived, Finished

\* An event becomes applied from a claim.
LEMMA AppliedFromClaim ==
  ASSUME Core, NEW w \in Processes, Acts(w), NEW e \in Events, applied'[e] # applied[e]
  PROVE  inbox[e].status = "claimed"
<1>0. applied \in [Events -> Nat]
  BY DEF Core, Types, StoreTypes
<1>1. ~Deletes(w) /\ ~Inserts(w) /\ ~Withdraws(w)
  BY DEF Deletes, Inserts, Withdraws, Withdrawn, Emptied, Inserted
<1>2. Applies
  BY <1>1, InboxSteps DEF InboxMoves, InboxKept, Claims, Fails, AppliedKept
<1> QED
  BY <1>0, <1>2 DEF Applies

LEMMA StepArrivals ==
  ASSUME Core, Custody, CapturedInOrder, Home, Arrivals, NEW w \in Processes, Looked(w),
         InTurn(w), Acts(w)
  PROVE  Arrivals'
<1>0. ArrivedStays
  BY StepArrived
<1>1. ASSUME NEW e \in Events, outbox'[e].state = "replicated"
      PROVE  Arrived(e)'
  <2>1. CASE outbox'[e] = outbox[e]
    BY <1>0, <1>1, <2>1 DEF Arrivals, ArrivedStays
  <2>2. CASE e \in worker[w].todo /\ worker[w].pc = "settle" /\ worker[w].view[e].kind = "open"
    BY <1>0, <2>2 DEF Looked, ArrivedStays
  <2> QED
    BY <1>1, <2>1, <2>2, RowSteps DEF RowTurn
<1>2. ASSUME NEW d \in Events, NEW e \in Events, d < e, Arrived(e)'
      PROVE  Arrived(d)' \/ outbox'[d].state = "quarantined"
  <2>1. ASSUME Arrived(d) \/ outbox[d].state = "quarantined"
        PROVE  Arrived(d)' \/ outbox'[d].state = "quarantined"
    BY <1>0, <2>1, RowSteps DEF ArrivedStays, RowTurn, RemotePcs
  <2>2. CASE Arrived(e)
    BY <1>2, <2>1, <2>2 DEF Arrivals
  <2>3. CASE ~Arrived(e)
    <3>1. inbox[e].status = "none"
      BY <2>3 DEF Arrived
    <3>2. applied'[e] = applied[e]
      BY <3>1, AppliedFromClaim
    <3>3. inbox'[e].status # "none"
      BY <1>2, <2>3, <3>2 DEF Arrived
    <3>4. inbox'[d].status # "none" \/ Arrived(d) \/ outbox[d].state = "quarantined"
      BY <1>2, <3>1, <3>3, ArrivesInTurn
    <3> QED
      BY <2>1, <3>4 DEF Arrived
  <2> QED
    BY <2>2, <2>3
<1>3. ASSUME NEW d \in Events, NEW e \in Events, d < e,
             inbox'[e].status = "claimed" \/ applied'[e] > 0
      PROVE  Finished(d)'
  <2>1. ASSUME Finished(d)
        PROVE  Finished(d)'
    BY <2>1, StepFinished
  <2>2. CASE inbox[e].status = "claimed" \/ applied[e] > 0
    BY <1>3, <2>1, <2>2 DEF Arrivals
  <2>3. CASE ~(inbox[e].status = "claimed" \/ applied[e] > 0)
    <3>1. applied'[e] = applied[e]
      BY <2>3, AppliedFromClaim
    <3>2. inbox[e].status # "claimed" /\ inbox'[e].status = "claimed"
      BY <1>3, <2>3, <3>1
    <3>3. ~Deletes(w)
      <4>1. Deletes(w) => inbox'[e] = Missing \/ inbox'[e] = inbox[e]
        BY DEF Deletes, Emptied
      <4> QED
        BY <3>2, <4>1, MissingForm
    <3>4. ~Inserts(w)
      BY <3>2 DEF Inserts, Inserted
    <3>5. Claims(w)
      BY <3>2, <3>3, <3>4, HomeInboxSteps DEF InboxMoves, InboxKept, Fails, Applies, RowMoves
    <3> QED
      BY <1>3, <2>1, <3>2, <3>5, ClaimedInTurn
  <2> QED
    BY <2>2, <2>3
<1> QED
  BY <1>1, <1>2, <1>3 DEF Arrivals

\* What a worker sees, and sends.
SightPcs == UploadPcs \cup {"observe"}

LEMMA NoSight ==
  ASSUME NEW w \in Processes, worker'[w].pc \notin SightPcs
  PROVE  Sight(w)'
  BY DEF SightPcs, UploadPcs, Sight, Looked, InTurn, Agreed, Sending

LEMMA StillSight ==
  ASSUME Core, ArrivedStays, NEW v \in Processes, Sight(v), Undisturbed(v)
  PROVE  Sight(v)'
<1>1. CASE worker[v].pc \in BusyPcs
  <2>1. outbox' = outbox /\ worker'[v] = worker[v] /\ worker[v].todo \subseteq Events
    BY <1>1, WorkerFields DEF Undisturbed, Untouched, RowsKept, Core, Types
  <2>2. Looked(v)'
    BY <2>1 DEF Sight, Looked, ArrivedStays
  <2>3. InTurn(v)' /\ Agreed(v)'
    BY <2>1 DEF Sight, InTurn, Agreed, Sending, Deliverable
  <2> QED
    BY <2>2, <2>3 DEF Sight
<1>2. CASE worker[v].pc \notin BusyPcs
  BY <1>2, NoSight DEF Undisturbed, BusyPcs, RemotePcs, SightPcs
<1> QED
  BY <1>1, <1>2

LEMMA SameDeliverable ==
  ASSUME outbox' = outbox
  PROVE  Deliverable' = Deliverable
  BY DEF Deliverable

\* It has the same rows in hand, and is still on its way to send them.
LEMMA SameTurn ==
  ASSUME NEW w \in Processes, InTurn(w), Sending(w), outbox' = outbox,
         worker'[w].todo = worker[w].todo, worker'[w].again = worker[w].again
  PROVE  InTurn(w)'
  BY SameDeliverable DEF InTurn

LEMMA ClaimLocalSight ==
  ASSUME Core, NEW w \in Processes, ClaimLocal(w)
  PROVE  Sight(w)'
<1>0. Types /\ worker[w].again = {}
  BY CoreParts DEF Sound, ClaimLocal, At
<1>1. PICK S \in EventSets :
        /\ \A e \in S, d \in Deliverable : d < e => d \in S
        /\ \A e \in S : e \in Deliverable
        /\ \A e \in Events \ S : outbox'[e] = outbox[e]
        /\ Comes(w, "renew", S) \/ Comes(w, "screen", S)
  BY <1>0, ClaimLocalStep
<1>2. CASE Comes(w, "renew", S)
  BY <1>2, NoSight DEF Comes, SightPcs, UploadPcs
<1>3. CASE Comes(w, "screen", S)
  <2>1. ASSUME NEW d \in Deliverable'
        PROVE  d \in Deliverable
    BY <1>1, <2>1 DEF Deliverable
  <2>2. worker'[w].todo = S /\ worker'[w].again = {} /\ worker'[w].pc = "screen"
    BY <1>0, <1>3 DEF Comes
  <2>3. InTurn(w)'
    BY <1>1, <2>1, <2>2 DEF InTurn
  <2> QED
    BY <2>2, <2>3 DEF Sight, Looked, Agreed
<1> QED
  BY <1>1, <1>2, <1>3

LEMMA ScreenOutSight ==
  ASSUME Core, Custody, NEW w \in Processes, InTurn(w), ScreenOut(w)
  PROVE  Sight(w)'
<1>0. /\ Types /\ worker[w].again = {} /\ worker[w].pc = "screen" /\ Hand(w)
      /\ worker[w].todo \subseteq Events
  BY CoreParts, WorkerFields DEF Sound, ScreenOut, At, Custody
<1>1. CASE Turns(w, {"renew"})
  BY <1>1, NoSight DEF Turns, SightPcs, UploadPcs
<1>2. CASE RowsKept /\ Comes(w, "insert", worker[w].todo)
  <2>1. InTurn(w)'
    BY <1>0, <1>2, SameTurn DEF RowsKept, Comes, Sending
  <2> QED
    BY <1>2, <2>1 DEF Comes, Sight, Looked, Agreed
<1>3. CASE \E e \in worker[w].todo :
             /\ OneRow(e, markDeliveryQuarantined(outbox[e], w))
             /\ Comes(w, "screen", worker[w].todo \ {e})
  <2>1. PICK e \in worker[w].todo :
             /\ OneRow(e, markDeliveryQuarantined(outbox[e], w))
             /\ Comes(w, "screen", worker[w].todo \ {e})
    BY <1>3
  <2>2. /\ e \in Events /\ outbox[e] \in RowSet /\ Fits(outbox[e], inbox[e], applied[e])
        /\ outbox[e].state = "claimed" /\ outbox[e].owner = w
    BY <1>0, <2>1, RowFields DEF Types, Custody, Records, Hand, UploadPcs
  <2>3. outbox[e].inbox = 0
    BY <2>2 DEF Fits
  <2>4. Settled(outbox[e], "quarantined", 0).state = "quarantined"
    BY <2>2 DEF Settled, RowSet
  <2>5. outbox'[e].state = "quarantined" /\ \A d \in Events \ {e} : outbox'[d] = outbox[d]
    BY <2>1, <2>2, <2>3, <2>4 DEF OneRow, markDeliveryQuarantined, Claimed
  <2>6. \A d \in Deliverable' : d \in Deliverable \ {e}
    BY <2>5 DEF Deliverable
  <2>7. /\ worker'[w].todo = worker[w].todo \ {e} /\ worker'[w].again = {}
        /\ worker'[w].pc = "screen"
    BY <1>0, <2>1 DEF Comes
  <2>8. InTurn(w)'
    BY <1>0, <2>6, <2>7 DEF InTurn, Sending
  <2> QED
    BY <2>7, <2>8 DEF Sight, Looked, Agreed
<1> QED
  BY <1>0, <1>1, <1>2, <1>3, ScreenOutStep

\* Rows that were seen, or are to be retried.
LEMMA SettleSight ==
  ASSUME Core, NEW w \in Processes, worker[w].again = {}, Comes(w, "settle", worker[w].todo),
         \A e \in worker[w].todo :
           /\ worker'[w].view[e].kind \in {"open", "applied", "quarantined", "retry"}
           /\ worker'[w].view[e].kind # "retry" => Arrived(e)'
  PROVE  Sight(w)'
<1>1. /\ worker'[w].pc = "settle" /\ worker'[w].todo = worker[w].todo
      /\ worker'[w].again = {}
  BY DEF Comes
<1>2. Looked(w)' /\ Agreed(w)'
  BY <1>1 DEF Looked, Agreed
<1>3. InTurn(w)'
  <2>1. CASE worker[w].todo = {}
    BY <1>1, <2>1 DEF InTurn
  <2>2. CASE worker[w].todo # {}
    BY <1>1, <2>2 DEF InTurn, Sending
  <2> QED
    BY <2>1, <2>2
<1> QED
  BY <1>2, <1>3 DEF Sight

LEMMA RetriesSight ==
  ASSUME Core, NEW w \in Processes, worker[w].again = {}, Retries(w)
  PROVE  Sight(w)'
  BY SettleSight DEF Retries

LEMMA UploadSight ==
  ASSUME Core, NEW w \in Processes, InTurn(w), Upload(w)
  PROVE  Sight(w)'
<1>0. /\ Types /\ worker[w].again = {} /\ worker[w].pc = "insert" /\ worker[w].todo \subseteq Events
      /\ worker[w].project \in Projects
  BY CoreParts, WorkerFields DEF Sound, Upload, At
<1>1. RowsKept
  BY <1>0, UploadStep
<1>2. CASE Comes(w, "readback", worker[w].todo)
  <2>1. InTurn(w)'
    BY <1>0, <1>1, <1>2, SameTurn DEF RowsKept, Comes, Sending
  <2> QED
    BY <1>2, <2>1 DEF Comes, Sight, Looked, Agreed
<1>3. CASE /\ Inserted(worker[w].todo, worker[w].project)
           /\ Comes(w, "settle", worker[w].todo)
           /\ \A e \in worker[w].todo : worker'[w].view[e] = Seen(inbox'[e])
  <2>1. ASSUME NEW e \in worker[w].todo
        PROVE  /\ worker'[w].view[e].kind \in {"open", "applied", "quarantined", "retry"}
               /\ Arrived(e)'
    <3>1. inbox'[e].status # "none"
      BY <1>0, <1>3 DEF Inserted, Stored
    <3> QED
      BY <1>3, <3>1, SeenKinds DEF Arrived
  <2> QED
    BY <1>0, <1>3, <2>1, SettleSight
<1> QED
  BY <1>0, <1>2, <1>3, UploadStep

LEMMA ReadBackSight ==
  ASSUME Core, NEW w \in Processes, InTurn(w), ReadBack(w)
  PROVE  Sight(w)'
<1>0. /\ Types /\ worker[w].again = {} /\ worker[w].pc = "readback"
      /\ worker[w].todo \subseteq Events
  BY CoreParts, WorkerFields DEF Sound, ReadBack, At
<1>1. RowsKept /\ InboxKept
  BY <1>0, ReadBackStep
<1>2. CASE Retries(w)
  BY <1>0, <1>2, RetriesSight
<1>3. CASE Comes(w, "withdraw", worker[w].todo)
  <2>1. InTurn(w)'
    BY <1>0, <1>1, <1>3, SameTurn DEF RowsKept, Comes, Sending
  <2> QED
    BY <1>3, <2>1 DEF Comes, Sight, Looked, Agreed
<1>4. CASE /\ Comes(w, "settle", worker[w].todo)
           /\ \A e \in worker[w].todo : /\ In(e, worker[w].project)
                                        /\ worker'[w].view[e] = Seen(inbox[e])
  <2>1. ASSUME NEW e \in worker[w].todo
        PROVE  /\ worker'[w].view[e].kind \in {"open", "applied", "quarantined", "retry"}
               /\ Arrived(e)'
    BY <1>1, <1>4, SeenKinds DEF In, Stored, InboxKept, Arrived
  <2> QED
    BY <1>0, <1>4, <2>1, SettleSight
<1> QED
  BY <1>0, <1>2, <1>3, <1>4, ReadBackStep

LEMMA WithdrawSight ==
  ASSUME Core, Home, NEW w \in Processes, InTurn(w), Withdraw(w)
  PROVE  Sight(w)'
<1>0. Types /\ worker[w].again = {} /\ worker[w].pc = "withdraw"
  BY CoreParts DEF Sound, Withdraw, At
<1>1. RowsKept
  BY <1>0, WithdrawStep
<1>2. CASE Retries(w)
  BY <1>0, <1>2, RetriesSight
<1>3. CASE ~Retries(w)
  <2>1. PICK stale \in {Abandoned, AllClaims}, f \in ViewSet :
          /\ Withdrawn(worker[w].todo, worker[w].project, [e \in worker[w].todo |-> 0], stale, f)
          /\ Comes(w, "settle", worker[w].todo) /\ worker'[w].view = f
    BY <1>0, <1>3, WithdrawStep
  <2>2. \A e \in worker[w].todo : f[e].kind \in {"absent", "bound"}
    BY <1>0, <2>1, WithdrawnAtHome
  <2>3. InTurn(w)'
    BY <1>0, <1>1, <2>1, SameTurn DEF RowsKept, Comes, Sending
  <2> QED
    BY <2>1, <2>2, <2>3 DEF Comes, Sight, Looked, Agreed
<1> QED
  BY <1>2, <1>3

LEMMA SettleUploadSight ==
  ASSUME Core, Custody, Home, NEW w \in Processes, Sight(w), SettleUpload(w)
  PROVE  Sight(w)'
<1>0. /\ Types /\ Covered(w) /\ worker[w].pc = "settle"
      /\ worker[w].todo \subseteq Events /\ ArrivedStays
  BY CoreParts, WorkerFields, StepArrived DEF SettleUpload, At, Acts, Step
<1>1. PICK e \in worker[w].todo :
        /\ OneRow(e, AfterUpload(outbox[e], w, worker[w].view[e]))
        /\ Works(w, e, "settle",
                 Kept(e, worker[w].view[e].kind, {"absent", "released", "bound"}),
                 "renew", "insert")
  BY <1>0, SettleUploadStep
<1> DEFINE kind == worker[w].view[e].kind
<1>2. CASE worker'[w].pc = "renew"
  BY <1>2, NoSight DEF SightPcs, UploadPcs
<1>3. CASE \A d \in worker[w].todo : worker[w].view[d].kind \in {"absent", "bound"}
  <2>1. kind \in {"absent", "bound"} /\ Sending(w)
    BY <1>0, <1>1, <1>3 DEF Sending
  <2>2. Kept(e, kind, {"absent", "released", "bound"}) = {e}
    BY <2>1 DEF Kept
  <2>3. outbox'[e] = outbox[e]
    BY <1>0, <1>1, <2>1, SettledUpload DEF OneRow
  <2>4. \A d \in Deliverable' : d \in Deliverable
    BY <1>1, <2>3 DEF OneRow, Deliverable
  <2>5. \/ worker'[w].pc = "renew"
        \/ /\ worker'[w].pc \in {"settle", "insert"}
           /\ worker'[w].todo \cup worker'[w].again = worker[w].todo \cup worker[w].again
           /\ worker'[w].pc = "settle" =>
                worker'[w].todo \subseteq worker[w].todo /\ worker'[w].view = worker[w].view
    BY <1>1, <2>2 DEF Works
  <2>6. CASE /\ worker'[w].pc \in {"settle", "insert"}
             /\ worker'[w].todo \cup worker'[w].again = worker[w].todo \cup worker[w].again
             /\ worker'[w].pc = "settle" =>
                  worker'[w].todo \subseteq worker[w].todo /\ worker'[w].view = worker[w].view
    <3>1. InTurn(w)'
      BY <2>1, <2>4, <2>6 DEF Sight, InTurn
    <3>2. Looked(w)' /\ Agreed(w)'
      BY <1>3, <2>6 DEF Looked, Agreed
    <3> QED
      BY <3>1, <3>2 DEF Sight
  <2> QED
    BY <1>2, <2>5, <2>6
<1>4. CASE /\ worker[w].again = {}
           /\ \A d \in worker[w].todo :
                worker[w].view[d].kind \in {"open", "applied", "quarantined", "retry"}
  <2>1. Kept(e, kind, {"absent", "released", "bound"}) = {}
    BY <1>1, <1>4 DEF Kept
  <2>2. \/ worker'[w].pc = "renew"
        \/ /\ worker'[w].pc = "settle" /\ worker'[w].again = {} /\ worker'[w].todo # {}
           /\ worker'[w].todo \subseteq worker[w].todo /\ worker'[w].view = worker[w].view
        \/ /\ worker'[w].pc = "insert" /\ worker'[w].todo = {} /\ worker'[w].again = {}
    BY <1>1, <1>4, <2>1 DEF Works
  <2>3. CASE /\ worker'[w].pc = "settle" /\ worker'[w].again = {} /\ worker'[w].todo # {}
             /\ worker'[w].todo \subseteq worker[w].todo /\ worker'[w].view = worker[w].view
    <3>1. Looked(w)'
      BY <1>0, <2>3 DEF Sight, Looked, ArrivedStays
    <3>2. Agreed(w)'
      BY <1>4, <2>3 DEF Agreed
    <3>3. ~Sending(w)'
      BY <1>4, <2>3 DEF Sending
    <3> QED
      BY <3>1, <3>2, <3>3 DEF Sight, InTurn
  <2>4. CASE worker'[w].pc = "insert" /\ worker'[w].todo = {} /\ worker'[w].again = {}
    BY <2>4 DEF Sight, Looked, InTurn, Agreed
  <2> QED
    BY <1>2, <2>2, <2>3, <2>4
<1> QED
  BY <1>0, <1>3, <1>4 DEF Sight, Agreed

LEMMA ReconcileSight ==
  ASSUME Core, NEW w \in Processes, Reconcile(w)
  PROVE  Sight(w)'
<1>0. Types
  BY DEF Core
<1>1. CASE worker'[w].pc = "prune"
  BY <1>1, NoSight DEF SightPcs, UploadPcs
<1>2. CASE worker'[w].pc = "observe"
  <2>1. ASSUME NEW e \in AwaitingRemote,
               worker'[w].view[e].kind \in {"open", "applied", "quarantined"}
        PROVE  Arrived(e)'
    <3>1. InboxKept /\ In(e, worker[w].project)
      BY <1>0, <2>1, ReconcileStep
    <3> QED
      BY <3>1 DEF InboxKept, In, Stored, Arrived
  <2>2. worker'[w].todo = AwaitingRemote
    BY <1>0, ReconcileStep
  <2> QED
    BY <1>2, <2>1, <2>2 DEF Sight, Looked, InTurn, Agreed, Sending
<1> QED
  BY <1>0, <1>1, <1>2, ReconcileStep

LEMMA ObserveSight ==
  ASSUME Core, Custody, Home, NEW w \in Processes, Sight(w), Observe(w)
  PROVE  Sight(w)'
<1>0. /\ Types /\ Covered(w) /\ worker[w].pc = "observe" /\ worker[w].todo \subseteq Events
      /\ ArrivedStays
  BY CoreParts, WorkerFields, StepArrived DEF Observe, At, Acts, Step
<1>1. PICK e \in worker[w].todo :
        Works(w, e, "observe", Kept(e, worker[w].view[e].kind, {"missing"}), "prune", "unbound")
  BY <1>0, ObserveStep
<1>2. \/ worker'[w].pc \in {"prune", "unbound"}
      \/ /\ worker'[w].pc = "observe" /\ worker'[w].view = worker[w].view
         /\ worker'[w].todo \subseteq worker[w].todo
  BY <1>1 DEF Works
<1>3. CASE worker'[w].pc \in {"prune", "unbound"}
  BY <1>3, NoSight DEF SightPcs, UploadPcs
<1>4. CASE /\ worker'[w].pc = "observe" /\ worker'[w].view = worker[w].view
           /\ worker'[w].todo \subseteq worker[w].todo
  BY <1>0, <1>4 DEF Sight, Looked, InTurn, Agreed, Sending, ArrivedStays
<1> QED
  BY <1>2, <1>3, <1>4

LEMMA StepSight ==
  ASSUME Core, Custody, Home, NEW w \in Processes, Sight(w), Acts(w)
  PROVE  Sight(w)'
<1>0. Types
  BY DEF Core
<1>1. CASE Resting(w)
  BY <1>1, RestingStep, NoSight DEF BusyPcs, RemotePcs, SightPcs
<1>2. CASE ClaimLocal(w) \/ ScreenOut(w) \/ Upload(w) \/ ReadBack(w) \/ Withdraw(w)
           \/ SettleUpload(w) \/ Reconcile(w) \/ Observe(w)
  BY <1>2, ClaimLocalSight, ScreenOutSight, UploadSight, ReadBackSight, WithdrawSight,
     SettleUploadSight, ReconcileSight, ObserveSight DEF Sight
<1>3. CASE WithdrawUnbound(w) \/ Requeue(w) \/ PruneLocal(w)
  <2>1. worker'[w].pc \in {"unbound", "requeue", "pruned", "prune", "release"}
    BY <1>0, <1>3, CoreParts, WithdrawUnboundStep, RequeueStep, PruneLocalStep
       DEF Leaves, Comes, Turns
  <2> QED
    BY <2>1, NoSight DEF SightPcs, UploadPcs
<1>4. CASE PruneRemote(w) \/ PruneRead(w)
  <2>1. worker'[w].pc \in {"pruned", "pruneRead", "release"}
    BY <1>0, <1>4, PruneRemoteStep, PruneReadStep DEF Turns
  <2> QED
    BY <2>1, NoSight DEF SightPcs, UploadPcs
<1> QED
  BY <1>1, <1>2, <1>3, <1>4 DEF Acts, Step, Resting

LEMMA StepInOrder ==
  ASSUME Core, Custody, CapturedInOrder, Home, InOrder, NEW w \in Processes, Acts(w)
  PROVE  InOrder'
<1>1. Sight(w)
  BY DEF InOrder
<1>2. Arrivals'
  BY <1>1, StepArrivals DEF InOrder, Sight
<1>3. ASSUME NEW v \in Processes
      PROVE  Sight(v)'
  BY <1>1, StepSight, StepArrived, StillSight, Bystanders DEF InOrder
<1> QED
  BY <1>2, <1>3 DEF InOrder

-----------------------------------------------------------------------------
\* Nothing is replayed, and nothing has moved.
Calm == trouble.relinks = 0 /\ trouble.replays = 0
Ordered == Calm => replay = NoReplay /\ InOrder

LEMMA WorldInOrder ==
  ASSUME Core, Custody, Home, InOrder, replay = NoReplay, World, Calm'
  PROVE  replay' = NoReplay /\ InOrder'
<1>0. Types /\ trouble \in TroubleSet
  BY DEF Core, Types, WorldTypes
<1>1. /\ \A p \in Projects : ~Relink(p)
      /\ \A e \in Events : ~ReplayRead(e)
  BY <1>0, TroubleForm DEF Relink, ReplayRead, Calm
<1>2. ~ReplayLocal /\ ~ReplayRemote
  BY <1>0, ReplayLocalStep, ReplayRemoteStep
<1>3. InboxKept /\ replay' = replay
  BY <1>1, <1>2 DEF World, AppendEvent, Retain, LeaseRunsOut, InboxKept, inboxVars
<1>4. ASSUME NEW e \in Events
      PROVE  \/ outbox'[e] = outbox[e]
             \/ /\ outbox[e].state \in {"absent", "acknowledged"}
                /\ outbox'[e].state \in {"pending", "deleted"}
  <2>1. ASSUME NEW c \in Events, AppendEvent(c)
        PROVE  /\ outbox[c].state = "absent" /\ outbox'[c].state = "pending"
               /\ \A d \in Events \ {c} : outbox'[d] = outbox[d]
    <3>1. OneRow(c, NewRow("pending")) /\ outbox[c].state = "absent"
      BY <1>0, <2>1, AppendStep
    <3> QED
      BY <3>1 DEF OneRow, NewRow
  <2>2. ASSUME NEW c \in Events, Retain(c)
        PROVE  /\ outbox[c].state = "acknowledged" /\ outbox'[c].state = "deleted"
               /\ \A d \in Events \ {c} : outbox'[d] = outbox[d]
    <3>1. OneRow(c, NewRow("deleted")) /\ outbox[c].state = "acknowledged"
      BY <1>0, <2>2, RetainStep
    <3> QED
      BY <3>1 DEF OneRow, NewRow
  <2>3. CASE outbox' = outbox
    BY <2>3
  <2> QED
    BY <1>1, <1>2, <2>1, <2>2, <2>3 DEF World, LeaseRunsOut
<1>5. Arrivals'
  BY <1>3, <1>4 DEF InOrder, Arrivals, Arrived, Finished, InboxKept
<1>6. ASSUME NEW v \in Processes
      PROVE  Sight(v)'
  BY <1>3, Spectators, StillSight DEF InOrder, ArrivedStays, Arrived, InboxKept
<1> QED
  BY <1>3, <1>5, <1>6 DEF InOrder

LEMMA NextOrdered ==
  ASSUME Core, Custody, LinkedInv, CapturedInOrder, Ordered, [Next]_vars
  PROVE  Ordered'
<1> SUFFICES ASSUME Calm'
             PROVE  replay' = NoReplay /\ InOrder'
  BY DEF Ordered
<1>0. Home /\ InOrder /\ replay = NoReplay
  BY TroublesGrow DEF Calm, Ordered, LinkedInv, Linked
<1>1. CASE World
  BY <1>0, <1>1, WorldInOrder
<1>2. ASSUME NEW w \in Processes, Acts(w)
      PROVE  replay' = NoReplay /\ InOrder'
  BY <1>0, <1>2, StepInOrder, StepAside DEF Aside
<1>3. CASE UNCHANGED vars
  BY <1>0, <1>3 DEF vars, inboxVars, InOrder, Arrivals, Arrived, Finished, Sight, Looked, InTurn,
                    Agreed, Sending, Deliverable
<1> QED
  BY <1>1, <1>2, <1>3 DEF Next, Acts

LEMMA InitOrdered == Init => CapturedInOrder /\ Ordered
<1> SUFFICES ASSUME Init
             PROVE  CapturedInOrder /\ Ordered
  OBVIOUS
<1>1. CapturedInOrder
  BY DEF Init, OutboxInit, NewRow, CapturedInOrder
<1>2. Arrivals
  BY DEF Init, OutboxInit, InboxInit, NewRow, Missing, Arrivals, Arrived
<1>3. \A w \in Processes : Sight(w)
  BY DEF Init, Idle, Sight, Looked, InTurn, Agreed, Sending
<1> QED
  BY <1>1, <1>2, <1>3 DEF Init, Ordered, InOrder

LEMMA OrderAlways == Spec => [](Core /\ Custody /\ LinkedInv /\ CapturedInOrder /\ Ordered)
<1>1. Init => Core /\ Custody /\ LinkedInv /\ CapturedInOrder /\ Ordered
  BY InitCore, InitCustody, InitLinked, InitOrdered
<1>2. Core /\ Custody /\ LinkedInv /\ CapturedInOrder /\ Ordered /\ [Next]_vars
        => (Core /\ Custody /\ LinkedInv /\ CapturedInOrder /\ Ordered)'
  BY NextCore, NextCustody, NextLinked, NextCaptured, NextOrdered
<1> QED
  BY <1>1, <1>2, PTL DEF Spec

(* While the project stays linked and nothing is replayed, an event is     *)
(* applied only after every earlier one was applied or is quarantined,     *)
(* whatever is retried, lost, or claimed by several workers at once        *)
(* (claimDeliveries, insertEvents, claimPassiveEvents).                    *)
THEOREM AppliedInSequence == Spec => []AppliedInOrder
<1>1. Ordered => AppliedInOrder
  BY DEF Ordered, Calm, InOrder, Arrivals, Finished, AppliedInOrder
<1> QED
  BY <1>1, OrderAlways, PTL
=============================================================================
