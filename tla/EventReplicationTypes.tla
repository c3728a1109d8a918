------------------------ MODULE EventReplicationTypes ------------------------
(***************************************************************************)
(* The first half of the proofs about EventReplication, for any processes, *)
(* projects and events: what every step does to the worker that takes it,  *)
(* the types, the lock of the sending machine, and the implementation of   *)
(* the fenced leases, so that FenceMonotone holds of the whole system.     *)
(***************************************************************************)
EXTENDS EventReplication, FencedLeaseProofs, FiniteSetTheorems, Integers

-----------------------------------------------------------------------------
(* The types.                                                              *)

Pcs == {"idle", "release"} \cup Between \cup Inside

\* Where a worker of another machine can be.
PeerPcs == {"idle", "release", "renew", "fetch", "apply", "renewAgain", "applying",
            "applyRead", "punish"}

\* Where a worker has a claim, and where it looks at records it has seen.
ClaimPcs == {"apply", "applying", "applyRead", "punish"}
ViewPcs == {"settle", "observe", "requeue"}

Owners == Processes \cup {NoWorker}
Placed == Projects \cup {NoProject}
Statuses == {"none", "pending", "claimed", "retry", "applied", "quarantined"}
Kinds == {"open", "applied", "quarantined", "retry", "missing",
          "absent", "bound", "mismatch", "busy", "released"}

RowSet == [state : OutboxStates, owner : Owners, inbox : Nat, pruned : BOOLEAN]
InboxSet == [project : Placed, id : Nat, status : Statuses, owner : Owners,
             token : Nat, attempts : Nat]
SeenSet == [kind : Kinds, id : Nat]
ViewSet == UNION {[S -> SeenSet] : S \in SUBSET Events}
EventSets == SUBSET Events
ClaimSet == [event : Events \cup {0}, id : Nat, attempts : Nat]
WorkerSet == [pc : Pcs, project : Placed, moved : BOOLEAN, todo : EventSets,
              view : ViewSet, again : EventSets, second : BOOLEAN, claim : ClaimSet,
              budget : Int]
TroubleSet == [faults : Nat, slips : Nat, relinks : Nat, replays : Nat]
ReplaySet == [event : Events \cup {0}, project : Placed, steps : SUBSET {"local", "remote"}]

WorkerTypes == worker \in [Processes -> WorkerSet]
StoreTypes ==
  /\ outbox \in [Events -> RowSet] /\ inbox \in [Events -> InboxSet]
  /\ copies \in [Events -> Nat] /\ applied \in [Events -> Nat]
WorldTypes ==
  /\ binding \in Projects /\ replay \in ReplaySet /\ trouble \in TroubleSet
  /\ replay.steps # {} => replay.event \in Events

Types == WorkerTypes /\ StoreTypes /\ WorldTypes

-----------------------------------------------------------------------------
(* The records a worker can become.                                        *)

LEMMA EmptyView == <<>> \in ViewSet
<1>1. <<>> \in [{} -> SeenSet] /\ {} \in SUBSET Events
  OBVIOUS
<1> QED
  BY <1>1 DEF ViewSet

LEMMA ViewForm ==
  ASSUME NEW S \in EventSets, NEW f \in [S -> SeenSet]
  PROVE  f \in ViewSet
  BY DEF ViewSet, EventSets

LEMMA EventSetForms ==
  /\ {} \in EventSets
  /\ \A S, T \in EventSets : S \cup T \in EventSets /\ S \ T \in EventSets
  /\ \A e \in Events : {e} \in EventSets
  /\ \A S \in EventSets : \A e : S \ {e} \in EventSets
  BY DEF EventSets

LEMMA PcForms ==
  /\ \A pc \in Between : pc \in Pcs /\ pc \notin Inside
  /\ \A pc \in Inside : pc \in Pcs /\ pc \notin Between
  /\ "idle" \in Pcs /\ "release" \in Pcs
  /\ \A pc \in {"idle", "release"} : pc \notin Between /\ pc \notin Inside
  BY DEF Pcs, Between, Inside

LEMMA IdleForm ==
  /\ Idle \in WorkerSet /\ Idle.pc = "idle" /\ Idle.todo = {} /\ Idle.again = {}
  /\ Idle.project = NoProject
<1>1. NoClaim \in ClaimSet
  BY DEF NoClaim, ClaimSet
<1>2. <<>> \in ViewSet /\ {} \in EventSets /\ "idle" \in Pcs /\ NoProject \in Placed
  BY EmptyView, EventSetForms, PcForms DEF Placed
<1> QED
  BY <1>1, <1>2 DEF Idle, WorkerSet

(* One worker changes. *)
Turn(w) ==
  /\ worker' \in [Processes -> WorkerSet]
  /\ \A v \in Processes \ {w} : worker'[v] = worker[v]

LEMMA OneWorker ==
  ASSUME WorkerTypes, NEW w \in Processes, NEW t \in WorkerSet, Becomes(w, t)
  PROVE  Turn(w) /\ worker'[w] = t
  BY DEF WorkerTypes, Becomes, Turn

(* The fields of a worker's record. *)
LEMMA WorkerFields ==
  ASSUME WorkerTypes, NEW w \in Processes
  PROVE  /\ worker[w] \in WorkerSet /\ worker[w].pc \in Pcs /\ worker[w].project \in Placed
         /\ worker[w].todo \in EventSets /\ worker[w].again \in EventSets
         /\ worker[w].todo \subseteq Events /\ worker[w].again \subseteq Events
         /\ worker[w].claim \in ClaimSet
  BY DEF WorkerTypes, WorkerSet, EventSets

LEMMA GotoForm ==
  ASSUME WorkerTypes, NEW w \in Processes, NEW pc \in Pcs
  PROVE  /\ Goto(w, pc) \in WorkerSet /\ Goto(w, pc).pc = pc
         /\ Goto(w, pc).project = worker[w].project /\ Goto(w, pc).todo = worker[w].todo
         /\ Goto(w, pc).again = worker[w].again /\ Goto(w, pc).view = worker[w].view
         /\ Goto(w, pc).claim = worker[w].claim
<1> DEFINE s == worker[w]
<1>1. s \in WorkerSet
  BY DEF WorkerTypes
<1>2. Goto(w, pc) = [s EXCEPT !.pc = pc]
  BY DEF Goto
<1> HIDE DEF s
<1>3. LET t == [s EXCEPT !.pc = pc]
      IN /\ t \in WorkerSet /\ t.pc = pc /\ t.project = s.project /\ t.todo = s.todo
         /\ t.again = s.again /\ t.view = s.view /\ t.claim = s.claim
  BY <1>1 DEF WorkerSet
<1> QED
  BY <1>2, <1>3 DEF s

LEMMA DoneForm ==
  ASSUME WorkerTypes, NEW w \in Processes, NEW pc \in Pcs
  PROVE  /\ Done(w, pc) \in WorkerSet /\ Done(w, pc).pc = pc
         /\ Done(w, pc).project = worker[w].project /\ Done(w, pc).todo = {}
         /\ Done(w, pc).again = {}
<1> DEFINE s == Goto(w, pc)
<1>1. s \in WorkerSet /\ s.pc = pc /\ s.project = worker[w].project
  BY GotoForm
<1>2. Done(w, pc) = [s EXCEPT !.todo = {}, !.view = <<>>, !.again = {}, !.second = FALSE]
  BY DEF Done
<1> HIDE DEF s
<1>3. LET t == [s EXCEPT !.todo = {}, !.view = <<>>, !.again = {}, !.second = FALSE]
      IN t \in WorkerSet /\ t.pc = s.pc /\ t.project = s.project /\ t.todo = {} /\ t.again = {}
  BY <1>1, EmptyView, EventSetForms DEF WorkerSet
<1> QED
  BY <1>1, <1>2, <1>3

LEMMA EndForm ==
  ASSUME WorkerTypes, NEW w \in Processes
  PROVE  /\ EndPass(w) \in WorkerSet /\ EndPass(w).pc = "release"
         /\ EndPass(w).project = worker[w].project /\ EndPass(w).todo = {}
         /\ EndPass(w).again = {}
<1> DEFINE s == Idle
<1>1. s \in WorkerSet /\ s.todo = {} /\ s.again = {} /\ worker[w].project \in Placed
      /\ "release" \in Pcs
  BY IdleForm, WorkerFields, PcForms
<1>2. EndPass(w) = [s EXCEPT !.pc = "release", !.project = worker[w].project]
  BY DEF EndPass
<1> HIDE DEF s
<1>3. LET t == [s EXCEPT !.pc = "release", !.project = worker[w].project]
      IN /\ t \in WorkerSet /\ t.pc = "release" /\ t.project = worker[w].project
         /\ t.todo = s.todo /\ t.again = s.again
  BY <1>1 DEF WorkerSet
<1> QED
  BY <1>1, <1>2, <1>3

LEMMA MovedForm ==
  ASSUME WorkerTypes, NEW w \in Processes
  PROVE  Moved(w) \in BOOLEAN
<1>1. worker[w].moved \in BOOLEAN
  BY DEF WorkerTypes, WorkerSet
<1> QED
  BY <1>1 DEF Moved

LEMMA ClaimsDoneForm ==
  ASSUME WorkerTypes, NEW w \in Processes
  PROVE  /\ ClaimsDone(w) \in WorkerSet
         /\ ClaimsDone(w).pc = IF w \in Daemons THEN "reconcile" ELSE "release"
         /\ ClaimsDone(w).project = worker[w].project
         /\ ClaimsDone(w).again \subseteq worker[w].again
<1>1. PICK m \in BOOLEAN : m = Moved(w)
  BY MovedForm
<1>2. PICK c \in ClaimSet : c = NoClaim
  BY DEF NoClaim, ClaimSet
<1>3. PICK n \in Int : n = 0
  OBVIOUS
<1> DEFINE s == Goto(w, "reconcile")
           t == [s EXCEPT !.moved = m, !.claim = c, !.budget = n]
<1>4. /\ s \in WorkerSet /\ s.pc = "reconcile" /\ s.project = worker[w].project
      /\ s.again = worker[w].again
  BY GotoForm DEF Pcs, Between
<1>5. w \in Daemons => ClaimsDone(w) = t
  BY <1>1, <1>2, <1>3 DEF ClaimsDone
<1>6. t \in WorkerSet /\ t.pc = s.pc /\ t.project = s.project /\ t.again = s.again
  <2> HIDE DEF s
  <2> QED
    BY <1>4 DEF WorkerSet
<1>7. w \notin Daemons => ClaimsDone(w) = EndPass(w)
  BY DEF ClaimsDone
<1> HIDE DEF s, t
<1> QED
  BY <1>4, <1>5, <1>6, <1>7, EndForm

(* The pass goes on claiming, or ends. *)
LEMMA NextClaimForm ==
  ASSUME WorkerTypes, NEW w \in Processes, NEW gain
  PROVE  /\ NextClaim(w, gain) \in WorkerSet
         /\ NextClaim(w, gain).pc \in
               {"renewAgain", IF w \in Daemons THEN "reconcile" ELSE "release"}
         /\ NextClaim(w, gain).project = worker[w].project
         /\ NextClaim(w, gain).again \subseteq worker[w].again
<1> DEFINE s == Goto(w, "renewAgain")
<1>1. /\ s \in WorkerSet /\ s.pc = "renewAgain" /\ s.project = worker[w].project
      /\ s.again = worker[w].again
  BY GotoForm DEF Pcs, Between
<1>2. NoClaim \in ClaimSet
  BY DEF NoClaim, ClaimSet
<1>3. NextClaim(w, gain) = [s EXCEPT !.claim = NoClaim] \/ NextClaim(w, gain) = ClaimsDone(w)
  BY DEF NextClaim
<1> HIDE DEF s
<1>4. LET u == [s EXCEPT !.claim = NoClaim]
      IN u \in WorkerSet /\ u.pc = s.pc /\ u.project = s.project /\ u.again = s.again
  BY <1>1, <1>2 DEF WorkerSet
<1> QED
  BY <1>1, <1>3, <1>4, ClaimsDoneForm

(* Everything in hand is to be retried. *)
LEMMA RetryForm ==
  ASSUME WorkerTypes, NEW w \in Processes
  PROVE  /\ RetryAll(w) \in WorkerSet /\ RetryAll(w).pc = "settle"
         /\ RetryAll(w).project = worker[w].project /\ RetryAll(w).todo = worker[w].todo
         /\ RetryAll(w).again = worker[w].again
         /\ RetryAll(w).view = [e \in worker[w].todo |-> [kind |-> "retry", id |-> 0]]
<1> DEFINE s == Goto(w, "settle")
           f == [e \in worker[w].todo |-> [kind |-> "retry", id |-> 0]]
<1>1. /\ s \in WorkerSet /\ s.pc = "settle" /\ s.project = worker[w].project
      /\ s.todo = worker[w].todo /\ s.again = worker[w].again
  BY GotoForm DEF Pcs, Inside
<1>2. f \in ViewSet
  <2>1. [kind |-> "retry", id |-> 0] \in SeenSet
    BY DEF SeenSet, Kinds
  <2>2. f \in [worker[w].todo -> SeenSet]
    BY <2>1
  <2> QED
    BY <2>2, ViewForm, WorkerFields
<1>3. RetryAll(w) = [s EXCEPT !.view = f]
  BY DEF RetryAll
<1> HIDE DEF s, f
<1>4. LET u == [s EXCEPT !.view = f]
      IN /\ u \in WorkerSet /\ u.pc = s.pc /\ u.project = s.project /\ u.todo = s.todo
         /\ u.again = s.again /\ u.view = f
  BY <1>1, <1>2 DEF WorkerSet
<1> QED
  BY <1>1, <1>3, <1>4 DEF f

(* A worker looks at records, and goes on or not. *)
LEMMA LooksForm ==
  ASSUME WorkerTypes, NEW w \in Processes, NEW pc \in Pcs, NEW f \in ViewSet
  PROVE  LET u == [Goto(w, pc) EXCEPT !.view = f]
         IN /\ u \in WorkerSet /\ u.pc = pc /\ u.project = worker[w].project
            /\ u.todo = worker[w].todo /\ u.again = worker[w].again /\ u.view = f
<1> DEFINE s == Goto(w, pc)
<1>1. /\ s \in WorkerSet /\ s.pc = pc /\ s.project = worker[w].project
      /\ s.todo = worker[w].todo /\ s.again = worker[w].again
  BY GotoForm
<1> HIDE DEF s
<1>2. LET u == [s EXCEPT !.view = f]
      IN /\ u \in WorkerSet /\ u.pc = s.pc /\ u.project = s.project /\ u.todo = s.todo
         /\ u.again = s.again /\ u.view = f
  BY <1>1 DEF WorkerSet
<1> QED
  BY <1>1, <1>2 DEF s

-----------------------------------------------------------------------------
(* The rows of the outbox.                                                 *)

LEMMA SettledForm ==
  ASSUME NEW row \in RowSet, NEW st \in OutboxStates, NEW id \in Nat
  PROVE  /\ Settled(row, st, id) \in RowSet /\ Settled(row, st, id).state = st
         /\ Settled(row, st, id).owner = NoWorker /\ Settled(row, st, id).inbox = id
         /\ Settled(row, st, id).pruned = row.pruned
  BY DEF Settled, RowSet, Owners

LEMMA States ==
  /\ "pending" \in OutboxStates /\ "claimed" \in OutboxStates /\ "retry" \in OutboxStates
  /\ "replicated" \in OutboxStates /\ "acknowledged" \in OutboxStates
  /\ "quarantined" \in OutboxStates /\ "deleted" \in OutboxStates /\ "absent" \in OutboxStates
  BY DEF OutboxStates

(* A row after the worker learned what became of its copy: what holds of   *)
(* any row, and of one the worker has claimed.                             *)
LEMMA AfterUploadForm ==
  ASSUME NEW row \in RowSet, NEW w, NEW seen \in SeenSet, NEW r, r = AfterUpload(row, w, seen)
  PROVE  /\ r \in RowSet /\ r.pruned = row.pruned /\ r.inbox \in {row.inbox, seen.id}
         /\ row.state = "claimed" /\ row.owner = w /\ row.inbox = 0 =>
              /\ seen.kind = "applied" => r.state = "acknowledged"
              /\ seen.kind = "quarantined" => r.state = "quarantined"
              /\ seen.kind = "open" => r.state = "replicated"
              /\ seen.kind \in {"retry", "busy"} => r.state = "retry" /\ r.inbox = 0
              /\ seen.kind \notin {"applied", "quarantined", "open", "retry", "busy"} => r = row
<1>1. row.inbox \in Nat /\ seen.id \in Nat
  BY DEF RowSet, SeenSet
<1>2. CASE seen.kind = "applied"
  <2>0. /\ Settled(row, "acknowledged", seen.id) \in RowSet /\ Settled(row, "acknowledged", seen.id).state = "acknowledged"
        /\ Settled(row, "acknowledged", seen.id).inbox = seen.id
        /\ Settled(row, "acknowledged", seen.id).pruned = row.pruned
    BY <1>1, States DEF Settled, RowSet, Owners
  <2>1. r = row \/ r = Settled(row, "acknowledged", seen.id)
    BY <1>2 DEF AfterUpload, markAcknowledged
  <2>2. row.state = "claimed" /\ row.inbox = 0 => r = Settled(row, "acknowledged", seen.id)
    BY <1>2 DEF AfterUpload, markAcknowledged, SameCopy
  <2> QED
    BY <1>1, <1>2, <2>0, <2>1, <2>2
<1>3. CASE seen.kind = "quarantined"
  <2>0. /\ Settled(row, "quarantined", seen.id) \in RowSet /\ Settled(row, "quarantined", seen.id).state = "quarantined"
        /\ Settled(row, "quarantined", seen.id).inbox = seen.id
        /\ Settled(row, "quarantined", seen.id).pruned = row.pruned
    BY <1>1, States DEF Settled, RowSet, Owners
  <2>1. r = row \/ r = Settled(row, "quarantined", seen.id)
    BY <1>3 DEF AfterUpload, markQuarantined
  <2>2. row.state = "claimed" /\ row.inbox = 0 => r = Settled(row, "quarantined", seen.id)
    BY <1>3 DEF AfterUpload, markQuarantined, SameCopy
  <2> QED
    BY <1>1, <1>3, <2>0, <2>1, <2>2
<1>4. CASE seen.kind = "open"
  <2>0. /\ Settled(row, "replicated", seen.id) \in RowSet /\ Settled(row, "replicated", seen.id).state = "replicated"
        /\ Settled(row, "replicated", seen.id).inbox = seen.id
        /\ Settled(row, "replicated", seen.id).pruned = row.pruned
    BY <1>1, States DEF Settled, RowSet, Owners
  <2>1. r = IF row.state = "claimed" /\ row.owner = w
            THEN Settled(row, "replicated", seen.id) ELSE row
    BY <1>4 DEF AfterUpload, markReplicated, Claimed
  <2> QED
    BY <1>1, <1>4, <2>0, <2>1
<1>5. CASE seen.kind \in {"retry", "busy"}
  <2>0. /\ Settled(row, "retry", row.inbox) \in RowSet /\ Settled(row, "retry", row.inbox).state = "retry"
        /\ Settled(row, "retry", row.inbox).inbox = row.inbox
        /\ Settled(row, "retry", row.inbox).pruned = row.pruned
    BY <1>1, States DEF Settled, RowSet, Owners
  <2>1. r = IF row.state = "claimed" /\ row.owner = w
            THEN Settled(row, "retry", row.inbox) ELSE row
    BY <1>5 DEF AfterUpload, markDeliveryRetry, Claimed
  <2> QED
    BY <1>1, <1>5, <2>0, <2>1
<1>6. CASE seen.kind \notin {"applied", "quarantined", "open", "retry", "busy"}
  <2>1. r = row
    BY <1>6 DEF AfterUpload
  <2> QED
    BY <1>6, <2>1
<1> QED
  BY <1>2, <1>3, <1>4, <1>5, <1>6

(* A row that waits for its remote outcome and is observed. *)
ObservedRow(row, seen) ==
  CASE seen.kind = "applied" -> markAcknowledged(row, seen.id)
    [] seen.kind = "quarantined" -> markQuarantined(row, seen.id)
    [] OTHER -> row

LEMMA ObservedForm ==
  ASSUME NEW row \in RowSet, NEW seen \in SeenSet, NEW r, r = ObservedRow(row, seen)
  PROVE  /\ r \in RowSet /\ r.pruned = row.pruned /\ r.inbox \in {row.inbox, seen.id}
         /\ \/ r = row
            \/ seen.kind = "applied" /\ r.state = "acknowledged"
            \/ seen.kind = "quarantined" /\ r.state = "quarantined"
<1>1. seen.id \in Nat
  BY DEF SeenSet
<1>2. CASE seen.kind = "applied"
  <2>0. /\ Settled(row, "acknowledged", seen.id) \in RowSet /\ Settled(row, "acknowledged", seen.id).state = "acknowledged"
        /\ Settled(row, "acknowledged", seen.id).inbox = seen.id
        /\ Settled(row, "acknowledged", seen.id).pruned = row.pruned
    BY <1>1, States DEF Settled, RowSet, Owners
  <2>1. r = row \/ r = Settled(row, "acknowledged", seen.id)
    BY <1>2 DEF ObservedRow, markAcknowledged
  <2> QED
    BY <1>1, <1>2, <2>0, <2>1
<1>3. CASE seen.kind = "quarantined"
  <2>0. /\ Settled(row, "quarantined", seen.id) \in RowSet /\ Settled(row, "quarantined", seen.id).state = "quarantined"
        /\ Settled(row, "quarantined", seen.id).inbox = seen.id
        /\ Settled(row, "quarantined", seen.id).pruned = row.pruned
    BY <1>1, States DEF Settled, RowSet, Owners
  <2>1. r = row \/ r = Settled(row, "quarantined", seen.id)
    BY <1>3 DEF ObservedRow, markQuarantined
  <2> QED
    BY <1>1, <1>3, <2>0, <2>1
<1>4. CASE seen.kind \notin {"applied", "quarantined"}
  BY <1>4 DEF ObservedRow
<1> QED
  BY <1>2, <1>3, <1>4

(* A row whose copy elsewhere was asked for. *)
LEMMA AfterWithdrawForm ==
  ASSUME NEW row \in RowSet, NEW seen \in SeenSet, NEW r, r = AfterWithdraw(row, seen)
  PROVE  /\ r \in RowSet /\ r.pruned = row.pruned /\ r.inbox \in {row.inbox, seen.id, 0}
         /\ row.state = "replicated" =>
              /\ \/ r = row
                 \/ seen.kind \in {"absent", "released"} /\ r.state = "pending" /\ r.inbox = 0
                 \/ seen.kind = "applied" /\ r.state = "acknowledged"
                 \/ seen.kind = "quarantined" /\ r.state = "quarantined"
              /\ seen.kind = "applied" /\ seen.id = row.inbox => r.state = "acknowledged"
<1>1. seen.id \in Nat /\ row.inbox \in Nat /\ 0 \in Nat
  BY DEF SeenSet, RowSet
<1>2. CASE seen.kind \in {"absent", "released"}
  <2>0. /\ Settled(row, "pending", 0) \in RowSet /\ Settled(row, "pending", 0).state = "pending"
        /\ Settled(row, "pending", 0).inbox = 0
        /\ Settled(row, "pending", 0).pruned = row.pruned
    BY <1>1, States DEF Settled, RowSet, Owners
  <2>1. r = row \/ r = Settled(row, "pending", 0)
    BY <1>2 DEF AfterWithdraw, requeueReplicated
  <2> QED
    BY <1>1, <1>2, <2>0, <2>1
<1>3. CASE seen.kind = "applied"
  <2>0. /\ Settled(row, "acknowledged", seen.id) \in RowSet /\ Settled(row, "acknowledged", seen.id).state = "acknowledged"
        /\ Settled(row, "acknowledged", seen.id).inbox = seen.id
        /\ Settled(row, "acknowledged", seen.id).pruned = row.pruned
    BY <1>1, States DEF Settled, RowSet, Owners
  <2>1. r = row \/ r = Settled(row, "acknowledged", seen.id)
    BY <1>3 DEF AfterWithdraw, markAcknowledged
  <2>2. row.state = "replicated" /\ seen.id = row.inbox
           => r = Settled(row, "acknowledged", seen.id)
    BY <1>3 DEF AfterWithdraw, markAcknowledged, SameCopy
  <2> QED
    BY <1>1, <1>3, <2>0, <2>1, <2>2
<1>4. CASE seen.kind = "quarantined"
  <2>0. /\ Settled(row, "quarantined", seen.id) \in RowSet /\ Settled(row, "quarantined", seen.id).state = "quarantined"
        /\ Settled(row, "quarantined", seen.id).inbox = seen.id
        /\ Settled(row, "quarantined", seen.id).pruned = row.pruned
    BY <1>1, States DEF Settled, RowSet, Owners
  <2>1. r = row \/ r = Settled(row, "quarantined", seen.id)
    BY <1>4 DEF AfterWithdraw, markQuarantined
  <2> QED
    BY <1>1, <1>4, <2>0, <2>1
<1>5. CASE seen.kind \notin {"absent", "released", "applied", "quarantined"}
  BY <1>5 DEF AfterWithdraw
<1> QED
  BY <1>2, <1>3, <1>4, <1>5

(* One row of the outbox changes. *)
OneRow(e, r) ==
  /\ outbox' \in [Events -> RowSet] /\ outbox'[e] = r
  /\ \A d \in Events \ {e} : outbox'[d] = outbox[d]

LEMMA RowChanges ==
  ASSUME StoreTypes, NEW e \in Events, NEW r \in RowSet, outbox' = [outbox EXCEPT ![e] = r]
  PROVE  OneRow(e, r)
  BY DEF StoreTypes, OneRow

LEMMA RowFields ==
  ASSUME StoreTypes, NEW e \in Events
  PROVE  /\ outbox[e] \in RowSet /\ outbox[e].inbox \in Nat /\ copies[e] \in Nat
         /\ inbox[e] \in InboxSet /\ inbox[e].id \in Nat /\ inbox[e].attempts \in Nat
         /\ inbox[e].status \in Statuses
         /\ Seen(inbox[e]) \in SeenSet /\ Seen(inbox[e]).id = inbox[e].id
         /\ applied[e] \in Nat
<1>1. outbox[e] \in RowSet /\ inbox[e] \in InboxSet /\ copies[e] \in Nat /\ applied[e] \in Nat
  BY DEF StoreTypes
<1>2. inbox[e].id \in Nat /\ inbox[e].status \in Statuses /\ inbox[e].attempts \in Nat
  BY <1>1 DEF InboxSet
<1>3. Seen(inbox[e]) \in SeenSet /\ Seen(inbox[e]).id = inbox[e].id
  BY <1>2 DEF Seen, SeenSet, Kinds, Statuses
<1> QED
  BY <1>1, <1>2, <1>3 DEF RowSet

(* What a record looks like to a worker. *)
LEMMA SeenKinds ==
  ASSUME NEW row
  PROVE  /\ Seen(row).kind \in {"open", "applied", "quarantined"} /\ Seen(row).id = row.id
         /\ Seen(row).kind = "applied" => row.status = "applied"
         /\ Seen(row).kind = "quarantined" => row.status = "quarantined"
  BY DEF Seen

(* The outcomes of a withdrawal. *)
LEMMA OutcomeForm ==
  ASSUME StoreTypes, NEW S \in EventSets, NEW p, NEW ids, NEW stale, NEW f,
         f = Outcomes(S, p, ids, stale)
  PROVE  /\ f \in ViewSet /\ f \in [S -> SeenSet]
         /\ \A e \in S : /\ f[e].id = inbox[e].id
                         /\ f[e].kind = WithdrawOutcome(e, p, ids[e], stale)
<1>1. S \subseteq Events
  BY DEF EventSets
<1>2. ASSUME NEW e \in S
      PROVE  [kind |-> WithdrawOutcome(e, p, ids[e], stale), id |-> inbox[e].id] \in SeenSet
  <2>1. WithdrawOutcome(e, p, ids[e], stale) \in Kinds
    BY DEF WithdrawOutcome, Kinds
  <2> QED
    BY <1>1, <2>1, RowFields DEF SeenSet
<1>3. f \in [S -> SeenSet]
  BY <1>2 DEF Outcomes
<1> QED
  BY <1>3, ViewForm DEF Outcomes

-----------------------------------------------------------------------------
(* What each step does, in terms of the fields it changes.                 *)

RowsKept == outbox' = outbox
InboxKept == inbox' = inbox /\ copies' = copies /\ applied' = applied

\* The worker is at pc, in the same project, with the rows S left to do.
Comes(w, pc, S) ==
  /\ worker'[w].pc = pc /\ worker'[w].project = worker[w].project
  /\ worker'[w].todo = S /\ worker'[w].again = worker[w].again

\* The worker is at pc, in the same project, with nothing left over.
Turns(w, places) ==
  /\ worker'[w].pc \in places /\ worker'[w].project = worker[w].project
  /\ worker'[w].again \subseteq worker[w].again

\* Records that were seen cover the rows in hand.
Covered(w) ==
  worker[w].pc \in ViewPcs => \A e \in worker[w].todo : worker[w].view[e] \in SeenSet

AfterClaims(w) == IF w \in Daemons THEN "reconcile" ELSE "release"

LEMMA Bound ==
  ASSUME WorldTypes, NEW w \in Processes
  PROVE  BoundTo(w) \in Projects
  BY ReplicationAssumption DEF WorldTypes, BoundTo

LEMMA StartPassStep ==
  ASSUME Types, NEW w \in Processes, StartPass(w)
  PROVE  /\ Turn(w) /\ RowsKept /\ InboxKept
         /\ worker'[w].pc = FirstPhase(w) /\ worker'[w].project = BoundTo(w)
         /\ worker'[w].again = {}
<1>1. PICK n \in Int : n = BatchSize
  BY ReplicationAssumption
<1>2. PICK pc \in Pcs : pc = FirstPhase(w)
  BY DEF FirstPhase, Pcs, Between
<1>3. PICK p \in Placed : p = BoundTo(w)
  BY Bound DEF Types, Placed
<1> DEFINE s == Idle
           t == [s EXCEPT !.pc = pc, !.project = p, !.budget = n]
<1>4. t \in WorkerSet /\ t.pc = pc /\ t.project = p /\ t.again = {}
  <2>1. s \in WorkerSet /\ s.again = {}
    BY IdleForm
  <2> HIDE DEF s
  <2> QED
    BY <2>1 DEF WorkerSet
<1>5. Becomes(w, t)
  BY <1>1, <1>2, <1>3 DEF StartPass
<1> HIDE DEF t
<1>6. Turn(w) /\ worker'[w] = t
  BY <1>4, <1>5, OneWorker DEF Types
<1> QED
  BY <1>2, <1>3, <1>4, <1>6 DEF StartPass, RowsKept, InboxKept, inboxVars

LEMMA ClaimLocalStep ==
  ASSUME Types, NEW w \in Processes, ClaimLocal(w)
  PROVE  /\ Turn(w) /\ InboxKept /\ outbox' \in [Events -> RowSet]
         /\ \E S \in EventSets :
              /\ \A e \in S, d \in Deliverable : d < e => d \in S
              /\ \A e \in S : /\ e \in Deliverable
                              /\ outbox'[e].state = "claimed" /\ outbox'[e].owner = w
                              /\ outbox'[e].inbox = outbox[e].inbox
                              /\ outbox'[e].pruned = outbox[e].pruned
              /\ \A e \in Events \ S : outbox'[e] = outbox[e]
              /\ Comes(w, "renew", S) \/ Comes(w, "screen", S)
<1>1. PICK S \in Prefixes(BatchSize) :
        /\ outbox' = claimDeliveries(S, w)
        /\ Becomes(w, [Goto(w, IF S = {} THEN "renew" ELSE "screen")
                         EXCEPT !.todo = S, !.moved = Moved(w)])
  BY DEF ClaimLocal
<1>2. /\ S \in EventSets /\ S \subseteq Deliverable /\ S \subseteq Events
      /\ \A e \in S, d \in Deliverable : d < e => d \in S
  BY DEF Prefixes, Deliverable, EventSets
<1>3. PICK m \in BOOLEAN : m = Moved(w)
  BY MovedForm DEF Types
<1>4. PICK pc \in Pcs : pc \in {"renew", "screen"} /\ pc = IF S = {} THEN "renew" ELSE "screen"
  BY DEF Pcs, Between, Inside
<1> DEFINE s == Goto(w, pc)
           t == [s EXCEPT !.todo = S, !.moved = m]
<1>5. /\ t \in WorkerSet /\ t.pc = pc /\ t.project = worker[w].project
      /\ t.todo = S /\ t.again = worker[w].again
  <2>1. /\ s \in WorkerSet /\ s.pc = pc /\ s.project = worker[w].project
        /\ s.again = worker[w].again
    BY GotoForm DEF Types
  <2> HIDE DEF s
  <2> QED
    BY <1>2, <2>1 DEF WorkerSet
<1>6. Becomes(w, t)
  BY <1>1, <1>3, <1>4
<1> HIDE DEF t
<1>7. Turn(w) /\ worker'[w] = t
  BY <1>5, <1>6, OneWorker DEF Types
<1>8. ASSUME NEW e \in Events
      PROVE  /\ outbox'[e] \in RowSet
             /\ e \in S => /\ outbox'[e].state = "claimed" /\ outbox'[e].owner = w
                           /\ outbox'[e].inbox = outbox[e].inbox
                           /\ outbox'[e].pruned = outbox[e].pruned
             /\ e \notin S => outbox'[e] = outbox[e]
  <2>1. outbox[e] \in RowSet /\ "claimed" \in OutboxStates /\ w \in Owners
    BY RowFields, States DEF Types, Owners
  <2>2. outbox'[e] = IF e \in S THEN [outbox[e] EXCEPT !.state = "claimed", !.owner = w]
                     ELSE outbox[e]
    BY <1>1 DEF claimDeliveries
  <2> QED
    BY <2>1, <2>2 DEF RowSet
<1>9. outbox' \in [Events -> RowSet]
  BY <1>1, <1>8 DEF claimDeliveries
<1>10. Comes(w, "renew", S) \/ Comes(w, "screen", S)
  BY <1>4, <1>5, <1>7 DEF Comes
<1> QED
  BY <1>2, <1>7, <1>8, <1>9, <1>10 DEF ClaimLocal, InboxKept, inboxVars

LEMMA ScreenOutStep ==
  ASSUME Types, NEW w \in Processes, ScreenOut(w)
  PROVE  /\ Turn(w) /\ InboxKept
         /\ \/ /\ RowsKept
               /\ \/ Turns(w, {"renew"}) /\ worker'[w].again = {}
                  \/ Comes(w, "insert", worker[w].todo)
            \/ \E e \in worker[w].todo :
                 /\ OneRow(e, markDeliveryQuarantined(outbox[e], w))
                 /\ Comes(w, "screen", worker[w].todo \ {e})
<1> USE DEF Types
<1>1. InboxKept
  BY DEF ScreenOut, InboxKept, inboxVars
<1>2. CASE Refused(w) = {}
  <2>1. Becomes(w, Done(w, "renew")) \/ Becomes(w, Goto(w, "insert"))
    BY <1>2 DEF ScreenOut
  <2>2. "renew" \in Pcs /\ "insert" \in Pcs
    BY DEF Pcs, Between, Inside
  <2>3. CASE Becomes(w, Done(w, "renew"))
    BY <1>1, <1>2, <2>2, <2>3, DoneForm, OneWorker DEF ScreenOut, Turns, RowsKept
  <2>4. CASE Becomes(w, Goto(w, "insert"))
    BY <1>1, <1>2, <2>2, <2>4, GotoForm, OneWorker DEF ScreenOut, Comes, RowsKept
  <2> QED
    BY <2>1, <2>3, <2>4
<1>3. CASE Refused(w) # {}
  <2>1. PICK e \in Refused(w) :
          /\ outbox' = [outbox EXCEPT ![e] = markDeliveryQuarantined(@, w)]
          /\ Becomes(w, [worker[w] EXCEPT !.todo = @ \ {e}])
    BY <1>3 DEF ScreenOut
  <2>2. e \in worker[w].todo /\ e \in Events /\ worker[w].todo \ {e} \in EventSets
    BY WorkerFields, EventSetForms DEF Refused
  <2>3. markDeliveryQuarantined(outbox[e], w) \in RowSet
    <3>1. outbox[e] \in RowSet /\ "quarantined" \in OutboxStates /\ 0 \in Nat
      BY <2>2, RowFields, States
    <3> QED
      BY <3>1, SettledForm DEF markDeliveryQuarantined
  <2>4. OneRow(e, markDeliveryQuarantined(outbox[e], w))
    BY <2>1, <2>2, <2>3, RowChanges
  <2>5. PICK S \in EventSets : S = worker[w].todo \ {e}
    BY <2>2
  <2> DEFINE s == worker[w]
             t == [s EXCEPT !.todo = S]
  <2>6. Becomes(w, t) /\ s \in WorkerSet
    BY <2>1, <2>5, WorkerFields
  <2> HIDE DEF s
  <2>7. /\ t \in WorkerSet /\ t.pc = s.pc /\ t.project = s.project /\ t.todo = S
        /\ t.again = s.again
    BY <2>5, <2>6 DEF WorkerSet
  <2> USE DEF s
  <2> HIDE DEF t
  <2>8. Turn(w) /\ worker'[w] = t
    BY <2>6, <2>7, OneWorker
  <2>9. Comes(w, "screen", worker[w].todo \ {e})
    BY <2>5, <2>7, <2>8 DEF Comes, ScreenOut, At
  <2> QED
    BY <1>1, <2>2, <2>4, <2>8, <2>9
<1> QED
  BY <1>2, <1>3

(* What an insertion makes of the table. *)
Inserted(S, p) ==
  /\ inbox' \in [Events -> InboxSet] /\ copies' \in [Events -> Nat] /\ applied' = applied
  /\ \A e \in Events :
       IF e \in S /\ ~Stored(e)
       THEN /\ inbox'[e].project = p /\ inbox'[e].status = "pending"
            /\ inbox'[e].id = copies[e] + 1 /\ copies'[e] = copies[e] + 1
       ELSE inbox'[e] = inbox[e] /\ copies'[e] = copies[e]

LEMMA InsertForm ==
  ASSUME StoreTypes, NEW S \in EventSets, NEW p \in Placed, insertEvents(S, p)
  PROVE  Inserted(S, p)
<1>1. S \subseteq Events
  BY DEF EventSets
<1>2. ASSUME NEW e \in Events
      PROVE  /\ inbox'[e] \in InboxSet /\ copies'[e] \in Nat
             /\ IF e \in S /\ ~Stored(e)
                THEN /\ inbox'[e].project = p /\ inbox'[e].status = "pending"
                     /\ inbox'[e].id = copies[e] + 1 /\ copies'[e] = copies[e] + 1
                ELSE inbox'[e] = inbox[e] /\ copies'[e] = copies[e]
  <2>1. inbox[e] \in InboxSet /\ copies[e] \in Nat /\ copies[e] + 1 \in Nat
    BY RowFields
  <2>2. CASE e \in S /\ ~Stored(e)
    <3>1. inbox'[e] = [Missing EXCEPT !.project = p, !.id = copies[e] + 1, !.status = "pending"]
          /\ copies'[e] = copies[e] + 1
      BY <2>2 DEF insertEvents
    <3>2. PICK n \in Nat : n = copies[e] + 1
      BY <2>1
    <3>3. inbox'[e] = [project |-> p, id |-> n, status |-> "pending",
                       owner |-> NoWorker, token |-> 0, attempts |-> 0]
      BY <3>1, <3>2 DEF Missing
    <3>4. [project |-> p, id |-> n, status |-> "pending",
           owner |-> NoWorker, token |-> 0, attempts |-> 0] \in InboxSet
      BY DEF InboxSet, Owners, Statuses
    <3> QED
      BY <2>1, <2>2, <3>1, <3>2, <3>3, <3>4
  <2>3. CASE ~(e \in S /\ ~Stored(e))
    BY <2>1, <2>3 DEF insertEvents
  <2> QED
    BY <2>2, <2>3
<1>3. inbox' \in [Events -> InboxSet] /\ copies' \in [Events -> Nat]
  BY <1>2 DEF insertEvents
<1> QED
  BY <1>2, <1>3 DEF Inserted, insertEvents

LEMMA UploadStep ==
  ASSUME Types, NEW w \in Processes, worker[w].project \in Projects, Upload(w)
  PROVE  /\ Turn(w) /\ RowsKept
         /\ \/ /\ Inserted(worker[w].todo, worker[w].project)
               /\ CanInsert(worker[w].todo, worker[w].project)
               /\ \/ /\ Comes(w, "settle", worker[w].todo)
                     /\ \A e \in worker[w].todo : worker'[w].view[e] = Seen(inbox'[e])
                  \/ Comes(w, "readback", worker[w].todo)
            \/ InboxKept /\ Comes(w, "readback", worker[w].todo)
<1> USE DEF Types
<1> DEFINE S == worker[w].todo
           p == worker[w].project
<1>1. S \in EventSets /\ S \subseteq Events /\ p \in Placed /\ "settle" \in Pcs /\ "readback" \in Pcs
  BY WorkerFields DEF Pcs, Inside
<1>2. RowsKept
  BY DEF Upload, RowsKept
<1>3. CASE Becomes(w, Goto(w, "readback"))
  <2>1. Turn(w) /\ Comes(w, "readback", S)
    BY <1>1, <1>3, GotoForm, OneWorker DEF Comes
  <2>2. (CanInsert(S, p) /\ insertEvents(S, p)) \/ UNCHANGED inboxVars
    BY DEF Upload
  <2> QED
    BY <1>1, <1>2, <2>1, <2>2, InsertForm DEF InboxKept, inboxVars
<1>4. CASE /\ CanInsert(S, p) /\ insertEvents(S, p)
           /\ Becomes(w, [Goto(w, "settle") EXCEPT !.view = [e \in S |-> Seen(inbox'[e])]])
  <2> DEFINE f == [e \in S |-> Seen(inbox'[e])]
             t == [Goto(w, "settle") EXCEPT !.view = f]
  <2>1. Inserted(S, p)
    BY <1>1, <1>4, InsertForm
  <2>2. f \in ViewSet
    <3>1. \A e \in S : Seen(inbox'[e]) \in SeenSet
      <4>1. \A e \in S : inbox'[e] \in InboxSet
        BY <1>1, <2>1 DEF Inserted
      <4>2. \A row \in InboxSet : Seen(row) \in SeenSet
        BY DEF Seen, SeenSet, Kinds, InboxSet, Statuses
      <4> QED
        BY <4>1, <4>2
    <3>2. f \in [S -> SeenSet]
      BY <3>1
    <3> QED
      BY <1>1, <3>2, ViewForm
  <2>3. /\ t \in WorkerSet /\ t.pc = "settle" /\ t.project = p /\ t.todo = S
        /\ t.again = worker[w].again /\ t.view = f
    <3> HIDE DEF f
    <3> QED
      BY <1>1, <2>2, LooksForm
  <2>4. Becomes(w, t)
    BY <1>4
  <2> HIDE DEF t
  <2>5. Turn(w) /\ worker'[w] = t
    BY <2>3, <2>4, OneWorker
  <2>6. \A e \in S : f[e] = Seen(inbox'[e])
    OBVIOUS
  <2> HIDE DEF f
  <2>7. Comes(w, "settle", S) /\ \A e \in S : worker'[w].view[e] = Seen(inbox'[e])
    BY <2>3, <2>5, <2>6 DEF Comes
  <2> QED
    BY <1>2, <1>4, <2>1, <2>5, <2>7
<1> QED
  BY <1>3, <1>4 DEF Upload


(* The records of a project, as a worker sees them, are views. *)
LEMMA SeenView ==
  ASSUME StoreTypes, NEW S \in EventSets
  PROVE  /\ [e \in S |-> Seen(inbox[e])] \in ViewSet
         /\ \A e \in S : [d \in S |-> Seen(inbox[d])][e] = Seen(inbox[e])
<1>1. \A e \in S : Seen(inbox[e]) \in SeenSet
  BY RowFields DEF EventSets
<1>2. [e \in S |-> Seen(inbox[e])] \in [S -> SeenSet]
  BY <1>1
<1> QED
  BY <1>2, ViewForm

(* The worker settles rows it has seen, or that are to be retried. *)
Retries(w) ==
  /\ Comes(w, "settle", worker[w].todo)
  /\ \A e \in worker[w].todo : worker'[w].view[e] = [kind |-> "retry", id |-> 0]

LEMMA RetryStep ==
  ASSUME WorkerTypes, NEW w \in Processes, Becomes(w, RetryAll(w))
  PROVE  Turn(w) /\ Retries(w)
<1> DEFINE f == [e \in worker[w].todo |-> [kind |-> "retry", id |-> 0]]
<1>1. PICK t \in WorkerSet : /\ t = RetryAll(w) /\ t.pc = "settle" /\ t.project = worker[w].project
                             /\ t.todo = worker[w].todo /\ t.again = worker[w].again /\ t.view = f
  BY RetryForm
<1>2. Turn(w) /\ worker'[w] = t
  BY <1>1, OneWorker
<1>3. \A e \in worker[w].todo : f[e] = [kind |-> "retry", id |-> 0]
  OBVIOUS
<1> HIDE DEF f
<1> QED
  BY <1>1, <1>2, <1>3 DEF Retries, Comes

LEMMA ReadBackStep ==
  ASSUME Types, NEW w \in Processes, ReadBack(w)
  PROVE  /\ Turn(w) /\ RowsKept /\ InboxKept
         /\ \/ /\ Comes(w, "settle", worker[w].todo)
               /\ \A e \in worker[w].todo : /\ In(e, worker[w].project)
                                            /\ worker'[w].view[e] = Seen(inbox[e])
            \/ Retries(w)
            \/ Comes(w, "withdraw", worker[w].todo)
<1> USE DEF Types
<1> DEFINE S == worker[w].todo
<1>1. S \in EventSets /\ "settle" \in Pcs /\ "withdraw" \in Pcs
  BY WorkerFields DEF Pcs, Inside
<1>2. RowsKept /\ InboxKept
  BY DEF ReadBack, RowsKept, InboxKept, inboxVars
<1>3. CASE Becomes(w, RetryAll(w))
  BY <1>2, <1>3, RetryStep
<1>4. CASE Becomes(w, Goto(w, "withdraw"))
  BY <1>1, <1>2, <1>4, GotoForm, OneWorker DEF Comes
<1>5. CASE /\ \A e \in S : In(e, worker[w].project)
           /\ Becomes(w, [Goto(w, "settle") EXCEPT !.view = [e \in S |-> Seen(inbox[e])]])
  <2>1. PICK f \in ViewSet : /\ f = [e \in S |-> Seen(inbox[e])]
                             /\ \A e \in S : f[e] = Seen(inbox[e])
    BY <1>1, SeenView
  <2> DEFINE t == [Goto(w, "settle") EXCEPT !.view = f]
  <2>2. /\ t \in WorkerSet /\ t.pc = "settle" /\ t.project = worker[w].project
        /\ t.todo = S /\ t.again = worker[w].again /\ t.view = f
    BY <1>1, LooksForm
  <2>3. Becomes(w, t)
    BY <1>5, <2>1
  <2> HIDE DEF t
  <2> QED
    BY <1>2, <1>5, <2>1, <2>2, <2>3, OneWorker DEF Comes
<1> QED
  BY <1>3, <1>4, <1>5 DEF ReadBack

(* What a deletion makes of the table. *)
Emptied(G) ==
  /\ inbox' \in [Events -> InboxSet] /\ copies' = copies /\ applied' = applied
  /\ \A e \in G : inbox'[e] = Missing
  /\ \A e \in Events \ G : inbox'[e] = inbox[e]

LEMMA MissingForm ==
  Missing \in InboxSet /\ Missing.status = "none" /\ Missing.id = 0 /\ Missing.project = NoProject
<1>1. 0 \in Nat
  OBVIOUS
<1> QED
  BY <1>1 DEF Missing, InboxSet, Placed, Statuses, Owners

LEMMA DeletedForm ==
  ASSUME StoreTypes, NEW G, G \subseteq Events, inbox' = Deleted(G),
         copies' = copies, applied' = applied
  PROVE  Emptied(G)
<1>1. \A e \in Events : inbox'[e] = IF e \in G THEN Missing ELSE inbox[e]
  BY DEF Deleted
<1>2. \A e \in Events : inbox'[e] \in InboxSet
  BY <1>1, MissingForm, RowFields
<1>3. inbox' \in [Events -> InboxSet]
  BY <1>2 DEF Deleted
<1> QED
  BY <1>1, <1>3 DEF Emptied

\* The answer f of a withdrawal of the rows S, and what it has deleted.
Withdrawn(S, p, ids, stale, f) ==
  /\ f \in ViewSet
  /\ \A e \in S : /\ f[e] \in SeenSet /\ f[e].id = inbox[e].id
                  /\ f[e].kind = WithdrawOutcome(e, p, ids[e], stale)
  /\ Emptied({e \in S : f[e].kind \in {"applied", "released"}})

LEMMA WithdrawnForm ==
  ASSUME StoreTypes, NEW S \in EventSets, NEW p, NEW ids, NEW stale,
         releaseFromOtherProjects(Outcomes(S, p, ids, stale))
  PROVE  \E f \in ViewSet : f = Outcomes(S, p, ids, stale) /\ Withdrawn(S, p, ids, stale, f)
<1> DEFINE f == Outcomes(S, p, ids, stale)
           G == {e \in S : f[e].kind \in {"applied", "released"}}
<1>1. /\ f \in ViewSet /\ f \in [S -> SeenSet]
      /\ \A e \in S : /\ f[e].id = inbox[e].id
                      /\ f[e].kind = WithdrawOutcome(e, p, ids[e], stale)
  BY OutcomeForm
<1>2. DOMAIN f = S
  BY <1>1
<1>3. G \subseteq Events
  BY DEF EventSets
<1>4. inbox' = Deleted(G) /\ copies' = copies /\ applied' = applied
  BY <1>2 DEF releaseFromOtherProjects
<1>5. Emptied(G)
  BY <1>3, <1>4, DeletedForm
<1> HIDE DEF f
<1>6. Withdrawn(S, p, ids, stale, f)
  BY <1>1, <1>5 DEF Withdrawn
<1> QED
  BY <1>1, <1>6 DEF f

LEMMA WithdrawStep ==
  ASSUME Types, NEW w \in Processes, Withdraw(w)
  PROVE  /\ Turn(w) /\ RowsKept
         /\ \/ \E stale \in {Abandoned, AllClaims}, f \in ViewSet :
                 /\ Withdrawn(worker[w].todo, worker[w].project,
                              [e \in worker[w].todo |-> 0], stale, f)
                 /\ \/ Comes(w, "settle", worker[w].todo) /\ worker'[w].view = f
                    \/ Retries(w) /\ Fault
            \/ InboxKept /\ Retries(w)
<1> USE DEF Types
<1> DEFINE S == worker[w].todo
           p == worker[w].project
           unknown == [e \in S |-> 0]
<1>1. S \in EventSets /\ "settle" \in Pcs
  BY WorkerFields DEF Pcs, Inside
<1>2. RowsKept
  BY DEF Withdraw, RowsKept
<1>3. CASE Becomes(w, RetryAll(w)) /\ UNCHANGED inboxVars
  BY <1>2, <1>3, RetryStep DEF InboxKept, inboxVars
<1>4. ASSUME NEW stale \in {Abandoned, AllClaims},
             releaseFromOtherProjects(Outcomes(S, p, unknown, stale)),
             \/ Becomes(w, [Goto(w, "settle") EXCEPT !.view = Outcomes(S, p, unknown, stale)])
             \/ Becomes(w, RetryAll(w)) /\ Fault
      PROVE  /\ Turn(w)
             /\ \E f \in ViewSet : /\ Withdrawn(S, p, unknown, stale, f)
                                   /\ \/ Comes(w, "settle", S) /\ worker'[w].view = f
                                      \/ Retries(w) /\ Fault
  <2>1. PICK f \in ViewSet : /\ f = Outcomes(S, p, unknown, stale)
                             /\ Withdrawn(S, p, unknown, stale, f)
    <3> HIDE DEF unknown, p, S
    <3> QED
      BY <1>1, <1>4, WithdrawnForm
  <2>2. CASE Becomes(w, RetryAll(w)) /\ Fault
    BY <2>1, <2>2, RetryStep
  <2>3. CASE Becomes(w, [Goto(w, "settle") EXCEPT !.view = Outcomes(S, p, unknown, stale)])
    <3> DEFINE t == [Goto(w, "settle") EXCEPT !.view = f]
    <3>1. /\ t \in WorkerSet /\ t.pc = "settle" /\ t.project = worker[w].project
          /\ t.todo = S /\ t.again = worker[w].again /\ t.view = f
      BY <1>1, LooksForm
    <3>2. Becomes(w, t)
      BY <2>1, <2>3
    <3> HIDE DEF t
    <3>3. Turn(w) /\ worker'[w] = t
      BY <3>1, <3>2, OneWorker
    <3>4. Comes(w, "settle", S) /\ worker'[w].view = f
      BY <3>1, <3>3 DEF Comes
    <3> QED
      BY <2>1, <3>3, <3>4
  <2> QED
    BY <1>4, <2>2, <2>3
<1>5. \/ Becomes(w, RetryAll(w)) /\ UNCHANGED inboxVars
      \/ \E stale \in {Abandoned, AllClaims} :
           /\ releaseFromOtherProjects(Outcomes(S, p, unknown, stale))
           /\ \/ Becomes(w, [Goto(w, "settle") EXCEPT !.view = Outcomes(S, p, unknown, stale)])
              \/ Becomes(w, RetryAll(w)) /\ Fault
  BY DEF Withdraw
<1> QED
  BY <1>2, <1>3, <1>4, <1>5

\* A row e is done; the rows in keep go on to the phase next.
Works(w, e, pc, keep, done, next) ==
  \/ /\ worker[w].todo \ {e} # {}
     /\ worker'[w].pc = pc /\ worker'[w].project = worker[w].project
     /\ worker'[w].todo = worker[w].todo \ {e} /\ worker'[w].view = worker[w].view
     /\ worker'[w].again = worker[w].again \cup keep
  \/ /\ worker[w].todo \ {e} = {} /\ worker[w].again \cup keep = {}
     /\ worker'[w].pc = done /\ worker'[w].project = worker[w].project
     /\ worker'[w].again = {}
  \/ /\ worker[w].todo \ {e} = {}
     /\ worker'[w].pc = next /\ worker'[w].project = worker[w].project
     /\ worker'[w].todo = worker[w].again \cup keep /\ worker'[w].again = {}

LEMMA WorksForm ==
  ASSUME WorkerTypes, NEW w \in Processes, NEW e \in worker[w].todo, NEW keep \in EventSets,
         NEW done \in Pcs, NEW next \in Pcs, NEW second,
         \/ Becomes(w, IF worker[w].todo \ {e} # {}
                       THEN [worker[w] EXCEPT !.todo = worker[w].todo \ {e},
                                              !.again = worker[w].again \cup keep]
                       ELSE IF worker[w].again \cup keep = {} THEN Done(w, done)
                       ELSE [Done(w, next) EXCEPT !.todo = worker[w].again \cup keep])
         \/ Becomes(w, IF worker[w].todo \ {e} # {}
                       THEN [worker[w] EXCEPT !.todo = worker[w].todo \ {e},
                                              !.again = worker[w].again \cup keep]
                       ELSE IF worker[w].again \cup keep = {} THEN Done(w, done)
                       ELSE [Done(w, next) EXCEPT !.todo = worker[w].again \cup keep,
                                                  !.second = TRUE])
  PROVE  Turn(w) /\ Works(w, e, worker[w].pc, keep, done, next)
<1>1. PICK S \in EventSets : S = worker[w].todo \ {e}
  BY WorkerFields, EventSetForms
<1>2. PICK T \in EventSets : T = worker[w].again \cup keep
  BY WorkerFields, EventSetForms
<1>3. CASE S # {}
  <2> DEFINE s == worker[w]
             t == [s EXCEPT !.todo = S, !.again = T]
  <2>1. Becomes(w, t)
    BY <1>1, <1>2, <1>3
  <2>0. s \in WorkerSet
    BY WorkerFields
  <2> HIDE DEF s
  <2>2. /\ t \in WorkerSet /\ t.pc = s.pc /\ t.project = s.project
        /\ t.todo = S /\ t.again = T /\ t.view = s.view
    BY <1>1, <1>2, <2>0 DEF WorkerSet
  <2> USE DEF s
  <2> HIDE DEF t
  <2>3. Turn(w) /\ worker'[w] = t
    BY <2>1, <2>2, OneWorker
  <2> QED
    BY <1>1, <1>2, <1>3, <2>2, <2>3 DEF Works
<1>4. CASE S = {} /\ T = {}
  <2>1. Becomes(w, Done(w, done))
    BY <1>1, <1>2, <1>4
  <2>2. Turn(w) /\ worker'[w] = Done(w, done)
    BY <2>1, DoneForm, OneWorker
  <2> QED
    BY <1>1, <1>2, <1>4, <2>2, DoneForm DEF Works
<1>5. CASE S = {} /\ T # {}
  <2>1. \/ Becomes(w, [Done(w, next) EXCEPT !.todo = T])
        \/ Becomes(w, [Done(w, next) EXCEPT !.todo = T, !.second = TRUE])
    BY <1>1, <1>2, <1>5
  <2>0. PICK s \in WorkerSet : /\ s = Done(w, next) /\ s.pc = next /\ s.project = worker[w].project
                               /\ s.again = {}
    BY DoneForm
  <2>2. PICK t \in WorkerSet : /\ Becomes(w, t) /\ t.pc = next /\ t.project = worker[w].project
                               /\ t.todo = T /\ t.again = {}
    <3>1. LET u == [s EXCEPT !.todo = T]
          IN u \in WorkerSet /\ u.pc = s.pc /\ u.project = s.project /\ u.todo = T /\ u.again = s.again
      BY <1>2, <2>0 DEF WorkerSet
    <3>2. LET u == [s EXCEPT !.todo = T, !.second = TRUE]
          IN u \in WorkerSet /\ u.pc = s.pc /\ u.project = s.project /\ u.todo = T /\ u.again = s.again
      BY <1>2, <2>0 DEF WorkerSet
    <3>3. CASE Becomes(w, [s EXCEPT !.todo = T])
      BY <2>0, <3>1, <3>3
    <3>4. CASE Becomes(w, [s EXCEPT !.todo = T, !.second = TRUE])
      BY <2>0, <3>2, <3>4
    <3> QED
      BY <2>0, <2>1, <3>3, <3>4
  <2>3. Turn(w) /\ worker'[w] = t
    BY <2>2, OneWorker
  <2> QED
    BY <1>1, <1>2, <1>5, <2>2, <2>3 DEF Works
<1> QED
  BY <1>3, <1>4, <1>5

Kept(e, kind, kinds) == IF kind \in kinds THEN {e} ELSE {}

LEMMA SettleUploadStep ==
  ASSUME Types, NEW w \in Processes, Covered(w), SettleUpload(w)
  PROVE  /\ Turn(w) /\ InboxKept
         /\ \E e \in worker[w].todo :
              /\ First(e, worker[w].todo)
              /\ OneRow(e, AfterUpload(outbox[e], w, worker[w].view[e]))
              /\ Works(w, e, "settle",
                       Kept(e, worker[w].view[e].kind, {"absent", "released", "bound"}),
                       "renew", "insert")
<1> USE DEF Types
<1>1. PICK e \in worker[w].todo :
        LET seen == worker[w].view[e]
            keep == IF seen.kind \in {"absent", "released", "bound"} THEN {e} ELSE {}
            rest == worker[w].todo \ {e}
            again == worker[w].again \cup keep
        IN  /\ First(e, worker[w].todo)
            /\ outbox' = [outbox EXCEPT ![e] = AfterUpload(@, w, seen)]
            /\ Becomes(w, IF rest # {}
                          THEN [worker[w] EXCEPT !.todo = rest, !.again = again]
                          ELSE IF again = {} THEN Done(w, "renew")
                          ELSE [Done(w, "insert") EXCEPT !.todo = again, !.second = TRUE])
  BY DEF SettleUpload
<1>2. InboxKept /\ worker[w].pc = "settle"
  BY DEF SettleUpload, InboxKept, inboxVars, At
<1>3. e \in Events /\ worker[w].view[e] \in SeenSet
  BY <1>2, WorkerFields DEF Covered, ViewPcs
<1>4. OneRow(e, AfterUpload(outbox[e], w, worker[w].view[e]))
  <2>1. PICK r \in RowSet : r = AfterUpload(outbox[e], w, worker[w].view[e])
    BY <1>3, RowFields, AfterUploadForm
  <2>2. outbox' = [outbox EXCEPT ![e] = r]
    BY <1>1, <2>1
  <2> QED
    BY <1>3, <2>1, <2>2, RowChanges
<1>5. PICK keep \in EventSets :
        keep = Kept(e, worker[w].view[e].kind, {"absent", "released", "bound"})
  BY <1>3, EventSetForms DEF Kept
<1>6. "renew" \in Pcs /\ "insert" \in Pcs
  BY DEF Pcs, Between, Inside
<1>7. Turn(w) /\ Works(w, e, worker[w].pc, keep, "renew", "insert")
  BY <1>1, <1>5, <1>6, WorksForm DEF Kept
<1> QED
  BY <1>1, <1>2, <1>4, <1>5, <1>7

(* The claims. *)
LEMMA RenewStep ==
  ASSUME Types, NEW w \in Processes, Renew(w)
  PROVE  Turn(w) /\ RowsKept /\ InboxKept /\ Turns(w, {"fetch", "release", AfterClaims(w)})
<1> USE DEF Types
<1>1. RowsKept /\ InboxKept
  BY DEF Renew, RowsKept, InboxKept, inboxVars
<1>2. PICK m \in BOOLEAN : m = Moved(w)
  BY MovedForm
<1>3. \/ Becomes(w, [Goto(w, "fetch") EXCEPT !.moved = m])
      \/ Becomes(w, EndPass(w)) \/ Becomes(w, ClaimsDone(w))
  BY <1>2 DEF Renew
<1>4. PICK t \in WorkerSet : /\ Becomes(w, t) /\ t.pc \in {"fetch", "release", AfterClaims(w)}
                             /\ t.project = worker[w].project /\ t.again \subseteq worker[w].again
  <2>1. "fetch" \in Pcs /\ {} \in EventSets
    BY EventSetForms DEF Pcs, Between
  <2>2. CASE Becomes(w, EndPass(w))
    BY <2>2, EndForm
  <2>3. CASE Becomes(w, ClaimsDone(w))
    BY <2>3, ClaimsDoneForm DEF AfterClaims
  <2>4. CASE Becomes(w, [Goto(w, "fetch") EXCEPT !.moved = m])
    <3> DEFINE s == Goto(w, "fetch")
    <3>1. s \in WorkerSet /\ s.pc = "fetch" /\ s.project = worker[w].project
          /\ s.again = worker[w].again
      BY <2>1, GotoForm
    <3> HIDE DEF s
    <3>2. LET u == [s EXCEPT !.moved = m]
          IN u \in WorkerSet /\ u.pc = s.pc /\ u.project = s.project /\ u.again = s.again
      BY <3>1 DEF WorkerSet
    <3> QED
      BY <2>4, <3>1, <3>2 DEF s
  <2> QED
    BY <1>3, <2>2, <2>3, <2>4
<1>5. Turn(w) /\ worker'[w] = t
  BY <1>4, OneWorker
<1> QED
  BY <1>1, <1>4, <1>5 DEF Turns

\* The row of e becomes st where it is.
RowMoves(e, st) ==
  /\ inbox' \in [Events -> InboxSet] /\ copies' = copies
  /\ inbox'[e].status = st /\ inbox'[e].project = inbox[e].project /\ inbox'[e].id = inbox[e].id
  /\ \A d \in Events \ {e} : inbox'[d] = inbox[d]

AppliedKept == applied' = applied

LEMMA ClaimForm ==
  ASSUME StoreTypes, NEW e \in Events, NEW w \in Processes, NEW token \in Nat,
         claimPassiveEvents(e, w, token)
  PROVE  RowMoves(e, "claimed") /\ AppliedKept
<1> DEFINE row == inbox[e]
           r == [row EXCEPT !.status = "claimed", !.owner = w, !.token = token,
                            !.attempts = row.attempts + 1]
<1>1. row \in InboxSet /\ row.attempts \in Nat /\ row.attempts + 1 \in Nat
  BY RowFields
<1>2. inbox' = [inbox EXCEPT ![e] = r]
  BY DEF claimPassiveEvents
<1>3. PICK n \in Nat : n = row.attempts + 1
  BY <1>1
<1>4. r \in InboxSet /\ r.status = "claimed" /\ r.project = row.project /\ r.id = row.id
  <2> HIDE DEF row
  <2> QED
    BY <1>1, <1>3 DEF InboxSet, Owners, Statuses
<1> HIDE DEF r
<1>5. inbox \in [Events -> InboxSet]
  BY DEF StoreTypes
<1>6. copies' = copies /\ applied' = applied
  BY DEF claimPassiveEvents
<1> QED
  BY <1>2, <1>4, <1>5, <1>6 DEF RowMoves, AppliedKept

LEMMA UnclaimedForm ==
  ASSUME StoreTypes, NEW e \in Events, NEW st \in Statuses,
         inbox' = [inbox EXCEPT ![e] = Unclaimed(@, st)], copies' = copies
  PROVE  RowMoves(e, st)
<1> DEFINE row == inbox[e]
           r == [row EXCEPT !.status = st, !.owner = NoWorker, !.token = 0]
<1>1. row \in InboxSet
  BY RowFields
<1>2. inbox' = [inbox EXCEPT ![e] = r]
  BY DEF Unclaimed
<1>3. r \in InboxSet /\ r.status = st /\ r.project = row.project /\ r.id = row.id
  <2> HIDE DEF row
  <2>1. 0 \in Nat
    OBVIOUS
  <2> QED
    BY <1>1, <2>1 DEF InboxSet, Owners
<1> HIDE DEF r
<1>4. inbox \in [Events -> InboxSet]
  BY DEF StoreTypes
<1> QED
  BY <1>2, <1>3, <1>4 DEF RowMoves

LEMMA TokenForm ==
  ASSUME LeaseTypeOK, NEW w \in Processes, worker[w].project \in Projects,
         w \notin Daemons => worker[w].project = HomeProject
  PROVE  DrainLease(w, worker[w].project) \in Resources /\ Token(w) \in Nat
<1>1. DrainLease(w, worker[w].project) \in Resources
  BY ReplicationAssumption DEF DrainLease
<1> QED
  BY <1>1 DEF Token, LeaseTypeOK

LEMMA FetchStep ==
  ASSUME Types, NEW w \in Processes, Token(w) \in Nat, Fetch(w)
  PROVE  /\ Turn(w) /\ RowsKept
         /\ \/ \E e \in Events, stale \in {Abandoned, AllClaims} :
                 /\ e \in Claimable(worker[w].project, stale)
                 /\ RowMoves(e, "claimed") /\ AppliedKept
                 /\ \/ /\ Turns(w, {"apply"})
                       /\ worker'[w].claim.event = e
                    \/ Turns(w, {"release"})
            \/ InboxKept /\ Turns(w, {AfterClaims(w)})
<1> USE DEF Types
<1>1. RowsKept
  BY DEF Fetch, RowsKept
<1>2. CASE Becomes(w, ClaimsDone(w)) /\ UNCHANGED inboxVars
  <2>1. PICK t \in WorkerSet : /\ t = ClaimsDone(w) /\ t.pc = AfterClaims(w)
                               /\ t.project = worker[w].project /\ t.again \subseteq worker[w].again
    BY ClaimsDoneForm DEF AfterClaims
  <2>2. Turn(w) /\ worker'[w] = t
    BY <1>2, <2>1, OneWorker
  <2> QED
    BY <1>1, <1>2, <2>1, <2>2 DEF Turns, InboxKept, inboxVars
<1>3. ASSUME NEW stale \in {Abandoned, AllClaims}, NEW e \in Claimable(worker[w].project, stale),
             claimPassiveEvents(e, w, Token(w)),
             \/ Becomes(w, EndPass(w))
             \/ Becomes(w, [Goto(w, "apply") EXCEPT
                              !.moved = Moved(w), !.budget = @ - 1,
                              !.claim = [event |-> e, id |-> inbox[e].id,
                                         attempts |-> inbox[e].attempts + 1]])
      PROVE  /\ Turn(w) /\ RowMoves(e, "claimed") /\ AppliedKept /\ e \in Events
             /\ \/ Turns(w, {"apply"}) /\ worker'[w].claim.event = e
                \/ Turns(w, {"release"})
  <2>1. e \in Events
    BY DEF Claimable
  <2>2. RowMoves(e, "claimed") /\ AppliedKept
    BY <1>3, <2>1, ClaimForm
  <2>3. CASE Becomes(w, EndPass(w))
    <3>1. PICK t \in WorkerSet : /\ t = EndPass(w) /\ t.pc = "release"
                                 /\ t.project = worker[w].project /\ t.again = {}
      BY EndForm
    <3>2. Turn(w) /\ worker'[w] = t
      BY <2>3, <3>1, OneWorker
    <3> QED
      BY <2>1, <2>2, <3>1, <3>2 DEF Turns
  <2>4. CASE Becomes(w, [Goto(w, "apply") EXCEPT
                              !.moved = Moved(w), !.budget = @ - 1,
                              !.claim = [event |-> e, id |-> inbox[e].id,
                                         attempts |-> inbox[e].attempts + 1]])
    <3>1. PICK m \in BOOLEAN : m = Moved(w)
      BY MovedForm
    <3>2. PICK c \in ClaimSet : c.event = e /\ c = [event |-> e, id |-> inbox[e].id,
                                                    attempts |-> inbox[e].attempts + 1]
      <4>1. inbox[e].id \in Nat /\ inbox[e].attempts + 1 \in Nat
        BY <2>1, RowFields
      <4> QED
        BY <2>1, <4>1 DEF ClaimSet
    <3> DEFINE s == Goto(w, "apply")
    <3>3. /\ s \in WorkerSet /\ s.pc = "apply" /\ s.project = worker[w].project
          /\ s.again = worker[w].again
      BY GotoForm DEF Pcs, Between
    <3>4. Becomes(w, [s EXCEPT !.moved = m, !.budget = @ - 1, !.claim = c])
      BY <2>4, <3>1, <3>2
    <3> HIDE DEF s
    <3>5. PICK n \in Int : n = s.budget - 1
      BY <3>3 DEF WorkerSet
    <3> DEFINE t == [s EXCEPT !.moved = m, !.budget = n, !.claim = c]
    <3>6. Becomes(w, t)
      BY <3>4, <3>5
    <3>7. /\ t \in WorkerSet /\ t.pc = s.pc /\ t.project = s.project /\ t.again = s.again
          /\ t.claim = c
      BY <3>3 DEF WorkerSet
    <3> HIDE DEF t
    <3>8. Turn(w) /\ worker'[w] = t
      BY <3>6, <3>7, OneWorker
    <3> QED
      BY <2>1, <2>2, <3>2, <3>3, <3>7, <3>8 DEF Turns
  <2> QED
    BY <1>3, <2>3, <2>4
<1>4. \/ Becomes(w, ClaimsDone(w)) /\ UNCHANGED inboxVars
      \/ \E stale \in {Abandoned, AllClaims} : \E e \in Claimable(worker[w].project, stale) :
           /\ claimPassiveEvents(e, w, Token(w))
           /\ \/ Becomes(w, EndPass(w))
              \/ Becomes(w, [Goto(w, "apply") EXCEPT
                               !.moved = Moved(w), !.budget = @ - 1,
                               !.claim = [event |-> e, id |-> inbox[e].id,
                                          attempts |-> inbox[e].attempts + 1]])
  BY DEF Fetch
<1> QED
  BY <1>1, <1>2, <1>3, <1>4

LEMMA RenewForApplyStep ==
  ASSUME Types, NEW w \in Processes, RenewForApply(w)
  PROVE  /\ Turn(w) /\ RowsKept /\ InboxKept
         /\ \/ Turns(w, {"applying"}) /\ worker'[w].claim = worker[w].claim
            \/ Turns(w, {AfterClaims(w)})
<1> USE DEF Types
<1>1. RowsKept /\ InboxKept
  BY DEF RenewForApply, RowsKept, InboxKept, inboxVars
<1>2. PICK m \in BOOLEAN : m = Moved(w)
  BY MovedForm
<1>3. CASE Becomes(w, ClaimsDone(w))
  <2>1. PICK t \in WorkerSet : /\ t = ClaimsDone(w) /\ t.pc = AfterClaims(w)
                               /\ t.project = worker[w].project /\ t.again \subseteq worker[w].again
    BY ClaimsDoneForm DEF AfterClaims
  <2>2. Turn(w) /\ worker'[w] = t
    BY <1>3, <2>1, OneWorker
  <2> QED
    BY <1>1, <2>1, <2>2 DEF Turns
<1>4. CASE Becomes(w, [Goto(w, "applying") EXCEPT !.moved = Moved(w)])
  <2> DEFINE s == Goto(w, "applying")
             t == [s EXCEPT !.moved = m]
  <2>1. /\ s \in WorkerSet /\ s.pc = "applying" /\ s.project = worker[w].project
        /\ s.again = worker[w].again /\ s.claim = worker[w].claim
    BY GotoForm DEF Pcs, Inside
  <2>2. Becomes(w, t)
    BY <1>2, <1>4
  <2> HIDE DEF s
  <2>3. /\ t \in WorkerSet /\ t.pc = s.pc /\ t.project = s.project /\ t.again = s.again
        /\ t.claim = s.claim
    BY <2>1 DEF WorkerSet
  <2> HIDE DEF t
  <2>4. Turn(w) /\ worker'[w] = t
    BY <2>2, <2>3, OneWorker
  <2> QED
    BY <1>1, <2>1, <2>3, <2>4 DEF Turns
<1> QED
  BY <1>3, <1>4 DEF RenewForApply

\* Where a pass is after it went on claiming, or stopped.
Onwards(w) == {"renewAgain", AfterClaims(w)}

LEMMA NextClaimStep ==
  ASSUME WorkerTypes, NEW w \in Processes, NEW gain, Becomes(w, NextClaim(w, gain))
  PROVE  Turn(w) /\ Turns(w, Onwards(w))
<1>1. PICK t \in WorkerSet : /\ t = NextClaim(w, gain) /\ t.pc \in Onwards(w)
                             /\ t.project = worker[w].project /\ t.again \subseteq worker[w].again
  BY NextClaimForm DEF AfterClaims, Onwards
<1>2. Turn(w) /\ worker'[w] = t
  BY <1>1, OneWorker
<1> QED
  BY <1>1, <1>2 DEF Turns

LEMMA GotoStep ==
  ASSUME WorkerTypes, NEW w \in Processes, NEW pc \in Pcs, Becomes(w, Goto(w, pc))
  PROVE  /\ Turn(w) /\ Turns(w, {pc}) /\ worker'[w].claim = worker[w].claim
         /\ worker'[w].todo = worker[w].todo
<1>1. PICK t \in WorkerSet : /\ t = Goto(w, pc) /\ t.pc = pc /\ t.project = worker[w].project
                             /\ t.again = worker[w].again /\ t.claim = worker[w].claim
                             /\ t.todo = worker[w].todo
  BY GotoForm
<1>2. Turn(w) /\ worker'[w] = t
  BY <1>1, OneWorker
<1> QED
  BY <1>1, <1>2 DEF Turns

LEMMA EndStep ==
  ASSUME WorkerTypes, NEW w \in Processes, Becomes(w, EndPass(w))
  PROVE  Turn(w) /\ Turns(w, {"release"}) /\ worker'[w].todo = {} /\ worker'[w].again = {}
<1>1. PICK t \in WorkerSet : /\ t = EndPass(w) /\ t.pc = "release" /\ t.project = worker[w].project
                             /\ t.again = {} /\ t.todo = {}
  BY EndForm
<1>2. Turn(w) /\ worker'[w] = t
  BY <1>1, OneWorker
<1> QED
  BY <1>1, <1>2 DEF Turns

LEMMA DoneStep ==
  ASSUME WorkerTypes, NEW w \in Processes, NEW pc \in Pcs, Becomes(w, Done(w, pc))
  PROVE  Turn(w) /\ Turns(w, {pc}) /\ worker'[w].todo = {} /\ worker'[w].again = {}
<1>1. PICK t \in WorkerSet : /\ t = Done(w, pc) /\ t.pc = pc /\ t.project = worker[w].project
                             /\ t.again = {} /\ t.todo = {}
  BY DoneForm
<1>2. Turn(w) /\ worker'[w] = t
  BY <1>1, OneWorker
<1> QED
  BY <1>1, <1>2 DEF Turns

\* The claim of w is the row as it was claimed, and may be settled.
Settles(w, e) ==
  /\ e = worker[w].claim.event /\ e \in Events /\ Fenced(w)
  /\ In(e, worker[w].project) /\ inbox[e].status = "claimed"

LEMMA ApplyStep ==
  ASSUME Types, NEW w \in Processes, worker[w].claim.event \in Events, Apply(w)
  PROVE  /\ Turn(w) /\ RowsKept
         /\ \/ /\ InboxKept
               /\ \/ Turns(w, Onwards(w))
                  \/ Turns(w, {"applyRead"}) /\ worker'[w].claim = worker[w].claim
            \/ \E e \in Events :
                 /\ Settles(w, e) /\ RowMoves(e, "quarantined") /\ AppliedKept
                 /\ Turns(w, Onwards(w))
            \/ \E e \in Events :
                 /\ Settles(w, e) /\ RowMoves(e, "applied")
                 /\ applied' = [applied EXCEPT ![e] = applied[e] + 1]
                 /\ \/ Turns(w, Onwards(w))
                    \/ Turns(w, {"applyRead"}) /\ worker'[w].claim = worker[w].claim
<1> USE DEF Types
<1> DEFINE e == worker[w].claim.event
<1>1. RowsKept
  BY DEF Apply, RowsKept
<1>2. "applyRead" \in Pcs /\ "quarantined" \in Statuses /\ "applied" \in Statuses
  BY DEF Pcs, Inside, Statuses
<1>3. ASSUME NEW gain, Becomes(w, NextClaim(w, gain))
      PROVE  Turn(w) /\ Turns(w, Onwards(w))
  BY <1>3, NextClaimStep
<1>4. ASSUME Becomes(w, Goto(w, "applyRead"))
      PROVE  Turn(w) /\ Turns(w, {"applyRead"}) /\ worker'[w].claim = worker[w].claim
  BY <1>2, <1>4, GotoStep
<1>5. CanSettle(w) /\ Fenced(w) => Settles(w, e)
  BY DEF CanSettle, ClaimStands, SameClaim, Settles
<1>6. claimTransition(e, "quarantined") => RowMoves(e, "quarantined") /\ AppliedKept
  BY <1>2, UnclaimedForm DEF claimTransition, AppliedKept
<1>7. completeApplied(e) => /\ RowMoves(e, "applied")
                            /\ applied' = [applied EXCEPT ![e] = applied[e] + 1]
  BY <1>2, UnclaimedForm DEF completeApplied
<1>8. CASE <<w, e>> \in Unsupported
  <2>1. \/ /\ CanSettle(w) /\ Fenced(w) /\ claimTransition(e, "quarantined")
           /\ Becomes(w, NextClaim(w, TRUE)) \/ Becomes(w, NextClaim(w, FALSE))
        \/ /\ UNCHANGED inboxVars
           /\ \E gain \in BOOLEAN : Becomes(w, NextClaim(w, gain))
    <3>1. (In(e, worker[w].project) /\ inbox[e].status = "quarantined") \in BOOLEAN
      BY DEF In, Stored
    <3> QED
      BY <1>8, <3>1 DEF Apply
  <2> QED
    BY <1>1, <1>3, <1>5, <1>6, <2>1 DEF InboxKept, inboxVars
<1>9. CASE <<w, e>> \notin Unsupported
  <2>1. \/ /\ CanSettle(w) /\ Fenced(w) /\ completeApplied(e)
           /\ Becomes(w, NextClaim(w, TRUE)) \/ Becomes(w, Goto(w, "applyRead"))
        \/ UNCHANGED inboxVars /\ Becomes(w, Goto(w, "applyRead"))
    BY <1>9 DEF Apply
  <2> QED
    BY <1>1, <1>3, <1>4, <1>5, <1>7, <2>1 DEF InboxKept, inboxVars
<1> QED
  BY <1>8, <1>9

LEMMA ReadBackClaimStep ==
  ASSUME Types, NEW w \in Processes, ReadBackClaim(w)
  PROVE  /\ Turn(w) /\ RowsKept /\ InboxKept
         /\ \/ Turns(w, Onwards(w))
            \/ Turns(w, {"punish"}) /\ worker'[w].claim = worker[w].claim
<1> USE DEF Types
<1> DEFINE e == worker[w].claim.event
           gained == In(e, worker[w].project) /\ inbox[e].status = "applied"
<1>1. RowsKept /\ InboxKept
  BY DEF ReadBackClaim, RowsKept, InboxKept, inboxVars
<1>2. \/ Becomes(w, Goto(w, "punish"))
      \/ Becomes(w, NextClaim(w, gained)) \/ Becomes(w, NextClaim(w, FALSE))
  BY DEF ReadBackClaim
<1> HIDE DEF gained
<1>3. "punish" \in Pcs
  BY DEF Pcs, Inside
<1> QED
  BY <1>1, <1>2, <1>3, NextClaimStep, GotoStep

LEMMA PunishStep ==
  ASSUME Types, NEW w \in Processes, worker[w].claim.event \in Events, Punish(w)
  PROVE  /\ Turn(w) /\ RowsKept
         /\ \/ InboxKept /\ Turns(w, {"release"}) /\ worker'[w].again = {}
            \/ \E e \in Events, st \in {"quarantined", "retry"} :
                 /\ Settles(w, e) /\ RowMoves(e, st) /\ AppliedKept
                 /\ Turns(w, {"release"} \cup Onwards(w))
<1> USE DEF Types
<1> DEFINE e == worker[w].claim.event
           poison == worker[w].claim.attempts >= QuarantineAfter
           st == IF poison THEN "quarantined" ELSE "retry"
<1>1. RowsKept
  BY DEF Punish, RowsKept
<1>2. st \in {"quarantined", "retry"} /\ st \in Statuses
  BY DEF Statuses
<1>3. \/ UNCHANGED inboxVars /\ Becomes(w, EndPass(w))
      \/ /\ CanSettle(w) /\ Fenced(w) /\ claimTransition(e, st)
         /\ Becomes(w, NextClaim(w, poison)) \/ Becomes(w, EndPass(w))
  BY DEF Punish
<1> HIDE DEF st, poison
<1>4. CanSettle(w) /\ Fenced(w) => Settles(w, e)
  BY DEF CanSettle, ClaimStands, SameClaim, Settles
<1>5. claimTransition(e, st) => RowMoves(e, st) /\ AppliedKept
  BY <1>2, UnclaimedForm DEF claimTransition, AppliedKept
<1>6. Becomes(w, EndPass(w)) => Turn(w) /\ Turns(w, {"release"}) /\ worker'[w].again = {}
  BY EndStep
<1>7. Becomes(w, NextClaim(w, poison)) => Turn(w) /\ Turns(w, Onwards(w))
  BY NextClaimStep
<1>8. Turns(w, {"release"}) \/ Turns(w, Onwards(w)) => Turns(w, {"release"} \cup Onwards(w))
  BY DEF Turns
<1>9. CASE UNCHANGED inboxVars /\ Becomes(w, EndPass(w))
  BY <1>1, <1>6, <1>9 DEF InboxKept, inboxVars
<1>10. CASE /\ CanSettle(w) /\ Fenced(w) /\ claimTransition(e, st)
            /\ Becomes(w, NextClaim(w, poison)) \/ Becomes(w, EndPass(w))
  BY <1>1, <1>2, <1>4, <1>5, <1>6, <1>7, <1>8, <1>10
<1> QED
  BY <1>3, <1>9, <1>10

LEMMA ReconcileStep ==
  ASSUME Types, NEW w \in Processes, Reconcile(w)
  PROVE  /\ Turn(w) /\ RowsKept /\ InboxKept
         /\ worker'[w].pc \in {"prune", "observe"} /\ worker'[w].project = worker[w].project
         /\ worker'[w].pc = "prune" => worker'[w].todo = {}
         /\ worker'[w].todo = AwaitingRemote /\ worker'[w].again = worker[w].again
         /\ \A e \in AwaitingRemote :
              /\ worker'[w].view[e] \in SeenSet
              /\ \/ In(e, worker[w].project) /\ worker'[w].view[e] = Seen(inbox[e])
                 \/ worker'[w].view[e] = [kind |-> "missing", id |-> 0]
<1> USE DEF Types
<1> DEFINE Look(e) == IF In(e, worker[w].project) THEN Seen(inbox[e])
                      ELSE [kind |-> "missing", id |-> 0]
<1>1. RowsKept /\ InboxKept
  BY DEF Reconcile, RowsKept, InboxKept, inboxVars
<1>2. PICK S \in EventSets : S = AwaitingRemote
  BY DEF AwaitingRemote, EventSets
<1>3. PICK m \in BOOLEAN : m = Moved(w)
  BY MovedForm
<1>4. PICK pc \in Pcs : /\ pc \in {"prune", "observe"}
                        /\ pc = IF S = {} THEN "prune" ELSE "observe"
  BY DEF Pcs, Between, Inside
<1>5. PICK f \in ViewSet : /\ f = [e \in S |-> Look(e)]
                           /\ \A e \in S : f[e] = Look(e) /\ f[e] \in SeenSet
  <2>1. \A e \in S : Look(e) \in SeenSet
    <3>1. [kind |-> "missing", id |-> 0] \in SeenSet
      BY DEF SeenSet, Kinds
    <3> QED
      BY <1>2, <3>1, RowFields DEF EventSets
  <2>2. [e \in S |-> Look(e)] \in [S -> SeenSet]
    BY <2>1
  <2> HIDE DEF Look
  <2>3. [e \in S |-> Look(e)] \in ViewSet
    BY <1>2, <2>2, ViewForm
  <2> QED
    BY <2>1, <2>3
<1>6. Becomes(w, [Goto(w, pc) EXCEPT !.moved = m, !.todo = S, !.view = f])
  BY <1>2, <1>3, <1>4, <1>5 DEF Reconcile
<1>7. \A e \in S : \/ In(e, worker[w].project) /\ f[e] = Seen(inbox[e])
                   \/ f[e] = [kind |-> "missing", id |-> 0]
  BY <1>5
<1> HIDE DEF Look
<1> DEFINE s == Goto(w, pc)
           t == [s EXCEPT !.moved = m, !.todo = S, !.view = f]
<1>8. /\ s \in WorkerSet /\ s.pc = pc /\ s.project = worker[w].project
      /\ s.again = worker[w].again
  BY <1>4, GotoForm
<1>9. Becomes(w, t)
  BY <1>6
<1> HIDE DEF s
<1>10. /\ t \in WorkerSet /\ t.pc = s.pc /\ t.project = s.project /\ t.again = s.again
       /\ t.todo = S /\ t.view = f
  BY <1>2, <1>3, <1>5, <1>8 DEF WorkerSet
<1> HIDE DEF t
<1>11. Turn(w) /\ worker'[w] = t
  BY <1>9, <1>10, OneWorker
<1> QED
  BY <1>1, <1>2, <1>4, <1>5, <1>7, <1>8, <1>10, <1>11

LEMMA ObserveStep ==
  ASSUME Types, NEW w \in Processes, Covered(w), Observe(w)
  PROVE  /\ Turn(w) /\ InboxKept
         /\ \E e \in worker[w].todo :
              /\ OneRow(e, ObservedRow(outbox[e], worker[w].view[e]))
              /\ Works(w, e, "observe", Kept(e, worker[w].view[e].kind, {"missing"}),
                       "prune", "unbound")
<1> USE DEF Types
<1>1. PICK e \in worker[w].todo :
        LET seen == worker[w].view[e]
            rest == worker[w].todo \ {e}
            again == worker[w].again \cup IF seen.kind = "missing" THEN {e} ELSE {}
        IN  /\ outbox' = [outbox EXCEPT ![e] = ObservedRow(@, seen)]
            /\ Becomes(w, IF rest # {}
                          THEN [worker[w] EXCEPT !.todo = rest, !.again = again]
                          ELSE IF again = {} THEN Done(w, "prune")
                          ELSE [Done(w, "unbound") EXCEPT !.todo = again])
  BY DEF Observe, ObservedRow
<1>2. InboxKept /\ worker[w].pc = "observe"
  BY DEF Observe, InboxKept, inboxVars, At
<1>3. e \in Events /\ worker[w].view[e] \in SeenSet
  BY <1>2, WorkerFields DEF Covered, ViewPcs
<1>4. OneRow(e, ObservedRow(outbox[e], worker[w].view[e]))
  <2>1. PICK r \in RowSet : r = ObservedRow(outbox[e], worker[w].view[e])
    BY <1>3, RowFields, ObservedForm
  <2>2. outbox' = [outbox EXCEPT ![e] = r]
    BY <1>1, <2>1
  <2> QED
    BY <1>3, <2>1, <2>2, RowChanges
<1>5. PICK keep \in EventSets : keep = Kept(e, worker[w].view[e].kind, {"missing"})
  BY <1>3, EventSetForms DEF Kept
<1>6. "prune" \in Pcs /\ "unbound" \in Pcs
  BY DEF Pcs, Between, Inside
<1>7. Turn(w) /\ Works(w, e, worker[w].pc, keep, "prune", "unbound")
  BY <1>1, <1>5, <1>6, WorksForm DEF Kept
<1> QED
  BY <1>1, <1>2, <1>4, <1>5, <1>7

\* One row e less to do, or the phase is over.
Leaves(w, e, pc, done) ==
  \/ Comes(w, pc, worker[w].todo \ {e}) /\ worker'[w].view = worker[w].view
  \/ Turns(w, {done}) /\ worker'[w].again = {}

LEMMA LeavesForm ==
  ASSUME WorkerTypes, NEW w \in Processes, NEW e, NEW done \in Pcs,
         \/ Becomes(w, Done(w, done))
         \/ Becomes(w, EndPass(w)) /\ done = "release"
         \/ Becomes(w, [worker[w] EXCEPT !.todo = worker[w].todo \ {e}])
  PROVE  Turn(w) /\ Leaves(w, e, worker[w].pc, done)
<1>1. CASE Becomes(w, Done(w, done))
  BY <1>1, DoneStep DEF Leaves
<1>2. CASE Becomes(w, EndPass(w)) /\ done = "release"
  BY <1>2, EndStep DEF Leaves
<1>3. CASE Becomes(w, [worker[w] EXCEPT !.todo = worker[w].todo \ {e}])
  <2>1. PICK S \in EventSets : S = worker[w].todo \ {e}
    BY WorkerFields, EventSetForms
  <2> DEFINE s == worker[w]
             t == [s EXCEPT !.todo = S]
  <2>2. Becomes(w, t)
    BY <1>3, <2>1
  <2>3. s \in WorkerSet
    BY WorkerFields
  <2> HIDE DEF s
  <2>4. /\ t \in WorkerSet /\ t.pc = s.pc /\ t.project = s.project
        /\ t.todo = S /\ t.again = s.again /\ t.view = s.view
    BY <2>1, <2>3 DEF WorkerSet
  <2> USE DEF s
  <2> HIDE DEF t
  <2>5. Turn(w) /\ worker'[w] = t
    BY <2>2, <2>4, OneWorker
  <2> QED
    BY <2>1, <2>4, <2>5 DEF Leaves, Comes
<1> QED
  BY <1>1, <1>2, <1>3

LEMMA RequeueStep ==
  ASSUME Types, NEW w \in Processes, Covered(w), Requeue(w)
  PROVE  /\ Turn(w) /\ InboxKept
         /\ \E e \in worker[w].todo :
              /\ OneRow(e, AfterWithdraw(outbox[e], worker[w].view[e]))
              /\ Leaves(w, e, "requeue", "prune")
<1> USE DEF Types
<1>1. PICK e \in worker[w].todo :
        /\ outbox' = [outbox EXCEPT ![e] = AfterWithdraw(@, worker[w].view[e])]
        /\ Becomes(w, IF worker[w].todo = {e} THEN Done(w, "prune")
                      ELSE [worker[w] EXCEPT !.todo = @ \ {e}])
  BY DEF Requeue
<1>2. InboxKept /\ worker[w].pc = "requeue"
  BY DEF Requeue, InboxKept, inboxVars, At
<1>3. e \in Events /\ worker[w].view[e] \in SeenSet /\ "prune" \in Pcs
  BY <1>2, WorkerFields DEF Covered, ViewPcs, Pcs, Between
<1>4. OneRow(e, AfterWithdraw(outbox[e], worker[w].view[e]))
  <2>1. PICK r \in RowSet : r = AfterWithdraw(outbox[e], worker[w].view[e])
    BY <1>3, RowFields, AfterWithdrawForm
  <2>2. outbox' = [outbox EXCEPT ![e] = r]
    BY <1>1, <2>1
  <2> QED
    BY <1>3, <2>1, <2>2, RowChanges
<1>5. Turn(w) /\ Leaves(w, e, worker[w].pc, "prune")
  BY <1>1, <1>3, LeavesForm
<1> QED
  BY <1>1, <1>2, <1>4, <1>5

LEMMA QuarantineForm ==
  ASSUME NEW row \in RowSet, NEW r, r = markQuarantined(row, row.inbox)
  PROVE  /\ r \in RowSet /\ r.pruned = row.pruned /\ r.inbox = row.inbox
         /\ r = row \/ r.state = "quarantined"
         /\ row.state # "acknowledged" => r.state = "quarantined"
<1>1. row.inbox \in Nat
  BY DEF RowSet
<1>2. r = row \/ r = Settled(row, "quarantined", row.inbox)
  BY DEF markQuarantined
<1>3. row.state # "acknowledged" => r = Settled(row, "quarantined", row.inbox)
  BY DEF markQuarantined, SameCopy
<1>4. /\ Settled(row, "quarantined", row.inbox) \in RowSet
      /\ Settled(row, "quarantined", row.inbox).state = "quarantined"
      /\ Settled(row, "quarantined", row.inbox).inbox = row.inbox
      /\ Settled(row, "quarantined", row.inbox).pruned = row.pruned
  BY <1>1, States DEF Settled, RowSet, Owners
<1> QED
  BY <1>1, <1>2, <1>3, <1>4

LEMMA WithdrawUnboundStep ==
  ASSUME Types, NEW w \in Processes, WithdrawUnbound(w)
  PROVE  /\ Turn(w)
         /\ \/ /\ InboxKept
               /\ \E e \in worker[w].todo :
                    /\ OneRow(e, markQuarantined(outbox[e], outbox[e].inbox))
                    /\ Leaves(w, e, "unbound", "prune")
            \/ RowsKept /\ InboxKept /\ Turns(w, {"prune"}) /\ worker'[w].again = {}
            \/ /\ RowsKept /\ ~worker[w].moved
               /\ \E stale \in {Abandoned, AllClaims}, f \in ViewSet :
                    /\ Withdrawn(worker[w].todo, worker[w].project,
                                 [e \in worker[w].todo |-> outbox[e].inbox], stale, f)
                    /\ \/ Comes(w, "requeue", worker[w].todo) /\ worker'[w].view = f
                       \/ Turns(w, {"prune"}) /\ worker'[w].again = {} /\ Fault
<1> USE DEF Types
<1> DEFINE S == worker[w].todo
           p == worker[w].project
           known == [e \in S |-> outbox[e].inbox]
           unsafe == {e \in S : <<w, e>> \in Unsafe}
<1>1. /\ S \in EventSets /\ S \subseteq Events /\ "requeue" \in Pcs /\ "prune" \in Pcs
      /\ worker[w].pc = "unbound"
  BY WorkerFields DEF Pcs, Inside, Between, WithdrawUnbound, At
<1>2. CASE unsafe # {}
  <2>1. PICK e \in unsafe :
          /\ outbox' = [outbox EXCEPT ![e] = markQuarantined(@, @.inbox)]
          /\ Becomes(w, IF S = {e} THEN Done(w, "prune")
                        ELSE [worker[w] EXCEPT !.todo = @ \ {e}])
          /\ UNCHANGED inboxVars
    BY <1>2 DEF WithdrawUnbound
  <2>2. e \in S /\ e \in Events
    BY <1>1
  <2>3. PICK r \in RowSet : r = markQuarantined(outbox[e], outbox[e].inbox)
    BY <2>2, RowFields, QuarantineForm
  <2>4. outbox' = [outbox EXCEPT ![e] = r]
    BY <2>1, <2>3
  <2>5. OneRow(e, markQuarantined(outbox[e], outbox[e].inbox))
    BY <2>2, <2>3, <2>4, RowChanges
  <2>6. Turn(w) /\ Leaves(w, e, worker[w].pc, "prune")
    BY <1>1, <2>1, LeavesForm
  <2> QED
    BY <1>1, <2>1, <2>2, <2>5, <2>6 DEF InboxKept, inboxVars
<1>3. CASE unsafe = {}
  <2>1. /\ RowsKept
        /\ \/ Becomes(w, Done(w, "prune")) /\ UNCHANGED inboxVars
           \/ /\ ~worker[w].moved
              /\ \E stale \in {Abandoned, AllClaims} :
                   /\ releaseFromOtherProjects(Outcomes(S, p, known, stale))
                   /\ \/ Becomes(w, [Goto(w, "requeue") EXCEPT
                                       !.view = Outcomes(S, p, known, stale)])
                      \/ Becomes(w, Done(w, "prune")) /\ Fault
    BY <1>3 DEF WithdrawUnbound, RowsKept
  <2>2. CASE Becomes(w, Done(w, "prune")) /\ UNCHANGED inboxVars
    BY <1>1, <2>1, <2>2, DoneStep DEF InboxKept, inboxVars
  <2>3. ASSUME NEW stale \in {Abandoned, AllClaims},
               releaseFromOtherProjects(Outcomes(S, p, known, stale)),
               \/ Becomes(w, [Goto(w, "requeue") EXCEPT !.view = Outcomes(S, p, known, stale)])
               \/ Becomes(w, Done(w, "prune")) /\ Fault
        PROVE  /\ Turn(w)
               /\ \E f \in ViewSet :
                    /\ Withdrawn(S, p, known, stale, f)
                    /\ \/ Comes(w, "requeue", S) /\ worker'[w].view = f
                       \/ Turns(w, {"prune"}) /\ worker'[w].again = {} /\ Fault
    <3>1. PICK f \in ViewSet : /\ f = Outcomes(S, p, known, stale)
                               /\ Withdrawn(S, p, known, stale, f)
      <4> HIDE DEF known, p, S
      <4> QED
        BY <1>1, <2>3, WithdrawnForm
    <3>2. CASE Becomes(w, Done(w, "prune")) /\ Fault
      BY <1>1, <3>1, <3>2, DoneStep
    <3>3. CASE Becomes(w, [Goto(w, "requeue") EXCEPT !.view = Outcomes(S, p, known, stale)])
      <4> DEFINE t == [Goto(w, "requeue") EXCEPT !.view = f]
      <4>1. /\ t \in WorkerSet /\ t.pc = "requeue" /\ t.project = worker[w].project
            /\ t.todo = S /\ t.again = worker[w].again /\ t.view = f
        BY <1>1, LooksForm
      <4>2. Becomes(w, t)
        BY <3>1, <3>3
      <4> HIDE DEF t
      <4>3. Turn(w) /\ worker'[w] = t
        BY <4>1, <4>2, OneWorker
      <4>4. Comes(w, "requeue", S) /\ worker'[w].view = f
        BY <4>1, <4>3 DEF Comes
      <4> QED
        BY <3>1, <4>3, <4>4
    <3> QED
      BY <2>3, <3>2, <3>3
  <2> QED
    BY <2>1, <2>2, <2>3
<1> QED
  BY <1>2, <1>3

LEMMA PruneRemoteStep ==
  ASSUME Types, NEW w \in Processes, PruneRemote(w)
  PROVE  /\ Turn(w) /\ RowsKept
         /\ \/ InboxKept /\ Turns(w, {"release"}) /\ worker'[w].again = {}
            \/ /\ \E G \in SUBSET AwaitingPrune :
                    /\ \A e \in G : Prunable(e, worker[w].project, outbox[e].inbox)
                    /\ \/ /\ Emptied(G)
                          /\ worker'[w].pc = "pruned" => worker'[w].todo \subseteq G
                       \/ InboxKept /\ worker'[w].pc = "pruneRead"
               /\ worker'[w].pc \in {"pruned", "pruneRead"}
               /\ worker'[w].project = worker[w].project
               /\ worker'[w].todo = AwaitingPrune /\ worker'[w].again = worker[w].again
<1> USE DEF Types
<1> DEFINE gone == {e \in AwaitingPrune : Prunable(e, worker[w].project, outbox[e].inbox)}
<1>1. RowsKept
  BY DEF PruneRemote, RowsKept
<1>2. PICK keys \in EventSets : keys = AwaitingPrune
  BY DEF AwaitingPrune, EventSets
<1>3. PICK m \in BOOLEAN : m = Moved(w)
  BY MovedForm
<1>4. /\ gone \in SUBSET AwaitingPrune /\ gone \subseteq Events
      /\ \A e \in gone : Prunable(e, worker[w].project, outbox[e].inbox)
  BY DEF AwaitingPrune
<1>5. ASSUME NEW pc \in {"pruned", "pruneRead"},
             Becomes(w, [Goto(w, pc) EXCEPT !.todo = keys, !.moved = m])
      PROVE  /\ Turn(w) /\ worker'[w].pc = pc /\ worker'[w].project = worker[w].project
             /\ worker'[w].todo = AwaitingPrune /\ worker'[w].again = worker[w].again
  <2> DEFINE s == Goto(w, pc)
             t == [s EXCEPT !.todo = keys, !.moved = m]
  <2>1. /\ s \in WorkerSet /\ s.pc = pc /\ s.project = worker[w].project
        /\ s.again = worker[w].again
    BY GotoForm DEF Pcs, Inside
  <2>2. Becomes(w, t)
    BY <1>5
  <2> HIDE DEF s
  <2>3. /\ t \in WorkerSet /\ t.pc = s.pc /\ t.project = s.project /\ t.again = s.again
        /\ t.todo = keys
    BY <1>2, <1>3, <2>1 DEF WorkerSet
  <2> HIDE DEF t
  <2>4. Turn(w) /\ worker'[w] = t
    BY <2>2, <2>3, OneWorker
  <2> QED
    BY <1>2, <2>1, <2>3, <2>4
<1>6. \/ Becomes(w, EndPass(w)) /\ UNCHANGED inboxVars
      \/ /\ inbox' = Deleted(gone) /\ UNCHANGED <<copies, applied>>
         /\ \/ /\ gone = keys
               /\ Becomes(w, [Goto(w, "pruned") EXCEPT !.todo = keys, !.moved = m])
            \/ Becomes(w, [Goto(w, "pruneRead") EXCEPT !.todo = keys, !.moved = m])
      \/ /\ UNCHANGED inboxVars
         /\ Becomes(w, [Goto(w, "pruneRead") EXCEPT !.todo = keys, !.moved = m])
  <2> HIDE DEF Types
  <2>1. gone = keys \/ gone # keys
    OBVIOUS
  <2> QED
    BY <1>2, <1>3, <2>1 DEF PruneRemote
<1> HIDE DEF gone
<1>7. CASE Becomes(w, EndPass(w)) /\ UNCHANGED inboxVars
  BY <1>1, <1>7, EndStep DEF InboxKept, inboxVars
<1>8. CASE /\ inbox' = Deleted(gone) /\ UNCHANGED <<copies, applied>>
           /\ \/ /\ gone = keys
                 /\ Becomes(w, [Goto(w, "pruned") EXCEPT !.todo = keys, !.moved = m])
              \/ Becomes(w, [Goto(w, "pruneRead") EXCEPT !.todo = keys, !.moved = m])
  <2>1. Emptied(gone)
    BY <1>4, <1>8, DeletedForm
  <2>2. CASE /\ gone = keys
             /\ Becomes(w, [Goto(w, "pruned") EXCEPT !.todo = keys, !.moved = m])
    BY <1>1, <1>2, <1>4, <1>5, <2>1, <2>2
  <2>3. CASE Becomes(w, [Goto(w, "pruneRead") EXCEPT !.todo = keys, !.moved = m])
    BY <1>1, <1>2, <1>4, <1>5, <2>1, <2>3
  <2> QED
    BY <1>8, <2>2, <2>3
<1>9. CASE /\ UNCHANGED inboxVars
           /\ Becomes(w, [Goto(w, "pruneRead") EXCEPT !.todo = keys, !.moved = m])
  BY <1>1, <1>4, <1>5, <1>9 DEF InboxKept, inboxVars
<1> QED
  BY <1>6, <1>7, <1>8, <1>9

LEMMA PruneReadStep ==
  ASSUME Types, NEW w \in Processes, PruneRead(w)
  PROVE  /\ Turn(w) /\ RowsKept /\ InboxKept
         /\ \/ Turns(w, {"release"}) /\ worker'[w].again = {}
            \/ /\ worker'[w].pc = "pruned" /\ worker'[w].project = worker[w].project
               /\ worker'[w].again = worker[w].again
               /\ worker'[w].todo \subseteq worker[w].todo
               /\ \A e \in worker'[w].todo : ~In(e, worker[w].project)
<1> USE DEF Types
<1>1. RowsKept /\ InboxKept
  BY DEF PruneRead, RowsKept, InboxKept, inboxVars
<1>2. PICK S \in EventSets : /\ S = {e \in worker[w].todo : ~In(e, worker[w].project)}
                             /\ S \subseteq worker[w].todo
                             /\ \A e \in S : ~In(e, worker[w].project)
  <2>1. worker[w].todo \subseteq Events
    BY WorkerFields
  <2>2. {e \in worker[w].todo : ~In(e, worker[w].project)} \in EventSets
    BY <2>1 DEF EventSets
  <2> QED
    BY <2>2
<1>3. Becomes(w, EndPass(w)) \/ Becomes(w, [Goto(w, "pruned") EXCEPT !.todo = S])
  BY <1>2 DEF PruneRead
<1>4. CASE Becomes(w, EndPass(w))
  BY <1>1, <1>4, EndStep
<1>5. CASE Becomes(w, [Goto(w, "pruned") EXCEPT !.todo = S])
  <2> DEFINE s == Goto(w, "pruned")
             t == [s EXCEPT !.todo = S]
  <2>1. /\ s \in WorkerSet /\ s.pc = "pruned" /\ s.project = worker[w].project
        /\ s.again = worker[w].again
    BY GotoForm DEF Pcs, Inside
  <2>2. Becomes(w, t)
    BY <1>5
  <2> HIDE DEF s
  <2>3. /\ t \in WorkerSet /\ t.pc = s.pc /\ t.project = s.project /\ t.again = s.again
        /\ t.todo = S
    BY <1>2, <2>1 DEF WorkerSet
  <2> HIDE DEF t
  <2>4. Turn(w) /\ worker'[w] = t
    BY <2>2, <2>3, OneWorker
  <2> QED
    BY <1>1, <1>2, <2>1, <2>3, <2>4
<1> QED
  BY <1>3, <1>4, <1>5

LEMMA PrunedForm ==
  ASSUME NEW row \in RowSet, NEW r, r = markRemotePruned(row)
  PROVE  /\ r \in RowSet /\ r.state = row.state /\ r.inbox = row.inbox /\ r.owner = row.owner
         /\ r = row \/ (row.state = "acknowledged" /\ r.pruned = TRUE)
<1> DEFINE q == [row EXCEPT !.pruned = TRUE]
<1>1. r = IF row.state = "acknowledged" /\ row.inbox # 0 THEN q ELSE row
  BY DEF markRemotePruned
<1>2. /\ q \in RowSet /\ q.state = row.state /\ q.inbox = row.inbox /\ q.owner = row.owner
      /\ q.pruned = TRUE
  BY DEF RowSet
<1> HIDE DEF q
<1> QED
  BY <1>1, <1>2

LEMMA PruneLocalStep ==
  ASSUME Types, NEW w \in Processes, PruneLocal(w)
  PROVE  /\ Turn(w) /\ InboxKept
         /\ \E e \in worker[w].todo :
              /\ OneRow(e, markRemotePruned(outbox[e]))
              /\ Leaves(w, e, "pruned", "release")
<1> USE DEF Types
<1>1. PICK e \in worker[w].todo :
        /\ outbox' = [outbox EXCEPT ![e] = markRemotePruned(@)]
        /\ Becomes(w, IF worker[w].todo = {e} THEN EndPass(w)
                      ELSE [worker[w] EXCEPT !.todo = @ \ {e}])
  BY DEF PruneLocal
<1>2. InboxKept /\ worker[w].pc = "pruned" /\ "release" \in Pcs
  BY DEF PruneLocal, InboxKept, inboxVars, At, Pcs
<1>3. e \in Events
  BY WorkerFields
<1>4. OneRow(e, markRemotePruned(outbox[e]))
  <2>1. PICK r \in RowSet : r = markRemotePruned(outbox[e])
    BY <1>3, RowFields, PrunedForm
  <2>2. outbox' = [outbox EXCEPT ![e] = r]
    BY <1>1, <2>1
  <2> QED
    BY <1>3, <2>1, <2>2, RowChanges
<1>5. Turn(w) /\ Leaves(w, e, worker[w].pc, "release")
  BY <1>1, <1>2, LeavesForm
<1> QED
  BY <1>1, <1>2, <1>4, <1>5

LEMMA EndingsStep ==
  ASSUME Types, NEW w \in Processes, Release(w) \/ Abort(w) \/ Crash(w)
  PROVE  /\ Turn(w) /\ RowsKept /\ InboxKept /\ worker'[w].again = {}
         /\ \/ worker'[w].pc = "idle"
            \/ Turns(w, {"release"}) /\ worker[w].pc \in Between
<1> USE DEF Types
<1>1. RowsKept /\ InboxKept
  BY DEF Release, Abort, Crash, RowsKept, InboxKept, inboxVars
<1> HIDE DEF Types
<1>2. Becomes(w, Idle) \/ (Becomes(w, EndPass(w)) /\ worker[w].pc \in Between)
  <2>1. CASE Release(w)
    BY <2>1 DEF Release
  <2>2. CASE Abort(w)
    BY <2>2 DEF Abort
  <2>3. CASE Crash(w)
    BY <2>3 DEF Crash
  <2> QED
    BY <2>1, <2>2, <2>3
<1> USE DEF Types
<1>3. CASE Becomes(w, Idle)
  <2>1. Turn(w) /\ worker'[w] = Idle
    BY <1>3, IdleForm, OneWorker
  <2> QED
    BY <1>1, <2>1, IdleForm
<1>4. CASE Becomes(w, EndPass(w)) /\ worker[w].pc \in Between
  BY <1>1, <1>4, EndStep
<1> QED
  BY <1>2, <1>3, <1>4

-----------------------------------------------------------------------------
(* The world: what each of its steps does to the rows.                     *)

LEMMA NewRowForm ==
  ASSUME NEW st \in OutboxStates
  PROVE  /\ NewRow(st) \in RowSet /\ NewRow(st).state = st /\ NewRow(st).inbox = 0
         /\ NewRow(st).pruned = FALSE
<1>1. 0 \in Nat
  OBVIOUS
<1> QED
  BY <1>1 DEF NewRow, RowSet, Owners

LEMMA AppendStep ==
  ASSUME Types, NEW e \in Events, AppendEvent(e)
  PROVE  /\ OneRow(e, NewRow("pending")) /\ InboxKept /\ UNCHANGED <<worker, replay, trouble>>
         /\ outbox[e].state = "absent"
         /\ \A d \in Events : d < e => outbox[d].state # "absent"
<1>1. outbox' = [outbox EXCEPT ![e] = NewRow("pending")]
  BY DEF AppendEvent, insertEvent
<1>2. OneRow(e, NewRow("pending"))
  BY <1>1, States, NewRowForm, RowChanges DEF Types
<1> QED
  BY <1>2 DEF AppendEvent, insertEvent, InboxKept, inboxVars

LEMMA RetainStep ==
  ASSUME Types, NEW e \in Events, Retain(e)
  PROVE  /\ OneRow(e, NewRow("deleted")) /\ InboxKept /\ UNCHANGED <<worker, replay, trouble>>
         /\ outbox[e].state = "acknowledged" /\ outbox[e].pruned
<1>1. outbox' = [outbox EXCEPT ![e] = NewRow("deleted")]
  BY DEF Retain, pruneProcessed
<1>2. OneRow(e, NewRow("deleted"))
  BY <1>1, States, NewRowForm, RowChanges DEF Types
<1> QED
  BY <1>2 DEF Retain, pruneProcessed, Drained, InboxKept, inboxVars

LEMMA ReplayedForm ==
  ASSUME NEW row \in RowSet, NEW r, r = replayQuarantinedRow(row)
  PROVE  /\ r \in RowSet /\ r.inbox = row.inbox /\ r.pruned = row.pruned
         /\ \/ r = row
            \/ /\ row.state = "quarantined"
               /\ \/ r.state = "pending" /\ r.inbox = 0
                  \/ r.state = "replicated" /\ r.inbox # 0
<1>1. \/ r = row
      \/ /\ row.state = "quarantined"
         /\ \/ row.inbox = 0 /\ r = [row EXCEPT !.state = "pending"]
            \/ row.inbox # 0 /\ r = [row EXCEPT !.state = "replicated"]
  BY DEF replayQuarantinedRow
<1>2. ASSUME NEW st \in OutboxStates
      PROVE  LET q == [row EXCEPT !.state = st]
             IN q \in RowSet /\ q.state = st /\ q.inbox = row.inbox /\ q.pruned = row.pruned
  BY DEF RowSet
<1>3. CASE row.inbox = 0 /\ row.state = "quarantined" /\ r = [row EXCEPT !.state = "pending"]
  BY <1>2, <1>3, States
<1>4. CASE row.inbox # 0 /\ row.state = "quarantined" /\ r = [row EXCEPT !.state = "replicated"]
  BY <1>2, <1>4, States
<1> QED
  BY <1>1, <1>3, <1>4

LEMMA ReplayLocalStep ==
  ASSUME Types, ReplayLocal
  PROVE  /\ InboxKept /\ UNCHANGED <<worker, trouble, binding>> /\ replay' \in ReplaySet
         /\ replay'.steps # {} => replay'.event \in Events
         /\ replay # NoReplay
         /\ \E e \in Events : OneRow(e, replayQuarantinedRow(outbox[e]))
<1>1. replay.steps # {} /\ replay \in ReplaySet /\ replay.event \in Events
  BY DEF ReplayLocal, Types, WorldTypes
<1>2. outbox' = [outbox EXCEPT ![replay.event] = replayQuarantinedRow(outbox[replay.event])]
  BY DEF ReplayLocal
<1>3. PICK r \in RowSet : r = replayQuarantinedRow(outbox[replay.event])
  BY <1>1, RowFields, ReplayedForm DEF Types
<1>4. OneRow(replay.event, r)
  BY <1>1, <1>2, <1>3, RowChanges DEF Types
<1>5. NoReplay \in ReplaySet /\ NoReplay.steps = {}
  BY DEF NoReplay, ReplaySet, Placed
<1>6. replay' = NoReplay \/ replay' = [replay EXCEPT !.steps = {"remote"}]
  BY DEF ReplayLocal
<1>7. LET t == [replay EXCEPT !.steps = {"remote"}]
      IN t \in ReplaySet /\ t.event = replay.event
  BY <1>1 DEF ReplaySet
<1> QED
  BY <1>1, <1>3, <1>4, <1>5, <1>6, <1>7 DEF ReplayLocal, InboxKept, inboxVars

LEMMA ReplayRemoteStep ==
  ASSUME Types, ReplayRemote
  PROVE  /\ RowsKept /\ AppliedKept /\ UNCHANGED <<worker, trouble, binding>>
         /\ replay' = NoReplay /\ replay # NoReplay
         /\ \/ InboxKept
            \/ \E e \in Events : inbox[e].status = "quarantined" /\ RowMoves(e, "pending")
<1>1. replay.event \in Events
  BY DEF ReplayRemote, Types, WorldTypes
<1>2. replay # NoReplay
  BY DEF ReplayRemote, NoReplay
<1>3. \/ UNCHANGED inboxVars
      \/ /\ inbox[replay.event].status = "quarantined"
         /\ inbox' = [inbox EXCEPT ![replay.event] = Unclaimed(@, "pending")]
         /\ copies' = copies /\ applied' = applied
  BY DEF ReplayRemote, replayQuarantined, inboxVars
<1>4. "pending" \in Statuses
  BY DEF Statuses
<1>5. \/ InboxKept
      \/ inbox[replay.event].status = "quarantined" /\ RowMoves(replay.event, "pending")
  BY <1>1, <1>3, <1>4, UnclaimedForm DEF InboxKept, inboxVars, Types
<1>6. applied' = applied
  BY <1>3 DEF inboxVars
<1> QED
  BY <1>1, <1>2, <1>5, <1>6 DEF ReplayRemote, RowsKept, AppliedKept

-----------------------------------------------------------------------------
(* The first invariants: where a worker can be, the lock, and the ids.     *)

(* A peer only claims and applies; a worker that has a claim has the claim *)
(* of an event; rows are left over only while others are looked at; and a  *)
(* worker has looked at all the rows it has in hand, at copies that were   *)
(* there.                                                                  *)
Sound(w) ==
  /\ worker[w].pc # "idle" => worker[w].project \in Projects
  /\ w \notin Daemons => worker[w].pc \in PeerPcs
  /\ w \notin Daemons /\ worker[w].pc # "idle" => worker[w].project = HomeProject
  /\ worker[w].pc \in ClaimPcs => worker[w].claim.event \in Events
  /\ worker[w].pc \notin {"settle", "observe"} => worker[w].again = {}
  /\ worker[w].pc \in ViewPcs =>
       \A e \in worker[w].todo : /\ worker[w].view[e] \in SeenSet
                                 /\ worker[w].view[e].id <= copies[e]

Places == \A w \in Processes : Sound(w)

(* The home has one lock. *)
Exclusive ==
  \A v, w \in Daemons : worker[v].pc \in Inside /\ worker[w].pc \in Inside => v = w

(* Nobody knows a copy that was never made. *)
Ids == \A e \in Events : outbox[e].inbox <= copies[e] /\ inbox[e].id <= copies[e]

Core == LeaseInv /\ Types /\ Places /\ Exclusive /\ Ids

(* A worker goes inside only when the lock is free. *)
Enters(w) == worker'[w].pc \in Inside => worker[w].pc \in Inside \/ Admitted(w)

Grows == \A e \in Events : copies[e] <= copies'[e]

(* What every step of a worker does, besides what it is for. *)
StoreGood == StoreTypes' /\ Ids' /\ Grows
TurnGood(w) == Turn(w) /\ Sound(w)' /\ Enters(w)

LEMMA CoreParts ==
  ASSUME Core, NEW w \in Processes
  PROVE  /\ Types /\ StoreTypes /\ WorkerTypes /\ WorldTypes /\ LeaseInv /\ Ids /\ Sound(w)
         /\ Covered(w)
         /\ worker[w].pc # "idle" => Token(w) \in Nat
                                     /\ DrainLease(w, worker[w].project) \in Resources
<1>1. Sound(w) /\ Types /\ LeaseInv /\ Ids
  BY DEF Core, Places
<1>2. worker[w].pc # "idle" => Token(w) \in Nat
                               /\ DrainLease(w, worker[w].project) \in Resources
  BY <1>1, TokenForm DEF Sound, LeaseInv
<1> QED
  BY <1>1, <1>2 DEF Types, Sound, Covered

LEMMA KeepsStore ==
  ASSUME Core, RowsKept, InboxKept
  PROVE  StoreGood
<1>1. \A e \in Events : copies[e] \in Nat
  BY DEF Core, Types, StoreTypes
<1> QED
  BY <1>1 DEF Core, Types, StoreTypes, RowsKept, InboxKept, Ids, Grows, StoreGood

LEMMA RowStore ==
  ASSUME Core, InboxKept, NEW e \in Events, NEW r \in RowSet, OneRow(e, r),
         r.inbox <= copies[e]
  PROVE  StoreGood
<1>1. \A d \in Events : copies[d] \in Nat
  BY DEF Core, Types, StoreTypes
<1>2. \A d \in Events : outbox'[d].inbox <= copies[d]
  BY DEF OneRow, Core, Ids
<1>3. StoreTypes'
  BY DEF OneRow, InboxKept, Core, Types, StoreTypes
<1> QED
  BY <1>1, <1>2, <1>3 DEF Core, InboxKept, Ids, Grows, StoreGood

LEMMA MovesStore ==
  ASSUME Core, RowsKept, NEW e \in Events, NEW st, RowMoves(e, st),
         AppliedKept \/ applied' = [applied EXCEPT ![e] = applied[e] + 1]
  PROVE  StoreGood
<1>1. \A d \in Events : copies[d] \in Nat
  BY DEF Core, Types, StoreTypes
<1>2. \A d \in Events : inbox'[d].id = inbox[d].id
  BY DEF RowMoves
<1>3. applied' \in [Events -> Nat]
  BY DEF AppliedKept, Core, Types, StoreTypes
<1>4. StoreTypes'
  BY <1>3 DEF RowMoves, RowsKept, Core, Types, StoreTypes
<1> QED
  BY <1>1, <1>2, <1>4 DEF Core, RowsKept, RowMoves, Ids, Grows, StoreGood

LEMMA InsertStore ==
  ASSUME Core, RowsKept, NEW S, NEW p, Inserted(S, p)
  PROVE  StoreGood
<1>1. \A d \in Events : copies[d] \in Nat /\ inbox[d].id \in Nat /\ outbox[d].inbox \in Nat
                        /\ inbox[d].id <= copies[d] /\ outbox[d].inbox <= copies[d]
  BY RowFields DEF Core, Types, Ids
<1>2. ASSUME NEW d \in Events
      PROVE  copies[d] <= copies'[d] /\ inbox'[d].id <= copies'[d] /\ outbox[d].inbox <= copies'[d]
  BY <1>1 DEF Inserted
<1>3. StoreTypes'
  BY DEF Inserted, RowsKept, Core, Types, StoreTypes
<1> QED
  BY <1>2, <1>3 DEF RowsKept, Ids, Grows, StoreGood

LEMMA EmptyStore ==
  ASSUME Core, RowsKept, NEW G, Emptied(G)
  PROVE  StoreGood
<1>1. \A d \in Events : copies[d] \in Nat
  BY DEF Core, Types, StoreTypes
<1>2. ASSUME NEW d \in Events
      PROVE  inbox'[d].id <= copies[d]
  BY <1>1, MissingForm DEF Emptied, Core, Ids
<1>3. StoreTypes'
  BY DEF Emptied, RowsKept, Core, Types, StoreTypes
<1> QED
  BY <1>1, <1>2, <1>3 DEF Core, RowsKept, Emptied, Ids, Grows, StoreGood

(* A worker that goes on with nothing in hand. *)
LEMMA PlainTurn ==
  ASSUME Core, NEW w \in Processes, Turn(w), worker[w].pc # "idle",
         worker'[w].project = worker[w].project,
         worker'[w].pc \notin ViewPcs \cup ClaimPcs \cup {"idle"},
         w \notin Daemons => worker'[w].pc \in PeerPcs,
         worker'[w].again = {}, Enters(w)
  PROVE  TurnGood(w)
<1>1. Sound(w)
  BY CoreParts
<1> QED
  BY <1>1 DEF Sound, TurnGood

(* A worker that goes on with its claim. *)
LEMMA ClaimTurn ==
  ASSUME Core, NEW w \in Processes, Turn(w), worker[w].pc # "idle",
         worker'[w].project = worker[w].project,
         worker'[w].pc \in ClaimPcs, worker'[w].claim.event \in Events,
         worker'[w].again = {}, Enters(w)
  PROVE  TurnGood(w)
<1>1. Sound(w)
  BY CoreParts
<1>2. worker'[w].pc \in PeerPcs /\ worker'[w].pc \notin ViewPcs /\ worker'[w].pc # "idle"
  BY DEF ClaimPcs, PeerPcs, ViewPcs
<1> QED
  BY <1>1, <1>2 DEF Sound, TurnGood

(* A worker that looks at rows. *)
LEMMA ViewTurn ==
  ASSUME Core, NEW w \in Processes, Turn(w), worker[w].pc # "idle",
         worker'[w].project = worker[w].project, w \in Daemons,
         worker'[w].pc \in ViewPcs, worker'[w].pc \in {"settle", "observe"} \/ worker'[w].again = {},
         \A e \in worker'[w].todo : /\ worker'[w].view[e] \in SeenSet
                                    /\ worker'[w].view[e].id <= copies'[e],
         Enters(w)
  PROVE  TurnGood(w)
<1>1. Sound(w)
  BY CoreParts
<1>2. worker'[w].pc \notin ClaimPcs /\ worker'[w].pc # "idle"
  BY DEF ViewPcs, ClaimPcs
<1> QED
  BY <1>1, <1>2 DEF Sound, TurnGood

-----------------------------------------------------------------------------
(* Every step of a worker keeps the first invariants.                      *)

LEMMA StartPassGood ==
  ASSUME Core, NEW w \in Processes, StartPass(w)
  PROVE  TurnGood(w) /\ StoreGood
<1>1. /\ Turn(w) /\ RowsKept /\ InboxKept /\ worker'[w].pc = FirstPhase(w)
      /\ worker'[w].project = BoundTo(w) /\ worker'[w].again = {}
  BY CoreParts, StartPassStep
<1>2. BoundTo(w) \in Projects /\ (w \notin Daemons => BoundTo(w) = HomeProject)
  BY CoreParts, Bound DEF BoundTo
<1>3. /\ worker'[w].pc \in {"upload", "renew"} /\ (w \notin Daemons => worker'[w].pc = "renew")
  BY <1>1 DEF FirstPhase
<1>4. Sound(w)'
  BY <1>1, <1>2, <1>3 DEF Sound, PeerPcs, ClaimPcs, ViewPcs
<1>5. Enters(w)
  BY <1>3 DEF Enters, Inside
<1> QED
  BY <1>1, <1>4, <1>5, KeepsStore DEF TurnGood

LEMMA ClaimLocalGood ==
  ASSUME Core, NEW w \in Processes, ClaimLocal(w)
  PROVE  TurnGood(w) /\ StoreGood
<1>1. PICK S \in EventSets :
        /\ Turn(w) /\ InboxKept /\ outbox' \in [Events -> RowSet]
        /\ \A e \in S : e \in Deliverable /\ outbox'[e].inbox = outbox[e].inbox
        /\ \A e \in Events \ S : outbox'[e] = outbox[e]
        /\ Comes(w, "renew", S) \/ Comes(w, "screen", S)
  BY CoreParts, ClaimLocalStep
<1>2. worker[w].pc = "upload" /\ Admitted(w)
  BY DEF ClaimLocal, At
<1>3. Sound(w)
  BY CoreParts
<1>4. worker[w].again = {} /\ w \in Daemons
  BY <1>2, <1>3 DEF Sound, PeerPcs
<1>5. /\ worker'[w].pc \in {"renew", "screen"} /\ worker'[w].project = worker[w].project
      /\ worker'[w].again = {}
  BY <1>1, <1>4 DEF Comes
<1>6. Enters(w) /\ worker'[w].pc \notin ViewPcs \cup ClaimPcs \cup {"idle"}
  BY <1>2, <1>5 DEF Enters, ViewPcs, ClaimPcs
<1>7. TurnGood(w)
  BY <1>1, <1>2, <1>4, <1>5, <1>6, PlainTurn
<1>8. StoreGood
  <2>1. \A e \in Events : /\ outbox'[e].inbox = outbox[e].inbox /\ copies[e] \in Nat
                          /\ outbox[e].inbox <= copies[e] /\ inbox[e].id <= copies[e]
    BY <1>1, RowFields DEF Core, Types, Ids
  <2>2. StoreTypes'
    BY <1>1 DEF InboxKept, Core, Types, StoreTypes
  <2> QED
    BY <1>1, <2>1, <2>2 DEF StoreGood, Ids, Grows, InboxKept
<1> QED
  BY <1>7, <1>8

LEMMA ScreenOutGood ==
  ASSUME Core, NEW w \in Processes, ScreenOut(w)
  PROVE  TurnGood(w) /\ StoreGood
<1>1. /\ Turn(w) /\ InboxKept
      /\ \/ /\ RowsKept
            /\ \/ Turns(w, {"renew"}) /\ worker'[w].again = {}
               \/ Comes(w, "insert", worker[w].todo)
         \/ \E e \in worker[w].todo :
              /\ OneRow(e, markDeliveryQuarantined(outbox[e], w))
              /\ Comes(w, "screen", worker[w].todo \ {e})
  BY CoreParts, ScreenOutStep
<1>2. worker[w].pc = "screen"
  BY DEF ScreenOut, At
<1>3. Sound(w) /\ Types
  BY CoreParts
<1>4. worker[w].again = {} /\ w \in Daemons
  BY <1>2, <1>3 DEF Sound, PeerPcs
<1>5. /\ worker'[w].pc \in {"renew", "screen", "insert"}
      /\ worker'[w].project = worker[w].project /\ worker'[w].again = {}
  BY <1>1, <1>4 DEF Comes, Turns
<1>6. Enters(w) /\ worker'[w].pc \notin ViewPcs \cup ClaimPcs \cup {"idle"}
  BY <1>2, <1>5 DEF Enters, ViewPcs, ClaimPcs, Inside
<1>7. TurnGood(w)
  BY <1>1, <1>2, <1>4, <1>5, <1>6, PlainTurn
<1>8. StoreGood
  <2>1. CASE RowsKept
    BY <1>1, <2>1, KeepsStore
  <2>2. ASSUME NEW e \in worker[w].todo, OneRow(e, markDeliveryQuarantined(outbox[e], w))
        PROVE  StoreGood
    <3>1. e \in Events
      BY <1>3, WorkerFields DEF Types
    <3>2. outbox[e] \in RowSet /\ outbox[e].inbox <= copies[e]
      BY <1>3, <3>1, RowFields DEF Types, Core, Ids
    <3>3. PICK r \in RowSet : /\ r = markDeliveryQuarantined(outbox[e], w)
                              /\ r.inbox = outbox[e].inbox
      <4>1. /\ Settled(outbox[e], "quarantined", 0) \in RowSet
            /\ Settled(outbox[e], "quarantined", 0).inbox = 0
        BY <3>2, States DEF Settled, RowSet, Owners
      <4> QED
        BY <3>2, <4>1 DEF markDeliveryQuarantined
    <3> QED
      BY <1>1, <2>2, <3>1, <3>2, <3>3, RowStore
  <2> QED
    BY <1>1, <2>1, <2>2
<1> QED
  BY <1>7, <1>8

LEMMA UploadGood ==
  ASSUME Core, NEW w \in Processes, Upload(w)
  PROVE  TurnGood(w) /\ StoreGood
<1>2. worker[w].pc = "insert"
  BY DEF Upload, At
<1>3. Sound(w) /\ Types
  BY CoreParts
<1>4. worker[w].again = {} /\ w \in Daemons /\ worker[w].project \in Projects
  BY <1>2, <1>3 DEF Sound, PeerPcs
<1>1. /\ Turn(w) /\ RowsKept
      /\ \/ /\ Inserted(worker[w].todo, worker[w].project)
            /\ \/ /\ Comes(w, "settle", worker[w].todo)
                  /\ \A e \in worker[w].todo : worker'[w].view[e] = Seen(inbox'[e])
               \/ Comes(w, "readback", worker[w].todo)
         \/ InboxKept /\ Comes(w, "readback", worker[w].todo)
  BY <1>3, <1>4, UploadStep
<1>5. StoreGood
  BY <1>1, KeepsStore, InsertStore
<1>6. Enters(w)
  BY <1>2 DEF Enters, Inside
<1>7. CASE Comes(w, "readback", worker[w].todo)
  <2>1. worker'[w].pc \notin ViewPcs \cup ClaimPcs \cup {"idle"}
    BY <1>7 DEF Comes, ViewPcs, ClaimPcs
  <2> QED
    BY <1>1, <1>2, <1>4, <1>5, <1>6, <1>7, <2>1, PlainTurn DEF Comes
<1>8. CASE /\ Comes(w, "settle", worker[w].todo)
           /\ \A e \in worker[w].todo : worker'[w].view[e] = Seen(inbox'[e])
  <2>1. worker[w].todo \subseteq Events
    BY <1>3, WorkerFields DEF Types
  <2>2. ASSUME NEW e \in worker'[w].todo
        PROVE  worker'[w].view[e] \in SeenSet /\ worker'[w].view[e].id <= copies'[e]
    <3>1. e \in worker[w].todo /\ e \in Events
      BY <1>8, <2>1 DEF Comes
    <3>2. inbox'[e] \in InboxSet /\ inbox'[e].id <= copies'[e]
      BY <1>5, <3>1 DEF StoreGood, StoreTypes, Ids
    <3>3. \A row \in InboxSet : Seen(row) \in SeenSet /\ Seen(row).id = row.id
      BY DEF Seen, SeenSet, Kinds, InboxSet, Statuses
    <3> QED
      BY <1>8, <3>1, <3>2, <3>3
  <2>3. worker'[w].pc \in ViewPcs /\ worker'[w].pc = "settle"
    BY <1>8 DEF Comes, ViewPcs
  <2> QED
    BY <1>1, <1>2, <1>4, <1>5, <1>6, <1>8, <2>2, <2>3, ViewTurn DEF Comes
<1> QED
  BY <1>1, <1>7, <1>8

LEMMA RetriesGood ==
  ASSUME Core, NEW w \in Processes, Turn(w), w \in Daemons, worker[w].pc \in Inside,
         Retries(w), StoreGood
  PROVE  TurnGood(w)
<1>1. worker[w].pc # "idle" /\ Enters(w) /\ worker'[w].pc \in ViewPcs /\ worker'[w].pc = "settle"
      /\ worker'[w].project = worker[w].project
  BY DEF Inside, Enters, Retries, Comes, ViewPcs
<1>2. Types
  BY CoreParts
<1>3. ASSUME NEW e \in worker'[w].todo
      PROVE  worker'[w].view[e] \in SeenSet /\ worker'[w].view[e].id <= copies'[e]
  <2>1. e \in worker[w].todo /\ worker[w].todo \subseteq Events
    BY <1>2, <1>3, WorkerFields DEF Retries, Comes, Types
  <2>2. worker'[w].view[e] = [kind |-> "retry", id |-> 0]
    BY <2>1 DEF Retries
  <2>3. copies'[e] \in Nat
    BY <2>1 DEF StoreGood, StoreTypes
  <2> QED
    BY <2>2, <2>3 DEF SeenSet, Kinds
<1> QED
  BY <1>1, <1>3, ViewTurn

LEMMA ReadBackGood ==
  ASSUME Core, NEW w \in Processes, ReadBack(w)
  PROVE  TurnGood(w) /\ StoreGood
<1>1. /\ Turn(w) /\ RowsKept /\ InboxKept
      /\ \/ /\ Comes(w, "settle", worker[w].todo)
            /\ \A e \in worker[w].todo : worker'[w].view[e] = Seen(inbox[e])
         \/ Retries(w)
         \/ Comes(w, "withdraw", worker[w].todo)
  BY CoreParts, ReadBackStep
<1>2. worker[w].pc = "readback" /\ worker[w].pc \in Inside
  BY DEF ReadBack, At, Inside
<1>3. Sound(w) /\ Types
  BY CoreParts
<1>4. worker[w].again = {} /\ w \in Daemons
  BY <1>2, <1>3 DEF Sound, PeerPcs
<1>5. StoreGood
  BY <1>1, KeepsStore
<1>6. Enters(w)
  BY <1>2 DEF Enters
<1>7. CASE Comes(w, "withdraw", worker[w].todo)
  <2>1. worker'[w].pc \notin ViewPcs \cup ClaimPcs \cup {"idle"}
    BY <1>7 DEF Comes, ViewPcs, ClaimPcs
  <2> QED
    BY <1>1, <1>2, <1>4, <1>5, <1>6, <1>7, <2>1, PlainTurn DEF Comes
<1>8. CASE /\ Comes(w, "settle", worker[w].todo)
           /\ \A e \in worker[w].todo : worker'[w].view[e] = Seen(inbox[e])
  <2>1. worker[w].todo \subseteq Events
    BY <1>3, WorkerFields DEF Types
  <2>2. ASSUME NEW e \in worker'[w].todo
        PROVE  worker'[w].view[e] \in SeenSet /\ worker'[w].view[e].id <= copies'[e]
    <3>1. e \in worker[w].todo /\ e \in Events
      BY <1>8, <2>1 DEF Comes
    <3>2. Seen(inbox[e]) \in SeenSet /\ Seen(inbox[e]).id <= copies'[e]
      BY <1>1, <1>3, <3>1, RowFields DEF Types, Core, Ids, InboxKept
    <3> QED
      BY <1>8, <3>1, <3>2
  <2>3. worker'[w].pc \in ViewPcs /\ worker'[w].pc = "settle"
    BY <1>8 DEF Comes, ViewPcs
  <2> QED
    BY <1>1, <1>2, <1>4, <1>5, <1>6, <1>8, <2>2, <2>3, ViewTurn DEF Comes
<1>9. CASE Retries(w)
  BY <1>1, <1>2, <1>4, <1>5, <1>9, RetriesGood
<1> QED
  BY <1>1, <1>7, <1>8, <1>9

LEMMA WithdrawnGood ==
  ASSUME Core, RowsKept, NEW S \in EventSets, NEW p, NEW ids, NEW stale, NEW f,
         Withdrawn(S, p, ids, stale, f)
  PROVE  StoreGood /\ \A e \in S : f[e] \in SeenSet /\ f[e].id <= copies'[e]
<1>1. StoreGood
  BY EmptyStore DEF Withdrawn
<1>2. ASSUME NEW e \in S
      PROVE  f[e] \in SeenSet /\ f[e].id <= copies'[e]
  <2>1. e \in Events
    BY DEF EventSets
  <2>2. inbox[e].id <= copies[e] /\ copies' = copies
    BY <2>1 DEF Withdrawn, Emptied, Core, Ids
  <2> QED
    BY <2>2 DEF Withdrawn
<1> QED
  BY <1>1, <1>2

LEMMA WithdrawGood ==
  ASSUME Core, NEW w \in Processes, Withdraw(w)
  PROVE  TurnGood(w) /\ StoreGood
<1> DEFINE S == worker[w].todo
           none == [e \in S |-> 0]
<1>1. /\ Turn(w) /\ RowsKept
      /\ \/ \E stale \in {Abandoned, AllClaims}, f \in ViewSet :
              /\ Withdrawn(S, worker[w].project, none, stale, f)
              /\ (Comes(w, "settle", S) /\ worker'[w].view = f) \/ Retries(w)
         \/ InboxKept /\ Retries(w)
  BY CoreParts, WithdrawStep
<1>2. worker[w].pc = "withdraw" /\ worker[w].pc \in Inside
  BY DEF Withdraw, At, Inside
<1>3. Sound(w) /\ Types /\ S \in EventSets
  BY CoreParts, WorkerFields
<1>4. worker[w].again = {} /\ w \in Daemons
  BY <1>2, <1>3 DEF Sound, PeerPcs
<1>5. CASE InboxKept /\ Retries(w)
  BY <1>1, <1>2, <1>4, <1>5, RetriesGood, KeepsStore
<1>6. ASSUME NEW stale, NEW f, Withdrawn(S, worker[w].project, none, stale, f),
             (Comes(w, "settle", S) /\ worker'[w].view = f) \/ Retries(w)
      PROVE  TurnGood(w) /\ StoreGood
  <2>1. StoreGood /\ \A e \in S : f[e] \in SeenSet /\ f[e].id <= copies'[e]
    <3> HIDE DEF none, S
    <3> QED
      BY <1>1, <1>3, <1>6, WithdrawnGood
  <2>2. CASE Retries(w)
    BY <1>1, <1>2, <1>4, <2>1, <2>2, RetriesGood
  <2>3. CASE Comes(w, "settle", S) /\ worker'[w].view = f
    <3>1. worker'[w].pc \in ViewPcs /\ worker'[w].pc = "settle" /\ Enters(w)
      BY <1>2, <2>3 DEF Comes, ViewPcs, Enters
    <3> QED
      BY <1>1, <1>2, <1>4, <2>1, <2>3, <3>1, ViewTurn DEF Comes
  <2> QED
    BY <1>6, <2>2, <2>3
<1> QED
  BY <1>1, <1>5, <1>6

\* A phase that goes through rows one by one; those kept come after.
LEMMA WorksGood ==
  ASSUME Core, NEW w \in Processes, Turn(w), w \in Daemons, StoreGood,
         worker[w].pc \in {"settle", "observe"}, NEW e, NEW keep, NEW done, NEW next,
         Works(w, e, worker[w].pc, keep, done, next),
         {done, next} \subseteq {"renew", "insert", "prune", "unbound"}
  PROVE  TurnGood(w)
<1>1. Sound(w) /\ Types /\ worker[w].pc \in Inside /\ worker[w].pc \in ViewPcs
  BY CoreParts DEF Inside, ViewPcs
<1>2. worker'[w].project = worker[w].project /\ Enters(w)
  BY <1>1 DEF Works, Enters
<1>3. CASE worker'[w].pc \in {done, next} /\ worker'[w].again = {}
  <2>1. worker'[w].pc \notin ViewPcs \cup ClaimPcs \cup {"idle"}
    BY <1>3 DEF ViewPcs, ClaimPcs
  <2> QED
    BY <1>2, <1>3, <2>1, PlainTurn
<1>4. CASE /\ worker'[w].pc = worker[w].pc /\ worker'[w].view = worker[w].view
           /\ worker'[w].todo = worker[w].todo \ {e}
  <2>1. \A d \in worker'[w].todo : /\ worker'[w].view[d] \in SeenSet
                                   /\ worker'[w].view[d].id <= copies'[d]
    <3> TAKE d \in worker'[w].todo
    <3>1. d \in worker[w].todo /\ d \in Events
      BY <1>1, <1>4, WorkerFields DEF Types
    <3>2. worker[w].view[d] \in SeenSet /\ worker[w].view[d].id <= copies[d]
      BY <1>1, <3>1 DEF Sound
    <3>3. copies[d] <= copies'[d] /\ copies[d] \in Nat /\ copies'[d] \in Nat
      BY <1>1, <3>1, RowFields DEF StoreGood, Grows, StoreTypes, Types
    <3>4. worker[w].view[d].id \in Nat
      BY <3>2 DEF SeenSet
    <3> QED
      BY <1>4, <3>2, <3>3, <3>4
  <2> QED
    BY <1>1, <1>2, <1>4, <2>1, ViewTurn
<1> QED
  BY <1>3, <1>4 DEF Works

LEMMA SettleUploadGood ==
  ASSUME Core, NEW w \in Processes, SettleUpload(w)
  PROVE  TurnGood(w) /\ StoreGood
<1>1. worker[w].pc = "settle" /\ Sound(w) /\ Types
  BY CoreParts DEF SettleUpload, At
<1>2. w \in Daemons
  BY <1>1 DEF Sound, PeerPcs
<1>3. PICK e \in worker[w].todo :
        /\ Turn(w) /\ InboxKept
        /\ OneRow(e, AfterUpload(outbox[e], w, worker[w].view[e]))
        /\ Works(w, e, "settle", Kept(e, worker[w].view[e].kind, {"absent", "released", "bound"}),
                 "renew", "insert")
  BY <1>1, CoreParts, SettleUploadStep
<1>4. e \in Events
  BY <1>1, WorkerFields DEF Types
<1>5. /\ worker[w].view[e] \in SeenSet /\ worker[w].view[e].id <= copies[e]
      /\ outbox[e] \in RowSet /\ outbox[e].inbox <= copies[e]
  BY <1>1, <1>4, RowFields DEF Sound, ViewPcs, Types, Core, Ids
<1>6. PICK r \in RowSet : /\ r = AfterUpload(outbox[e], w, worker[w].view[e])
                          /\ r.inbox <= copies[e]
  BY <1>5, AfterUploadForm
<1>7. StoreGood
  BY <1>3, <1>4, <1>6, RowStore
<1> QED
  BY <1>1, <1>2, <1>3, <1>7, WorksGood

LEMMA ObserveGood ==
  ASSUME Core, NEW w \in Processes, Observe(w)
  PROVE  TurnGood(w) /\ StoreGood
<1>1. worker[w].pc = "observe" /\ Sound(w) /\ Types
  BY CoreParts DEF Observe, At
<1>2. w \in Daemons
  BY <1>1 DEF Sound, PeerPcs
<1>3. PICK e \in worker[w].todo :
        /\ Turn(w) /\ InboxKept
        /\ OneRow(e, ObservedRow(outbox[e], worker[w].view[e]))
        /\ Works(w, e, "observe", Kept(e, worker[w].view[e].kind, {"missing"}), "prune", "unbound")
  BY <1>1, CoreParts, ObserveStep
<1>4. e \in Events
  BY <1>1, WorkerFields DEF Types
<1>5. /\ worker[w].view[e] \in SeenSet /\ worker[w].view[e].id <= copies[e]
      /\ outbox[e] \in RowSet /\ outbox[e].inbox <= copies[e]
  BY <1>1, <1>4, RowFields DEF Sound, ViewPcs, Types, Core, Ids
<1>6. PICK r \in RowSet : /\ r = ObservedRow(outbox[e], worker[w].view[e])
                          /\ r.inbox <= copies[e]
  BY <1>5, ObservedForm
<1>7. StoreGood
  BY <1>3, <1>4, <1>6, RowStore
<1> QED
  BY <1>1, <1>2, <1>3, <1>7, WorksGood

LEMMA LeavesGood ==
  ASSUME Core, NEW w \in Processes, Turn(w), w \in Daemons, StoreGood,
         worker[w].pc \in {"requeue", "unbound", "pruned"}, NEW e,
         NEW done \in {"prune", "release"}, Leaves(w, e, worker[w].pc, done)
  PROVE  TurnGood(w)
<1>1. Sound(w) /\ Types /\ worker[w].pc \in Inside /\ worker[w].again = {} /\ worker[w].pc # "idle"
  BY CoreParts DEF Inside, Sound
<1>2. worker'[w].project = worker[w].project /\ worker'[w].again = {} /\ Enters(w)
  BY <1>1 DEF Leaves, Enters, Comes, Turns
<1>3. CASE worker'[w].pc \notin ViewPcs
  <2>1. worker'[w].pc \notin ViewPcs \cup ClaimPcs \cup {"idle"}
    BY <1>3 DEF ClaimPcs, Leaves, Comes, Turns
  <2> QED
    BY <1>1, <1>2, <2>1, PlainTurn
<1>4. CASE worker'[w].pc \in ViewPcs
  <2>1. /\ worker[w].pc = "requeue" /\ worker'[w].view = worker[w].view
        /\ worker'[w].todo = worker[w].todo \ {e}
    BY <1>4 DEF Leaves, Comes, Turns, ViewPcs
  <2>2. \A d \in worker'[w].todo : /\ worker'[w].view[d] \in SeenSet
                                   /\ worker'[w].view[d].id <= copies'[d]
    <3> TAKE d \in worker'[w].todo
    <3>1. d \in worker[w].todo /\ d \in Events
      BY <1>1, <2>1, WorkerFields DEF Types
    <3>2. worker[w].view[d] \in SeenSet /\ worker[w].view[d].id <= copies[d]
      BY <1>1, <2>1, <3>1 DEF Sound, ViewPcs
    <3>3. copies[d] <= copies'[d] /\ copies[d] \in Nat /\ copies'[d] \in Nat
      BY <1>1, <3>1, RowFields DEF StoreGood, Grows, StoreTypes, Types
    <3>4. worker[w].view[d].id \in Nat
      BY <3>2 DEF SeenSet
    <3> QED
      BY <2>1, <3>2, <3>3, <3>4
  <2> QED
    BY <1>1, <1>2, <1>4, <2>2, ViewTurn
<1> QED
  BY <1>3, <1>4

LEMMA RequeueGood ==
  ASSUME Core, NEW w \in Processes, Requeue(w)
  PROVE  TurnGood(w) /\ StoreGood
<1>1. worker[w].pc = "requeue" /\ Sound(w) /\ Types
  BY CoreParts DEF Requeue, At
<1>2. w \in Daemons
  BY <1>1 DEF Sound, PeerPcs
<1>3. PICK e \in worker[w].todo :
        /\ Turn(w) /\ InboxKept
        /\ OneRow(e, AfterWithdraw(outbox[e], worker[w].view[e]))
        /\ Leaves(w, e, "requeue", "prune")
  BY <1>1, CoreParts, RequeueStep
<1>4. e \in Events
  BY <1>1, WorkerFields DEF Types
<1>5. /\ worker[w].view[e] \in SeenSet /\ worker[w].view[e].id <= copies[e]
      /\ outbox[e] \in RowSet /\ outbox[e].inbox <= copies[e] /\ 0 <= copies[e]
  BY <1>1, <1>4, RowFields DEF Sound, ViewPcs, Types, Core, Ids
<1>6. PICK r \in RowSet : /\ r = AfterWithdraw(outbox[e], worker[w].view[e])
                          /\ r.inbox <= copies[e]
  BY <1>5, AfterWithdrawForm
<1>7. StoreGood
  BY <1>3, <1>4, <1>6, RowStore
<1> QED
  BY <1>1, <1>2, <1>3, <1>7, LeavesGood

LEMMA PruneLocalGood ==
  ASSUME Core, NEW w \in Processes, PruneLocal(w)
  PROVE  TurnGood(w) /\ StoreGood
<1>1. worker[w].pc = "pruned" /\ Sound(w) /\ Types
  BY CoreParts DEF PruneLocal, At
<1>2. w \in Daemons
  BY <1>1 DEF Sound, PeerPcs
<1>3. PICK e \in worker[w].todo :
        /\ Turn(w) /\ InboxKept
        /\ OneRow(e, markRemotePruned(outbox[e]))
        /\ Leaves(w, e, "pruned", "release")
  BY <1>1, PruneLocalStep
<1>4. e \in Events
  BY <1>1, WorkerFields DEF Types
<1>5. outbox[e] \in RowSet /\ outbox[e].inbox <= copies[e]
  BY <1>1, <1>4, RowFields DEF Types, Core, Ids
<1>6. PICK r \in RowSet : r = markRemotePruned(outbox[e]) /\ r.inbox <= copies[e]
  BY <1>5, PrunedForm
<1>7. StoreGood
  BY <1>3, <1>4, <1>6, RowStore
<1> QED
  BY <1>1, <1>2, <1>3, <1>7, LeavesGood

LEMMA WithdrawUnboundGood ==
  ASSUME Core, NEW w \in Processes, WithdrawUnbound(w)
  PROVE  TurnGood(w) /\ StoreGood
<1> DEFINE S == worker[w].todo
           known == [e \in S |-> outbox[e].inbox]
<1>1. worker[w].pc = "unbound" /\ worker[w].pc \in Inside /\ Sound(w) /\ Types /\ S \in EventSets
  BY CoreParts, WorkerFields DEF WithdrawUnbound, At, Inside
<1>2. w \in Daemons /\ worker[w].again = {}
  BY <1>1 DEF Sound, PeerPcs
<1>3. /\ Turn(w)
      /\ \/ /\ InboxKept
            /\ \E e \in S : /\ OneRow(e, markQuarantined(outbox[e], outbox[e].inbox))
                            /\ Leaves(w, e, "unbound", "prune")
         \/ RowsKept /\ InboxKept /\ Turns(w, {"prune"}) /\ worker'[w].again = {}
         \/ /\ RowsKept
            /\ \E stale \in {Abandoned, AllClaims}, f \in ViewSet :
                 /\ Withdrawn(S, worker[w].project, known, stale, f)
                 /\ \/ Comes(w, "requeue", S) /\ worker'[w].view = f
                    \/ Turns(w, {"prune"}) /\ worker'[w].again = {}
  BY <1>1, WithdrawUnboundStep
<1>4. ASSUME InboxKept, NEW e \in S, OneRow(e, markQuarantined(outbox[e], outbox[e].inbox)),
             Leaves(w, e, "unbound", "prune")
      PROVE  TurnGood(w) /\ StoreGood
  <2>1. e \in Events
    BY <1>1 DEF EventSets
  <2>2. outbox[e] \in RowSet /\ outbox[e].inbox <= copies[e]
    BY <1>1, <2>1, RowFields DEF Types, Core, Ids
  <2>3. PICK r \in RowSet : /\ r = markQuarantined(outbox[e], outbox[e].inbox)
                            /\ r.inbox <= copies[e]
    BY <2>2, QuarantineForm
  <2>4. StoreGood
    BY <1>4, <2>1, <2>3, RowStore
  <2> QED
    BY <1>1, <1>2, <1>3, <1>4, <2>4, LeavesGood
<1>5. ASSUME Turns(w, {"prune"}), worker'[w].again = {}
      PROVE  TurnGood(w)
  <2>1. Enters(w) /\ worker'[w].pc \notin ViewPcs \cup ClaimPcs \cup {"idle"}
    BY <1>1, <1>5 DEF Enters, Turns, ViewPcs, ClaimPcs
  <2> QED
    BY <1>1, <1>2, <1>3, <1>5, <2>1, PlainTurn DEF Turns
<1>6. ASSUME RowsKept, NEW stale, NEW f, Withdrawn(S, worker[w].project, known, stale, f),
             \/ Comes(w, "requeue", S) /\ worker'[w].view = f
             \/ Turns(w, {"prune"}) /\ worker'[w].again = {}
      PROVE  TurnGood(w) /\ StoreGood
  <2>1. StoreGood /\ \A e \in S : f[e] \in SeenSet /\ f[e].id <= copies'[e]
    <3> HIDE DEF known, S
    <3> QED
      BY <1>1, <1>6, WithdrawnGood
  <2>2. CASE Comes(w, "requeue", S) /\ worker'[w].view = f
    <3>1. worker'[w].pc \in ViewPcs /\ Enters(w) /\ worker'[w].again = {}
      BY <1>1, <1>2, <2>2 DEF Comes, ViewPcs, Enters
    <3> QED
      BY <1>1, <1>2, <1>3, <2>1, <2>2, <3>1, ViewTurn DEF Comes
  <2> QED
    BY <1>5, <1>6, <2>1, <2>2
<1> QED
  BY <1>3, <1>4, <1>5, <1>6, KeepsStore

LEMMA EndingsGood ==
  ASSUME Core, NEW w \in Processes, Release(w) \/ Abort(w) \/ Crash(w)
  PROVE  TurnGood(w) /\ StoreGood
<1>1. Sound(w) /\ Types
  BY CoreParts
<1>2. /\ Turn(w) /\ RowsKept /\ InboxKept /\ worker'[w].again = {}
      /\ \/ worker'[w].pc = "idle"
         \/ Turns(w, {"release"}) /\ worker[w].pc \in Between
  BY <1>1, EndingsStep
<1>3. StoreGood
  BY <1>2, KeepsStore
<1>4. CASE worker'[w].pc = "idle"
  <2>1. Sound(w)' /\ Enters(w)
    BY <1>2, <1>4 DEF Sound, PeerPcs, ClaimPcs, ViewPcs, Enters, Inside
  <2> QED
    BY <1>2, <1>3, <2>1 DEF TurnGood
<1>5. CASE Turns(w, {"release"}) /\ worker[w].pc \in Between
  <2>1. /\ Enters(w) /\ worker'[w].pc \notin ViewPcs \cup ClaimPcs \cup {"idle"}
        /\ worker'[w].pc \in PeerPcs /\ worker[w].pc # "idle"
    BY <1>5 DEF Enters, Turns, ViewPcs, ClaimPcs, PeerPcs, Inside, Between
  <2> QED
    BY <1>2, <1>3, <1>5, <2>1, PlainTurn DEF Turns
<1> QED
  BY <1>2, <1>4, <1>5

\* The places a claiming worker goes on to, or its claim.
LEMMA ClaimsGood ==
  ASSUME Core, NEW w \in Processes, Turn(w),
         worker[w].pc \in {"renew", "renewAgain", "fetch", "apply", "applying", "applyRead", "punish"},
         Enters(w),
         \/ Turns(w, {"fetch", "renewAgain", "release", AfterClaims(w)})
         \/ Turns(w, ClaimPcs) /\ worker'[w].claim.event \in Events
  PROVE  TurnGood(w)
<1>1. Sound(w) /\ worker[w].pc # "idle" /\ worker[w].again = {}
  BY CoreParts DEF Sound
<1>2. worker'[w].again = {} /\ worker'[w].project = worker[w].project
  BY <1>1 DEF Turns
<1>3. CASE Turns(w, ClaimPcs) /\ worker'[w].claim.event \in Events
  BY <1>1, <1>2, <1>3, ClaimTurn DEF Turns
<1>4. CASE Turns(w, {"fetch", "renewAgain", "release", AfterClaims(w)})
  <2>1. /\ worker'[w].pc \notin ViewPcs \cup ClaimPcs \cup {"idle"}
        /\ w \notin Daemons => worker'[w].pc \in PeerPcs
    BY <1>4 DEF Turns, AfterClaims, PeerPcs, ClaimPcs, ViewPcs
  <2> QED
    BY <1>1, <1>2, <2>1, PlainTurn
<1> QED
  BY <1>3, <1>4

LEMMA RenewGood ==
  ASSUME Core, NEW w \in Processes, Renew(w)
  PROVE  TurnGood(w) /\ StoreGood
<1>1. Turn(w) /\ RowsKept /\ InboxKept /\ Turns(w, {"fetch", "release", AfterClaims(w)})
  BY CoreParts, RenewStep
<1>2. worker[w].pc \in {"renew", "renewAgain"} /\ Enters(w)
  BY DEF Renew, At, Enters
<1>3. Turns(w, {"fetch", "renewAgain", "release", AfterClaims(w)})
  BY <1>1 DEF Turns
<1> QED
  BY <1>1, <1>2, <1>3, ClaimsGood, KeepsStore

LEMMA FetchGood ==
  ASSUME Core, NEW w \in Processes, Fetch(w)
  PROVE  TurnGood(w) /\ StoreGood
<1>1. worker[w].pc = "fetch" /\ Enters(w) /\ Token(w) \in Nat
  BY CoreParts DEF Fetch, At, Enters
<1>2. /\ Turn(w) /\ RowsKept
      /\ \/ \E e \in Events : /\ RowMoves(e, "claimed") /\ AppliedKept
                              /\ \/ Turns(w, {"apply"}) /\ worker'[w].claim.event = e
                                 \/ Turns(w, {"release"})
         \/ InboxKept /\ Turns(w, {AfterClaims(w)})
  <2> HIDE DEF Core
  <2> QED
    BY <1>1, CoreParts, FetchStep
<1>3. StoreGood
  BY <1>2, KeepsStore, MovesStore
<1>4. \/ Turns(w, {"fetch", "renewAgain", "release", AfterClaims(w)})
      \/ Turns(w, ClaimPcs) /\ worker'[w].claim.event \in Events
  BY <1>2 DEF Turns, ClaimPcs
<1> QED
  BY <1>1, <1>2, <1>3, <1>4, ClaimsGood

LEMMA RenewForApplyGood ==
  ASSUME Core, NEW w \in Processes, RenewForApply(w)
  PROVE  TurnGood(w) /\ StoreGood
<1>1. /\ Turn(w) /\ RowsKept /\ InboxKept
      /\ \/ Turns(w, {"applying"}) /\ worker'[w].claim = worker[w].claim
         \/ Turns(w, {AfterClaims(w)})
  BY CoreParts, RenewForApplyStep
<1>2. worker[w].pc = "apply" /\ Enters(w) /\ worker[w].claim.event \in Events
  BY CoreParts DEF RenewForApply, At, Enters, Sound, ClaimPcs
<1>3. \/ Turns(w, {"fetch", "renewAgain", "release", AfterClaims(w)})
      \/ Turns(w, ClaimPcs) /\ worker'[w].claim.event \in Events
  BY <1>1, <1>2 DEF Turns, ClaimPcs
<1> QED
  BY <1>1, <1>2, <1>3, ClaimsGood, KeepsStore

LEMMA ApplyGood ==
  ASSUME Core, NEW w \in Processes, Apply(w)
  PROVE  TurnGood(w) /\ StoreGood
<1>1. worker[w].pc = "applying" /\ Enters(w) /\ worker[w].claim.event \in Events
  BY CoreParts DEF Apply, At, Enters, Sound, ClaimPcs, Inside
<1>2. /\ Turn(w) /\ RowsKept
      /\ \/ InboxKept
         \/ \E e \in Events : \E st : RowMoves(e, st) /\ AppliedKept
         \/ \E e \in Events : \E st : /\ RowMoves(e, st)
                                       /\ applied' = [applied EXCEPT ![e] = applied[e] + 1]
      /\ \/ Turns(w, Onwards(w))
         \/ Turns(w, {"applyRead"}) /\ worker'[w].claim = worker[w].claim
  BY <1>1, CoreParts, ApplyStep
<1>3. StoreGood
  BY <1>2, KeepsStore, MovesStore
<1>4. \/ Turns(w, {"fetch", "renewAgain", "release", AfterClaims(w)})
      \/ Turns(w, ClaimPcs) /\ worker'[w].claim.event \in Events
  BY <1>1, <1>2 DEF Turns, ClaimPcs, Onwards
<1> QED
  BY <1>1, <1>2, <1>3, <1>4, ClaimsGood

LEMMA ReadBackClaimGood ==
  ASSUME Core, NEW w \in Processes, ReadBackClaim(w)
  PROVE  TurnGood(w) /\ StoreGood
<1>1. /\ Turn(w) /\ RowsKept /\ InboxKept
      /\ \/ Turns(w, Onwards(w))
         \/ Turns(w, {"punish"}) /\ worker'[w].claim = worker[w].claim
  BY CoreParts, ReadBackClaimStep
<1>2. worker[w].pc = "applyRead" /\ Enters(w) /\ worker[w].claim.event \in Events
  BY CoreParts DEF ReadBackClaim, At, Enters, Sound, ClaimPcs, Inside
<1>3. \/ Turns(w, {"fetch", "renewAgain", "release", AfterClaims(w)})
      \/ Turns(w, ClaimPcs) /\ worker'[w].claim.event \in Events
  BY <1>1, <1>2 DEF Turns, ClaimPcs, Onwards
<1> QED
  BY <1>1, <1>2, <1>3, ClaimsGood, KeepsStore

LEMMA PunishGood ==
  ASSUME Core, NEW w \in Processes, Punish(w)
  PROVE  TurnGood(w) /\ StoreGood
<1>1. worker[w].pc = "punish" /\ Enters(w) /\ worker[w].claim.event \in Events
  BY CoreParts DEF Punish, At, Enters, Sound, ClaimPcs, Inside
<1>2. /\ Turn(w) /\ RowsKept
      /\ \/ InboxKept
         \/ \E e \in Events : \E st : RowMoves(e, st) /\ AppliedKept
      /\ Turns(w, {"release"} \cup Onwards(w))
  <2>1. Turns(w, {"release"}) => Turns(w, {"release"} \cup Onwards(w))
    BY DEF Turns
  <2> QED
    BY <1>1, <2>1, CoreParts, PunishStep
<1>3. StoreGood
  BY <1>2, KeepsStore, MovesStore
<1>4. Turns(w, {"fetch", "renewAgain", "release", AfterClaims(w)})
  BY <1>2 DEF Turns, Onwards
<1> QED
  BY <1>1, <1>2, <1>3, <1>4, ClaimsGood

LEMMA ReconcileGood ==
  ASSUME Core, NEW w \in Processes, Reconcile(w)
  PROVE  TurnGood(w) /\ StoreGood
<1>1. worker[w].pc = "reconcile" /\ Enters(w) /\ Sound(w) /\ Types
  BY CoreParts DEF Reconcile, At, Enters
<1>2. w \in Daemons /\ worker[w].again = {}
  BY <1>1 DEF Sound, PeerPcs
<1>3. /\ Turn(w) /\ RowsKept /\ InboxKept
      /\ worker'[w].pc \in {"prune", "observe"} /\ worker'[w].project = worker[w].project
      /\ worker'[w].todo = AwaitingRemote /\ worker'[w].again = worker[w].again
      /\ \A e \in AwaitingRemote :
           /\ worker'[w].view[e] \in SeenSet
           /\ \/ worker'[w].view[e] = Seen(inbox[e])
              \/ worker'[w].view[e] = [kind |-> "missing", id |-> 0]
  BY <1>1, ReconcileStep
<1>4. StoreGood
  BY <1>3, KeepsStore
<1>5. CASE worker'[w].pc = "prune"
  <2>1. worker'[w].pc \notin ViewPcs \cup ClaimPcs \cup {"idle"}
    BY <1>5 DEF ViewPcs, ClaimPcs
  <2> QED
    BY <1>1, <1>2, <1>3, <1>4, <2>1, PlainTurn
<1>6. CASE worker'[w].pc = "observe"
  <2>1. \A d \in worker'[w].todo : /\ worker'[w].view[d] \in SeenSet
                                   /\ worker'[w].view[d].id <= copies'[d]
    <3> TAKE d \in worker'[w].todo
    <3>1. d \in AwaitingRemote /\ d \in Events
      BY <1>3 DEF AwaitingRemote
    <3>2. /\ Seen(inbox[d]).id <= copies'[d] /\ 0 <= copies'[d]
      BY <1>1, <1>3, <3>1, RowFields DEF Types, Core, Ids, InboxKept
    <3> QED
      BY <1>3, <3>1, <3>2
  <2>2. worker'[w].pc \in ViewPcs
    BY <1>6 DEF ViewPcs
  <2> QED
    BY <1>1, <1>2, <1>3, <1>4, <1>6, <2>1, <2>2, ViewTurn
<1> QED
  BY <1>3, <1>5, <1>6

LEMMA PruneRemoteGood ==
  ASSUME Core, NEW w \in Processes, PruneRemote(w)
  PROVE  TurnGood(w) /\ StoreGood
<1>1. worker[w].pc = "prune" /\ Enters(w) /\ Sound(w) /\ Types
  BY CoreParts DEF PruneRemote, At, Enters
<1>2. w \in Daemons /\ worker[w].again = {}
  BY <1>1 DEF Sound, PeerPcs
<1>3. /\ Turn(w) /\ RowsKept
      /\ InboxKept \/ \E G : Emptied(G)
      /\ worker'[w].pc \in {"release", "pruned", "pruneRead"}
      /\ worker'[w].project = worker[w].project /\ worker'[w].again = {}
  <2>1. \/ InboxKept /\ Turns(w, {"release"}) /\ worker'[w].again = {}
        \/ /\ InboxKept \/ \E G : Emptied(G)
           /\ worker'[w].pc \in {"pruned", "pruneRead"}
           /\ worker'[w].project = worker[w].project /\ worker'[w].again = worker[w].again
    <3>1. (\E G \in SUBSET AwaitingPrune :
             /\ \A e \in G : Prunable(e, worker[w].project, outbox[e].inbox)
             /\ \/ Emptied(G) /\ (worker'[w].pc = "pruned" => worker'[w].todo \subseteq G)
                \/ InboxKept /\ worker'[w].pc = "pruneRead")
          => InboxKept \/ \E G : Emptied(G)
      OBVIOUS
    <3> QED
      BY <1>1, <3>1, PruneRemoteStep
  <2>2. Turn(w) /\ RowsKept
    BY <1>1, PruneRemoteStep
  <2> QED
    BY <1>2, <2>1, <2>2 DEF Turns
<1>4. StoreGood
  BY <1>3, KeepsStore, EmptyStore
<1>5. worker'[w].pc \notin ViewPcs \cup ClaimPcs \cup {"idle"}
  BY <1>3 DEF ViewPcs, ClaimPcs
<1> QED
  BY <1>1, <1>2, <1>3, <1>4, <1>5, PlainTurn

LEMMA PruneReadGood ==
  ASSUME Core, NEW w \in Processes, PruneRead(w)
  PROVE  TurnGood(w) /\ StoreGood
<1>1. worker[w].pc = "pruneRead" /\ Enters(w) /\ Sound(w) /\ Types
  BY CoreParts DEF PruneRead, At, Enters, Inside
<1>2. w \in Daemons /\ worker[w].again = {}
  BY <1>1 DEF Sound, PeerPcs
<1>3. /\ Turn(w) /\ RowsKept /\ InboxKept /\ worker'[w].pc \in {"release", "pruned"}
      /\ worker'[w].project = worker[w].project /\ worker'[w].again = {}
  BY <1>1, <1>2, PruneReadStep DEF Turns
<1>4. StoreGood
  BY <1>3, KeepsStore
<1>5. worker'[w].pc \notin ViewPcs \cup ClaimPcs \cup {"idle"}
  BY <1>3 DEF ViewPcs, ClaimPcs
<1> QED
  BY <1>1, <1>2, <1>3, <1>4, <1>5, PlainTurn

(* All of them. *)
Acts(w) == Step(w) \/ Abort(w) \/ Crash(w)

LEMMA StepGood ==
  ASSUME Core, NEW w \in Processes, Acts(w)
  PROVE  TurnGood(w) /\ StoreGood
  BY StartPassGood, ClaimLocalGood, ScreenOutGood, UploadGood, ReadBackGood, WithdrawGood,
     SettleUploadGood, RenewGood, FetchGood, RenewForApplyGood, ApplyGood, ReadBackClaimGood,
     PunishGood, ReconcileGood, ObserveGood, WithdrawUnboundGood, RequeueGood, PruneRemoteGood,
     PruneReadGood, PruneLocalGood, EndingsGood DEF Acts, Step

-----------------------------------------------------------------------------
(* What the steps leave alone: the binding, the replay and the troubles.   *)

\* Troubles only add up.
Worsens ==
  /\ trouble' \in TroubleSet
  /\ trouble.faults <= trouble'.faults /\ trouble.relinks <= trouble'.relinks
  /\ trouble.replays <= trouble'.replays

Aside == binding' = binding /\ replay' = replay /\ Worsens
         /\ trouble'.relinks = trouble.relinks /\ trouble'.replays = trouble.replays

LEMMA TroubleForm ==
  ASSUME trouble \in TroubleSet
  PROVE  /\ UNCHANGED trouble \/ Fault \/ Slip =>
              /\ Worsens /\ trouble'.relinks = trouble.relinks
              /\ trouble'.replays = trouble.replays
         /\ Fault => trouble'.faults # 0
         /\ Spend("relinks") => /\ Worsens /\ trouble'.relinks # 0
         /\ Spend("replays") => /\ Worsens /\ trouble'.replays # 0
                                /\ trouble'.relinks = trouble.relinks
<1>1. /\ trouble.faults \in Nat /\ trouble.slips \in Nat /\ trouble.relinks \in Nat
      /\ trouble.replays \in Nat
  BY DEF TroubleSet
<1>2. ASSUME UNCHANGED trouble
      PROVE  /\ Worsens /\ trouble'.relinks = trouble.relinks
             /\ trouble'.replays = trouble.replays
  <2>1. trouble' = trouble
    BY <1>2
  <2> QED
    BY <1>1, <2>1 DEF Worsens
<1>3. ASSUME NEW kind \in {"faults", "slips", "relinks", "replays"}, Spend(kind)
      PROVE  /\ Worsens /\ trouble'[kind] # 0
             /\ \A other \in {"faults", "slips", "relinks", "replays"} \ {kind} :
                  trouble'[other] = trouble[other]
  <2>1. trouble' = [trouble EXCEPT ![kind] = @ + 1]
    BY <1>3 DEF Spend
  <2>2. CASE kind = "faults"
    BY <1>1, <2>1, <2>2 DEF Worsens, TroubleSet
  <2>3. CASE kind = "slips"
    BY <1>1, <2>1, <2>3 DEF Worsens, TroubleSet
  <2>4. CASE kind = "relinks"
    BY <1>1, <2>1, <2>4 DEF Worsens, TroubleSet
  <2>5. CASE kind = "replays"
    BY <1>1, <2>1, <2>5 DEF Worsens, TroubleSet
  <2> QED
    BY <1>3, <2>2, <2>3, <2>4, <2>5
<1>4. Fault => /\ Worsens /\ trouble'.faults # 0 /\ trouble'.relinks = trouble.relinks
               /\ trouble'.replays = trouble.replays
  BY <1>3 DEF Fault
<1>5. Slip => /\ Worsens /\ trouble'.relinks = trouble.relinks
              /\ trouble'.replays = trouble.replays
  BY <1>3 DEF Slip
<1>6. Spend("relinks") => Worsens /\ trouble'.relinks # 0
  BY <1>3
<1>7. Spend("replays") => /\ Worsens /\ trouble'.replays # 0 /\ trouble'.relinks = trouble.relinks
  BY <1>3
<1> QED
  BY <1>1, <1>2, <1>4, <1>5, <1>6, <1>7 DEF Worsens

LEMMA StepAside ==
  ASSUME Core, NEW w \in Processes, Acts(w)
  PROVE  Aside
<1>1. trouble \in TroubleSet
  BY DEF Core, Types, WorldTypes
<1>2. binding' = binding /\ replay' = replay
  BY DEF Acts, Step, StartPass, ClaimLocal, ScreenOut, Upload, ReadBack, Withdraw, SettleUpload,
         Renew, Fetch, RenewForApply, Apply, ReadBackClaim, Punish, Reconcile, Observe,
         WithdrawUnbound, Requeue, PruneRemote, PruneRead, PruneLocal, Release, Abort, Crash
<1>3. UNCHANGED trouble \/ Fault \/ Slip
  <2>1. StartPass(w) \/ ScreenOut(w) \/ SettleUpload(w) \/ Renew(w) \/ RenewForApply(w)
          \/ Reconcile(w) \/ Observe(w) \/ Requeue(w) \/ PruneLocal(w) => UNCHANGED trouble
    BY DEF StartPass, ScreenOut, SettleUpload, Renew, RenewForApply, Reconcile, Observe,
           Requeue, PruneLocal
  <2>2. ClaimLocal(w) => UNCHANGED trouble \/ Fault \/ Slip
    BY DEF ClaimLocal
  <2>3. Upload(w) => UNCHANGED trouble \/ Fault \/ Slip
    BY DEF Upload
  <2>4. ReadBack(w) => UNCHANGED trouble \/ Fault \/ Slip
    BY DEF ReadBack
  <2>5. Withdraw(w) => UNCHANGED trouble \/ Fault \/ Slip
    BY DEF Withdraw
  <2>6. Fetch(w) => UNCHANGED trouble \/ Fault \/ Slip
    BY DEF Fetch
  <2>7. Apply(w) => UNCHANGED trouble \/ Fault \/ Slip
    BY DEF Apply
  <2>8. ReadBackClaim(w) => UNCHANGED trouble \/ Fault \/ Slip
    BY DEF ReadBackClaim
  <2>9. Punish(w) => UNCHANGED trouble \/ Fault \/ Slip
    BY DEF Punish
  <2>10. WithdrawUnbound(w) => UNCHANGED trouble \/ Fault \/ Slip
    BY DEF WithdrawUnbound
  <2>11. PruneRemote(w) \/ PruneRead(w) => UNCHANGED trouble \/ Fault \/ Slip
    BY DEF PruneRemote, PruneRead
  <2>12. Release(w) \/ Abort(w) \/ Crash(w) => UNCHANGED trouble \/ Fault \/ Slip
    BY DEF Release, Abort, Crash
  <2> QED
    BY <2>1, <2>2, <2>3, <2>4, <2>5, <2>6, <2>7, <2>8, <2>9, <2>10, <2>11, <2>12
       DEF Acts, Step
<1> QED
  BY <1>1, <1>2, <1>3, TroubleForm DEF Aside

-----------------------------------------------------------------------------
(* The leases: every step of the system is a step of them, or leaves them. *)

LEMMA StepLeases ==
  ASSUME Core, NEW w \in Processes, Acts(w)
  PROVE  LeaseNext \/ UNCHANGED leaseVars
<1>1. ASSUME NEW r \in Resources,
             \/ acquireLease(w, r) \/ releaseLease(w, r)
             \/ forgetLease(w, r) \/ assertLeaseFence(w, r)
      PROVE  LeaseNext
  BY <1>1 DEF LeaseNext
<1>2. worker[w].pc # "idle" => DrainLease(w, worker[w].project) \in Resources
  BY CoreParts
<1>3. CASE StartPass(w)
  <2>1. BoundTo(w) \in Projects /\ (w \notin Daemons => BoundTo(w) = HomeProject)
    BY CoreParts, Bound DEF BoundTo
  <2>2. DrainLease(w, BoundTo(w)) \in Resources
    BY <2>1, ReplicationAssumption DEF DrainLease
  <2> QED
    BY <1>1, <1>3, <2>2 DEF StartPass
<1>4. CASE Apply(w)
  <2>1. UNCHANGED leaseVars \/ Fenced(w)
    BY <1>4 DEF Apply
  <2> QED
    BY <1>1, <1>2, <1>4, <2>1 DEF Fenced, Apply, At
<1>5. CASE Punish(w)
  <2>1. UNCHANGED leaseVars \/ Fenced(w)
    BY <1>5 DEF Punish
  <2> QED
    BY <1>1, <1>2, <1>5, <2>1 DEF Fenced, Punish, At
<1>6. CASE Release(w)
  BY <1>1, <1>2, <1>6 DEF Release, At
<1>7. CASE Crash(w)
  BY <1>1, <1>2, <1>7 DEF Crash
<1>8. CASE \/ ClaimLocal(w) \/ ScreenOut(w) \/ Upload(w) \/ ReadBack(w) \/ Withdraw(w)
           \/ SettleUpload(w) \/ Renew(w) \/ Fetch(w) \/ RenewForApply(w)
           \/ ReadBackClaim(w) \/ Reconcile(w) \/ Observe(w) \/ WithdrawUnbound(w)
           \/ Requeue(w) \/ PruneRemote(w) \/ PruneRead(w) \/ PruneLocal(w) \/ Abort(w)
  BY <1>8 DEF ClaimLocal, ScreenOut, Upload, ReadBack, Withdraw, SettleUpload,
         Renew, Fetch, RenewForApply, ReadBackClaim, Reconcile, Observe,
         WithdrawUnbound, Requeue, PruneRemote, PruneRead, PruneLocal, Abort
<1> QED
  BY <1>3, <1>4, <1>5, <1>6, <1>7, <1>8 DEF Acts, Step

LEMMA NextLeases ==
  ASSUME Core, [Next]_vars
  PROVE  [LeaseNext]_leaseVars
<1>1. CASE World
  <2>1. \/ UNCHANGED leaseVars
        \/ \E r \in Resources : expireLease(r)
    BY <1>1 DEF World, AppendEvent, Retain, Relink, ReplayRead, ReplayLocal, ReplayRemote,
                LeaseRunsOut
  <2> QED
    BY <2>1 DEF LeaseNext
<1>2. ASSUME NEW w \in Processes, Step(w) \/ Abort(w) \/ Crash(w)
      PROVE  LeaseNext \/ UNCHANGED leaseVars
  BY <1>2, StepLeases DEF Acts
<1>3. CASE UNCHANGED vars
  BY <1>3 DEF vars, leaseVars
<1> QED
  BY <1>1, <1>2, <1>3 DEF Next

-----------------------------------------------------------------------------
(* The first invariants are kept.                                          *)

LEMMA StepCore ==
  ASSUME Core, NEW w \in Processes, Acts(w)
  PROVE  Core'
<1>1. TurnGood(w) /\ StoreGood /\ Aside
  BY StepGood, StepAside
<1>2. LeaseInv'
  BY StepLeases, LeaseStep DEF Core
<1>3. Types'
  <2>1. WorkerTypes' /\ StoreTypes'
    BY <1>1 DEF TurnGood, Turn, StoreGood, WorkerTypes
  <2>2. WorldTypes'
    BY <1>1 DEF Aside, Worsens, WorldTypes, Core, Types
  <2> QED
    BY <2>1, <2>2 DEF Types
<1>4. ASSUME NEW v \in Processes \ {w}
      PROVE  Sound(v)'
  <2>1. Sound(v) /\ Types
    BY CoreParts
  <2>2. worker'[v] = worker[v]
    BY <1>1 DEF TurnGood, Turn
  <2>3. ASSUME NEW e \in worker[v].todo, worker[v].pc \in ViewPcs
        PROVE  worker[v].view[e] \in SeenSet /\ worker[v].view[e].id <= copies'[e]
    <3>1. e \in Events
      BY <2>1, WorkerFields DEF Types
    <3>2. worker[v].view[e] \in SeenSet /\ worker[v].view[e].id <= copies[e]
      BY <2>1, <2>3 DEF Sound
    <3>3. copies[e] <= copies'[e] /\ copies[e] \in Nat /\ copies'[e] \in Nat
      BY <1>1, <2>1, <3>1, RowFields DEF StoreGood, Grows, StoreTypes, Types
    <3>4. worker[v].view[e].id \in Nat
      BY <3>2 DEF SeenSet
    <3> QED
      BY <3>2, <3>3, <3>4
  <2> QED
    BY <2>1, <2>2, <2>3 DEF Sound
<1>5. Places'
  BY <1>1, <1>4 DEF TurnGood, Places
<1>6. Exclusive'
  <2>1. ASSUME NEW v \in Daemons, v # w, worker[v].pc \in Inside, w \in Daemons
        PROVE  worker'[w].pc \notin Inside
    <3>1. ~Free
      BY <2>1 DEF Free
    <3>2. worker[w].pc \notin Inside
      BY <2>1 DEF Core, Exclusive
    <3> QED
      BY <1>1, <2>1, <3>1, <3>2 DEF TurnGood, Enters, Admitted
  <2>2. \A v \in Daemons : v # w => worker'[v] = worker[v]
    BY <1>1, ReplicationAssumption DEF TurnGood, Turn
  <2> QED
    BY <2>1, <2>2 DEF Core, Exclusive
<1> QED
  BY <1>1, <1>2, <1>3, <1>5, <1>6 DEF StoreGood, Core

LEMMA WorldGood ==
  ASSUME Core, World
  PROVE  StoreGood /\ WorldTypes' /\ worker' = worker
<1>1. Types /\ trouble \in TroubleSet
  BY DEF Core, Types, WorldTypes
<1>2. ASSUME NEW e \in Events, NEW st \in {"pending", "deleted"}, OneRow(e, NewRow(st)),
             InboxKept, UNCHANGED <<worker, replay, trouble, binding>>
      PROVE  StoreGood /\ WorldTypes' /\ worker' = worker
  <2>1. PICK r \in RowSet : r = NewRow(st) /\ r.inbox <= copies[e]
    <3>1. NewRow(st) \in RowSet /\ NewRow(st).inbox = 0
      BY NewRowForm, States
    <3>2. copies[e] \in Nat
      BY <1>1, RowFields DEF Types
    <3> QED
      BY <3>1, <3>2
  <2>2. StoreGood
    BY <1>2, <2>1, RowStore
  <2>3. WorldTypes'
    BY <1>1, <1>2 DEF Types, WorldTypes
  <2> QED
    BY <1>2, <2>2, <2>3
<1>3. ASSUME NEW e \in Events, AppendEvent(e)
      PROVE  StoreGood /\ WorldTypes' /\ worker' = worker
  <2>1. OneRow(e, NewRow("pending")) /\ InboxKept /\ UNCHANGED <<worker, replay, trouble>>
    BY <1>1, <1>3, AppendStep
  <2>2. UNCHANGED binding
    BY <1>3 DEF AppendEvent
  <2> QED
    BY <1>2, <2>1, <2>2
<1>4. ASSUME NEW e \in Events, Retain(e)
      PROVE  StoreGood /\ WorldTypes' /\ worker' = worker
  <2>1. OneRow(e, NewRow("deleted")) /\ InboxKept /\ UNCHANGED <<worker, replay, trouble>>
    BY <1>1, <1>4, RetainStep
  <2>2. UNCHANGED binding
    BY <1>4 DEF Retain
  <2> QED
    BY <1>2, <2>1, <2>2
<1>5. ASSUME NEW e \in Events, ReplayRead(e)
      PROVE  StoreGood /\ WorldTypes' /\ worker' = worker
  <2>1. RowsKept /\ InboxKept /\ binding' = binding /\ worker' = worker
    BY <1>5 DEF ReplayRead, RowsKept, InboxKept, inboxVars
  <2>2. trouble' \in TroubleSet
    BY <1>1, <1>5, TroubleForm DEF ReplayRead, Worsens
  <2>3. replay' \in ReplaySet /\ replay'.event \in Events
    <3>1. PICK S \in SUBSET {"local", "remote"} :
            S = {"local"} \cup IF In(e, binding) /\ inbox[e].status = "quarantined"
                               THEN {"remote"} ELSE {}
      OBVIOUS
    <3>2. replay' = [event |-> e, project |-> binding, steps |-> S]
      BY <1>5, <3>1 DEF ReplayRead
    <3>3. binding \in Placed
      BY <1>1 DEF Types, WorldTypes, Placed
    <3> QED
      BY <3>2, <3>3 DEF ReplaySet
  <2> QED
    BY <1>1, <2>1, <2>2, <2>3, KeepsStore DEF Types, WorldTypes
<1>6. ASSUME NEW p \in Projects, Relink(p)
      PROVE  StoreGood /\ WorldTypes' /\ worker' = worker
  <2>1. RowsKept /\ InboxKept /\ binding' = p /\ worker' = worker /\ replay' = replay
    BY <1>6 DEF Relink, RowsKept, InboxKept, inboxVars
  <2>2. trouble' \in TroubleSet
    BY <1>1, <1>6, TroubleForm DEF Relink, Worsens
  <2> QED
    BY <1>1, <2>1, <2>2, KeepsStore DEF Types, WorldTypes
<1>7. CASE ReplayLocal
  <2>1. PICK e \in Events : OneRow(e, replayQuarantinedRow(outbox[e]))
    BY <1>1, <1>7, ReplayLocalStep
  <2>2. outbox[e] \in RowSet /\ outbox[e].inbox <= copies[e]
    BY <1>1, RowFields DEF Types, Core, Ids
  <2>3. PICK r \in RowSet : r = replayQuarantinedRow(outbox[e]) /\ r.inbox <= copies[e]
    BY <2>2, ReplayedForm
  <2>4. InboxKept
    BY <1>1, <1>7, ReplayLocalStep
  <2>5. StoreGood
    BY <2>1, <2>3, <2>4, RowStore
  <2>6. /\ UNCHANGED <<worker, trouble, binding>> /\ replay' \in ReplaySet
        /\ replay'.steps # {} => replay'.event \in Events
    BY <1>1, <1>7, ReplayLocalStep
  <2> QED
    BY <1>1, <2>5, <2>6 DEF Types, WorldTypes
<1>8. CASE ReplayRemote
  <2>1. /\ RowsKept /\ AppliedKept /\ UNCHANGED <<worker, trouble, binding>>
        /\ replay' = NoReplay
        /\ InboxKept \/ \E e \in Events : RowMoves(e, "pending")
    BY <1>1, <1>8, ReplayRemoteStep
  <2>2. StoreGood
    BY <2>1, KeepsStore, MovesStore
  <2>3. NoReplay \in ReplaySet /\ NoReplay.steps = {}
    BY DEF NoReplay, ReplaySet, Placed
  <2> QED
    BY <1>1, <2>1, <2>2, <2>3 DEF Types, WorldTypes
<1>9. ASSUME NEW r \in Resources, LeaseRunsOut(r)
      PROVE  StoreGood /\ WorldTypes' /\ worker' = worker
  <2>1. RowsKept /\ InboxKept /\ UNCHANGED <<worker, binding, replay>>
    BY <1>9 DEF LeaseRunsOut, RowsKept, InboxKept, inboxVars
  <2>2. trouble' \in TroubleSet
    BY <1>1, <1>9, TroubleForm DEF LeaseRunsOut, Worsens
  <2> QED
    BY <1>1, <2>1, <2>2, KeepsStore DEF Types, WorldTypes
<1> QED
  BY <1>3, <1>4, <1>5, <1>6, <1>7, <1>8, <1>9 DEF World

LEMMA InitCore == Init => Core
<1> SUFFICES ASSUME Init PROVE Core
  OBVIOUS
<1>1. LeaseInv
  BY LeaseInitInv DEF Init
<1>2. worker = [w \in Processes |-> Idle]
  BY DEF Init
<1>3. WorkerTypes
  BY <1>2, IdleForm DEF WorkerTypes
<1>4. StoreTypes /\ Ids
  <2>1. "absent" \in OutboxStates
    BY States
  <2>2. \A e \in Events : outbox[e] = NewRow("absent") /\ inbox[e] = Missing /\ copies[e] = 0
                          /\ applied[e] = 0
    BY DEF Init, OutboxInit, InboxInit
  <2>3. StoreTypes
    BY <2>1, NewRowForm, MissingForm DEF Init, OutboxInit, InboxInit, StoreTypes
  <2>4. Ids
    <3>1. NewRow("absent").inbox = 0 /\ Missing.id = 0
      BY <2>1, NewRowForm, MissingForm
    <3> QED
      BY <2>2, <3>1 DEF Ids
  <2> QED
    BY <2>3, <2>4
<1>5. WorldTypes
  <2>1. binding \in Projects
    BY ReplicationAssumption DEF Init
  <2>2. replay \in ReplaySet /\ replay.steps = {}
    BY DEF Init, NoReplay, ReplaySet, Placed
  <2>3. trouble \in TroubleSet
    BY DEF Init, TroubleSet
  <2> QED
    BY <2>1, <2>2, <2>3 DEF WorldTypes
<1>6. \A w \in Processes : worker[w].pc = "idle" /\ worker[w].again = {}
  BY <1>2, IdleForm
<1>7. Places
  BY <1>6 DEF Places, Sound, PeerPcs, ClaimPcs, ViewPcs
<1>8. Exclusive
  BY <1>6, ReplicationAssumption DEF Exclusive, Inside
<1> QED
  BY <1>1, <1>3, <1>4, <1>5, <1>7, <1>8 DEF Core, Types

(* Every step keeps them. *)
LEMMA NextCore ==
  ASSUME Core, [Next]_vars
  PROVE  Core'
<1>1. CASE World
  <2>1. StoreGood /\ WorldTypes' /\ worker' = worker
    BY <1>1, WorldGood
  <2>2. LeaseInv'
    BY NextLeases, LeaseStep DEF Core
  <2>3. Types' /\ Exclusive'
    BY <2>1 DEF StoreGood, Types, Core, WorkerTypes, Exclusive
  <2>4. ASSUME NEW v \in Processes
        PROVE  Sound(v)'
    <3>1. Sound(v) /\ Types
      BY CoreParts
    <3>2. ASSUME NEW e \in worker[v].todo, worker[v].pc \in ViewPcs
          PROVE  worker[v].view[e] \in SeenSet /\ worker[v].view[e].id <= copies'[e]
      <4>1. e \in Events
        BY <3>1, WorkerFields DEF Types
      <4>2. worker[v].view[e] \in SeenSet /\ worker[v].view[e].id <= copies[e]
        BY <3>1, <3>2 DEF Sound
      <4>3. copies[e] <= copies'[e] /\ copies[e] \in Nat /\ copies'[e] \in Nat
        BY <2>1, <3>1, <4>1, RowFields DEF StoreGood, Grows, StoreTypes, Types
      <4>4. worker[v].view[e].id \in Nat
        BY <4>2 DEF SeenSet
      <4> QED
        BY <4>2, <4>3, <4>4
    <3> QED
      BY <2>1, <3>1, <3>2 DEF Sound
  <2> QED
    BY <2>1, <2>2, <2>3, <2>4 DEF StoreGood, Places, Core
<1>2. ASSUME NEW w \in Processes, Step(w) \/ Abort(w) \/ Crash(w)
      PROVE  Core'
  BY <1>2, StepCore DEF Acts
<1>3. CASE UNCHANGED vars
  BY <1>3 DEF vars, leaseVars, inboxVars, Core, LeaseInv, LeaseTypeOK, TokensFromSequence,
              Types, WorkerTypes, StoreTypes, WorldTypes, Places, Sound, Exclusive, Ids
<1> QED
  BY <1>1, <1>2, <1>3 DEF Next

LEMMA CoreAlways == Spec => []Core
<1>1. Core /\ [Next]_vars => Core'
  BY NextCore
<1> QED
  BY InitCore, <1>1, PTL DEF Spec

(* The passes, their deaths and the clock drive the leases only as the     *)
(* coordinator lets them: every behaviour of the system is one of          *)
(* FencedLease.                                                            *)
THEOREM LeasesImplemented == Spec => LeaseSpec
<1>1. Init => LeaseInit
  BY DEF Init
<1>2. Core /\ [Next]_vars => [LeaseNext]_leaseVars
  BY NextLeases
<1> QED
  BY CoreAlways, <1>1, <1>2, PTL DEF Spec, LeaseSpec

(* A daemon that was paused past the end of its lease, or whose place      *)
(* another has taken, settles no claim any more (assertLeaseFence in the   *)
(* transactions of completeApplied, scheduleRetry and quarantine).         *)
THEOREM DrainsAreFenced == Spec => FenceMonotone
  BY LeasesImplemented, FencesGrow, PTL

(* The rows, the records of the workers and the leases keep their types,   *)
(* no row refers to a copy that was never made, and of the daemons that    *)
(* share a home at most one is inside a phase (the publication admission). *)
THEOREM ReplicationWellFormed == Spec => []TypeOK
<1>1. Core => TypeOK
  <2> SUFFICES ASSUME Core PROVE TypeOK
    OBVIOUS
  <2>1. Types /\ LeaseTypeOK
    BY DEF Core, LeaseInv
  <2>2. ASSUME NEW e \in Events
        PROVE  /\ outbox[e].state \in OutboxStates
               /\ outbox[e].owner \in Processes \cup {NoWorker}
               /\ outbox[e].inbox <= copies[e]
               /\ inbox[e].id <= copies[e]
               /\ inbox[e].status \in {"none", "pending", "claimed", "retry", "applied",
                                       "quarantined"}
               /\ inbox[e].project \in Projects \cup {NoProject}
    <3>1. outbox[e] \in RowSet /\ inbox[e] \in InboxSet
      BY <2>1, RowFields DEF Types
    <3> QED
      BY <3>1 DEF Core, Ids, RowSet, InboxSet, Owners, Placed, Statuses
  <2>3. ASSUME NEW w \in Processes
        PROVE  /\ worker[w].pc \in {"idle", "release"} \cup Between \cup Inside
               /\ worker[w].todo \subseteq Events
    BY <2>1, WorkerFields DEF Types, Pcs
  <2>4. Cardinality({d \in Daemons : worker[d].pc \in Inside}) <= 1
    <3> DEFINE D == {d \in Daemons : worker[d].pc \in Inside}
    <3>1. CASE D = {}
      BY <3>1, FS_EmptySet
    <3>2. CASE D # {}
      <4>1. PICK d \in D : D = {d}
        BY <3>2 DEF Core, Exclusive
      <4> QED
        BY <4>1, FS_Singleton
    <3> QED
      BY <3>1, <3>2
  <2> QED
    BY <2>1, <2>2, <2>3, <2>4 DEF TypeOK
<1> QED
  BY CoreAlways, <1>1, PTL
=============================================================================
