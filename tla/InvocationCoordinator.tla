------------------------ MODULE InvocationCoordinator ------------------------
(***************************************************************************)
(* The daemon's control of `lcm compact` invocations.  A client starts an  *)
(* invocation and keeps its lease; /compact requests made for it hold a    *)
(* work permit while they run and a commit permit around each durable      *)
(* write.  Cancel, finish, an expired lease, a closed connection and       *)
(* shutdown close admission; the invocation becomes terminal when its last *)
(* permit is released, and the terminal reply is the client's proof that   *)
(* none of its work is left in the daemon.                                 *)
(*                                                                         *)
(* Every function of the coordinator is synchronous up to its last await,  *)
(* so each is one action.  An invocation id can be used again once it is   *)
(* forgotten; `born` tells the records of one id apart (the code has       *)
(* object identity).  Tombstones do not expire: production sets no TTL.    *)
(***************************************************************************)
EXTENDS Integers, Sequences, FiniteSets

CONSTANTS
    Ids,             \* invocation ids that clients use
    Requests,        \* /compact requests the server can have in flight
    LeaseTicks,      \* leaseMs, in ticks of the clock
    MaxTombstones,   \* maxTombstones
    MaxStarts        \* bound: invocations started

ASSUME CoordinatorAssumption ==
    /\ IsFiniteSet(Ids) /\ IsFiniteSet(Requests)
    /\ LeaseTicks \in Nat /\ MaxTombstones \in Nat

VARIABLES
    records,      \* live invocations; NoRecord where there is none
    tombstones,   \* terminal invocations, the least recently used first
    requests,     \* the /compact requests and the permits they hold
    calls,        \* cancel and finish calls that wait for the last permit
    proofs,       \* history: the terminal replies given to clients
    dead,         \* ids whose client is gone and sends nothing more
    closing,      \* shuttingDown
    closed,       \* shutdownPromise is resolved
    started       \* invocations started so far

vars == <<records, tombstones, requests, calls, proofs, dead, closing, closed,
          started>>

NoRecord == [state |-> "none", drain |-> "none", work |-> 0, commit |-> 0,
             lease |-> 0, born |-> 0]
NoRequest == [phase |-> "none", id |-> "none", work |-> 0, commit |-> 0,
              gone |-> FALSE]

Live(id) == records[id].state # "none"
Active(id) == records[id].state = "active"
Remembered(id) == \E n \in DOMAIN tombstones : tombstones[n].id = id

Init ==
    /\ records = [id \in Ids |-> NoRecord]
    /\ tombstones = <<>>
    /\ requests = [r \in Requests |-> NoRequest]
    /\ calls = {} /\ proofs = {} /\ dead = {}
    /\ closing = FALSE /\ closed = FALSE
    /\ started = 0

-----------------------------------------------------------------------------
(* Records and tombstones.                                                 *)

activeCount(rec) == rec.work + rec.commit

Cancelling(rec) == [rec EXCEPT !.state = "cancelling", !.drain = "cancelled"]

\* Fault: the last commit permit drains the record, work still running.
DrainsAtLastCommit(rec) == rec.commit = 0 /\ rec.drain # "none"

\* maybeDrainRecord: the last permit of a closed invocation is back.
Drains(rec) == activeCount(rec) = 0 /\ rec.drain # "none"

Tombstone(id, rec) == [id |-> id, born |-> rec.born, state |-> rec.drain]

\* The newest MaxTombstones of a sequence, the rest is evicted.
Newest(s) ==
    IF Len(s) <= MaxTombstones THEN s
    ELSE SubSeq(s, Len(s) - MaxTombstones + 1, Len(s))

\* terminalize: the tombstone replaces the record.
terminalize(id, rec) ==
    /\ records' = [records EXCEPT ![id] = NoRecord]
    /\ tombstones' = Newest(Append(tombstones, Tombstone(id, rec)))

\* Fault: shutdown waits for commits only.
globalZeroCommits == \A id \in Ids : records[id].commit = 0

globalZero == \A id \in Ids : activeCount(records[id]) = 0

\* Give record `id` its new value and drain it if that is due.  The waiting
\* cancel and finish calls of a drained record, and the one that is made now
\* if `asking`, get the terminal reply.
Settle(id, rec, asking) ==
    LET waiting == {c \in calls : c.id = id /\ c.born = rec.born}
        asked == IF asking THEN {[id |-> id, born |-> rec.born]} ELSE {}
    IN  /\ IF Drains(rec)
             THEN /\ terminalize(id, rec)
                  /\ calls' = calls \ waiting
                  /\ proofs' = proofs \cup
                        {[id |-> c.id, born |-> c.born, state |-> rec.drain] :
                            c \in waiting \cup asked}
             ELSE /\ records' = [records EXCEPT ![id] = rec]
                  /\ calls' = calls \cup asked
                  /\ UNCHANGED <<tombstones, proofs>>
        /\ closed' = (closed \/ (closing /\ globalZero'))

-----------------------------------------------------------------------------
(* The control protocol.                                                   *)

start(id) ==
    /\ ~closing
    /\ id \notin dead
    /\ ~Live(id) /\ ~Remembered(id)
    /\ started < MaxStarts
    /\ started' = started + 1
    /\ records' = [records EXCEPT ![id] =
          [NoRecord EXCEPT !.state = "active", !.lease = LeaseTicks,
                           !.born = started + 1]]
    /\ UNCHANGED <<tombstones, requests, calls, proofs, dead, closing, closed>>

\* A heartbeat renews the lease; one that comes after its end cancels.
heartbeat(id) ==
    /\ Active(id)
    /\ id \notin dead
    /\ IF records[id].lease > 0
         THEN /\ records' = [records EXCEPT ![id].lease = LeaseTicks]
              /\ UNCHANGED <<tombstones, calls, proofs, closed>>
         ELSE Settle(id, Cancelling(records[id]), FALSE)
    /\ UNCHANGED <<requests, dead, closing, started>>

cancel(id) ==
    /\ Live(id)
    /\ id \notin dead
    /\ Settle(id, Cancelling(records[id]), TRUE)
    /\ UNCHANGED <<requests, dead, closing, started>>

\* Fault: finish overwrites the drain state of a cancelled invocation.
finishOverCancel(id) ==
    /\ Live(id)
    /\ id \notin dead
    /\ Settle(id, [records[id] EXCEPT !.state = "cancelling", !.drain = "finished"],
              TRUE)
    /\ UNCHANGED <<requests, dead, closing, started>>

\* finish closes admission, aborts nothing, and does not undo a cancellation.
finish(id) ==
    /\ Live(id)
    /\ id \notin dead
    /\ Settle(id, IF records[id].drain = "cancelled" THEN records[id]
                  ELSE [records[id] EXCEPT !.state = "cancelling",
                                           !.drain = "finished"], TRUE)
    /\ UNCHANGED <<requests, dead, closing, started>>

\* Any call but start about a terminal invocation makes its tombstone the
\* newest; a cancel, finish or snapshot gets its contents as reply.
lookupTombstone(id) ==
    /\ id \notin dead
    /\ \E n \in DOMAIN tombstones :
          /\ tombstones[n].id = id
          /\ tombstones' = Append(SubSeq(tombstones, 1, n - 1)
                                    \o SubSeq(tombstones, n + 1, Len(tombstones)),
                                  tombstones[n])
          /\ \/ proofs' = proofs \cup {tombstones[n]}
             \/ UNCHANGED proofs
    /\ UNCHANGED <<records, requests, calls, dead, closing, closed, started>>

\* A waiting call whose connection is closed is forgotten; what it asked for
\* is not undone.
detachWaiter(c) ==
    /\ c \in calls
    /\ calls' = calls \ {c}
    /\ UNCHANGED <<records, tombstones, requests, proofs, dead, closing, closed,
                   started>>

-----------------------------------------------------------------------------
(* A /compact request.                                                     *)

\* heartbeat and admitWork, in one synchronous step.
admitWork(r, id) ==
    /\ requests[r].phase = "none"
    /\ ~closing
    /\ Active(id) /\ records[id].lease > 0
    /\ id \notin dead
    /\ records' = [records EXCEPT ![id].work = @ + 1, ![id].lease = LeaseTicks]
    /\ requests' = [requests EXCEPT ![r] =
          [NoRequest EXCEPT !.phase = "work", !.id = id, !.work = records[id].born]]
    /\ UNCHANGED <<tombstones, calls, proofs, dead, closing, closed, started>>

\* The permit of a durable write, granted by the record found under the id.
acquireCommit(r) ==
    LET id == requests[r].id
    IN  /\ requests[r].phase = "work"
        /\ ~requests[r].gone
        /\ ~closing
        /\ Active(id)
        /\ records' = [records EXCEPT ![id].commit = @ + 1]
        /\ requests' = [requests EXCEPT ![r].phase = "commit",
                                        ![r].commit = records[id].born]
        /\ UNCHANGED <<tombstones, calls, proofs, dead, closing, closed, started>>

\* Fault: the released record is not looked at for draining.
ReleaseUndrained(id, born, rec) ==
    /\ IF records[id].born = born THEN records' = [records EXCEPT ![id] = rec]
                                  ELSE UNCHANGED records
    /\ UNCHANGED <<tombstones, calls, proofs, closed>>

\* releaseCount, on the record the permit was taken from.  It cannot
\* be gone while a permit of it is held (CountsMatch), so ELSE is never taken.
Release(id, born, rec) ==
    IF records[id].born = born
      THEN Settle(id, rec, FALSE)
      ELSE UNCHANGED <<records, tombstones, calls, proofs, closed>>

\* Fault: the permit is given back and stays counted.
releaseCommitCounted(r) ==
    LET id == requests[r].id
    IN  /\ requests[r].phase = "commit"
        /\ Release(id, requests[r].commit, records[id])
        /\ requests' = [requests EXCEPT ![r].phase = "work", ![r].commit = 0]
        /\ UNCHANGED <<dead, closing, started>>

releaseCommit(r) ==
    LET id == requests[r].id
    IN  /\ requests[r].phase = "commit"
        /\ Release(id, requests[r].commit, [records[id] EXCEPT !.commit = @ - 1])
        /\ requests' = [requests EXCEPT ![r].phase = "work", ![r].commit = 0]
        /\ UNCHANGED <<dead, closing, started>>

\* Fault: the release of a work permit lowers the other count.
releaseWorkWrongCount(r) ==
    LET id == requests[r].id
    IN  /\ requests[r].phase = "work"
        /\ Release(id, requests[r].work, [records[id] EXCEPT !.commit = @ - 1])
        /\ requests' = [requests EXCEPT ![r] =
              IF @.gone THEN [@ EXCEPT !.phase = "settle"] ELSE NoRequest]
        /\ UNCHANGED <<dead, closing, started>>

\* Fault: a request waits for its cancellation before it releases its work.
releaseWorkAfterCancellation(r) ==
    LET id == requests[r].id
    IN  /\ requests[r].phase = "work"
        /\ requests[r].gone => records[id].born # requests[r].work
        /\ Release(id, requests[r].work, [records[id] EXCEPT !.work = @ - 1])
        /\ requests' = [requests EXCEPT ![r] = NoRequest]
        /\ UNCHANGED <<dead, closing, started>>

\* The request ends, by success, error or abort.  Its work permit goes back
\* first; only then may it wait for the cancellation it has caused itself.
releaseWork(r) ==
    LET id == requests[r].id
    IN  /\ requests[r].phase = "work"
        /\ Release(id, requests[r].work, [records[id] EXCEPT !.work = @ - 1])
        /\ requests' = [requests EXCEPT ![r] =
              IF @.gone THEN [@ EXCEPT !.phase = "settle"] ELSE NoRequest]
        /\ UNCHANGED <<dead, closing, started>>

\* The connection of a request closes: the invocation is cancelled, and the
\* request is a waiter of that cancellation.
onRequestCancellation(r) ==
    LET id == requests[r].id
    IN  /\ requests[r].phase \in {"work", "commit"}
        /\ ~requests[r].gone
        /\ Settle(id, Cancelling(records[id]), FALSE)
        /\ requests' = [requests EXCEPT ![r].gone = TRUE]
        /\ UNCHANGED <<dead, closing, started>>

\* The wait ends when that record is terminal.
settleRequest(r) ==
    /\ requests[r].phase = "settle"
    /\ records[requests[r].id].born # requests[r].work
    /\ requests' = [requests EXCEPT ![r] = NoRequest]
    /\ UNCHANGED <<records, tombstones, calls, proofs, dead, closing, closed,
                   started>>

-----------------------------------------------------------------------------
(* Time, failure and shutdown.                                             *)

\* A lease that has ended stays at zero until its timer is run.
Tick ==
    /\ \E id \in Ids : Active(id) /\ records[id].lease > 0
    /\ records' = [id \in Ids |->
          IF Active(id) /\ records[id].lease > 0
            THEN [records[id] EXCEPT !.lease = @ - 1] ELSE records[id]]
    /\ UNCHANGED <<tombstones, requests, calls, proofs, dead, closing, closed,
                   started>>

\* The lease timer's callback; the timer is set while the record is active.
leaseTimer(id) ==
    /\ Active(id)
    /\ records[id].lease = 0
    /\ Settle(id, Cancelling(records[id]), FALSE)
    /\ UNCHANGED <<requests, dead, closing, started>>

ClientDies(id) ==
    /\ id \notin dead
    /\ dead' = dead \cup {id}
    /\ UNCHANGED <<records, tombstones, requests, calls, proofs, closing, closed,
                   started>>

\* Records that shutdown drains at once, in the order of the records map.
IdleRecords == {id \in Ids : Live(id) /\ activeCount(records[id]) = 0}

shutdown ==
    /\ ~closing
    /\ closing' = TRUE
    /\ records' = [id \in Ids |-> IF id \in IdleRecords THEN NoRecord
                                  ELSE IF Live(id) THEN Cancelling(records[id])
                                  ELSE records[id]]
    /\ \E order \in [1..Cardinality(IdleRecords) -> IdleRecords] :
          /\ \A m, n \in DOMAIN order :
                m < n => records[order[m]].born < records[order[n]].born
          /\ tombstones' = Newest(tombstones \o
                [n \in DOMAIN order |->
                    Tombstone(order[n], Cancelling(records[order[n]]))])
    /\ LET answered == {c \in calls : c.id \in IdleRecords /\ c.born = records[c.id].born}
       IN  /\ calls' = calls \ answered
           /\ proofs' = proofs \cup
                 {[id |-> c.id, born |-> c.born, state |-> "cancelled"] : c \in answered}
    /\ closed' = globalZero'
    /\ UNCHANGED <<requests, dead, started>>

-----------------------------------------------------------------------------
RequestEnds(r) == releaseCommit(r) \/ releaseWork(r) \/ settleRequest(r)

Next ==
    \/ \E id \in Ids : start(id) \/ heartbeat(id) \/ cancel(id) \/ finish(id)
                       \/ lookupTombstone(id) \/ leaseTimer(id) \/ ClientDies(id)
    \/ \E c \in calls : detachWaiter(c)
    \/ \E r \in Requests, id \in Ids : admitWork(r, id)
    \/ \E r \in Requests : acquireCommit(r) \/ onRequestCancellation(r)
                           \/ RequestEnds(r)
    \/ Tick
    \/ shutdown

Spec == Init /\ [][Next]_vars

\* The clock and its timers run, and the code between the acquisition and the
\* release of a permit ends: a write is a transaction, and summarization is
\* bounded by the provider's timeout.  Clients promise nothing.
FairSpec ==
    /\ Spec
    /\ WF_vars(Tick)
    /\ \A id \in Ids : WF_vars(leaseTimer(id))
    /\ \A r \in Requests : /\ WF_vars(releaseCommit(r))
                           /\ WF_vars(releaseWork(r))
                           /\ WF_vars(settleRequest(r))

-----------------------------------------------------------------------------
(* Properties.                                                             *)

WorkHolders(id, born) ==
    {r \in Requests : /\ requests[r].phase \in {"work", "commit"}
                      /\ requests[r].id = id /\ requests[r].work = born}
CommitHolders(id, born) ==
    {r \in Requests : /\ requests[r].phase = "commit"
                      /\ requests[r].id = id /\ requests[r].commit = born}

\* Type correctness of the coordinator's maps and of the requests.
TypeOK ==
    /\ records \in [Ids -> [state : {"none", "active", "cancelling"},
                            drain : {"none", "finished", "cancelled"},
                            work : Nat, commit : Nat,
                            lease : 0..LeaseTicks, born : Nat]]
    /\ requests \in [Requests -> [phase : {"none", "work", "commit", "settle"},
                                  id : Ids \cup {NoRequest.id}, work : Nat,
                                  commit : Nat, gone : BOOLEAN]]
    /\ \A r \in Requests : requests[r].phase # "none" => requests[r].id \in Ids
    /\ tombstones \in Seq([id : Ids, born : Nat, state : {"finished", "cancelled"}])
    /\ closing \in BOOLEAN /\ closed \in BOOLEAN
    /\ started \in Nat

\* The counters that decide when an invocation drains are the permits really
\* outstanding, none of which belongs to an earlier use of the id: a drain is
\* neither early nor missed.  (admit, releaseCount, maybeDrainRecord.)
CountsMatch ==
    /\ \A id \in Ids : Live(id) =>
          /\ records[id].work = Cardinality(WorkHolders(id, records[id].born))
          /\ records[id].commit = Cardinality(CommitHolders(id, records[id].born))
    /\ \A r \in Requests : requests[r].phase \in {"work", "commit"} =>
          /\ Live(requests[r].id)
          /\ records[requests[r].id].born = requests[r].work
          /\ requests[r].phase = "commit" => requests[r].commit = requests[r].work

\* A terminal reply is a proof: once a client has been told that its
\* invocation is finished or cancelled, no request holds a permit of it, and
\* none ever will, though another invocation may have its id.
DrainProof ==
    \A p \in proofs : WorkHolders(p.id, p.born) \cup CommitHolders(p.id, p.born) = {}

\* Cancellation is final: what is told of a cancelled invocation, when it has
\* drained, is that it was cancelled; no finish in between makes it a success.
\* (finish keeps drainState "cancelled"; terminalize reports drainState.)
CancelWins ==
    [][\A id \in Ids : records[id].drain = "cancelled" =>
          IF records'[id].born = records[id].born
            THEN records'[id].drain = "cancelled"
            ELSE \A told \in proofs' \cup {tombstones'[n] : n \in DOMAIN tombstones'} :
                    told.id = id /\ told.born = records[id].born
                       => told.state = "cancelled"]_vars

\* When shutdown has resolved, no request holds a permit: the stores may be
\* closed.
ShutdownDrained ==
    closed => \A r \in Requests : requests[r].phase \in {"none", "settle"}

\* An invocation whose client is gone is drained, by its lease or by the
\* connections that broke.
AbandonedDrains == \A id \in Ids : (id \in dead /\ Live(id)) ~> ~Live(id)

\* A request that waits for the cancellation it caused does not wait for
\* itself, and shutdown ends.
RequestsEnd ==
    /\ \A r \in Requests : requests[r].gone ~> ~requests[r].gone
    /\ closing ~> closed
=============================================================================
