------------------------ MODULE PassiveEventProcessor ------------------------
(***************************************************************************)
(* PassiveEventProcessor: the scheduler of the daemon's background work on *)
(* captured events.  Three tasks share the flag `draining`: the drain of   *)
(* the projects that hooks have notified, the sweep over all sidecars, and *)
(* the follow-up of a replication that left a backlog.  Each is started by *)
(* a timer and does its work, project by project, in calls that wait for   *)
(* admission in the publication queue, behind the daemon's requests.       *)
(*                                                                         *)
(* Time is abstracted: a timer that is set may fire at any moment.  The    *)
(* rows of a project are counted in batches.                               *)
(***************************************************************************)
EXTENDS PublicationQueue

CONSTANTS
    Projects,      \* cwds with a sidecar
    NoProject,
    BatchLimit,    \* backgroundBatchLimit
    MaxRows,       \* bound: batches that wait in a sidecar
    MaxCaptures,   \* bound: captures that follow the first
    MaxTrouble     \* bound: calls, scans and log writes that fail

ASSUME ProcessorAssumption ==
    /\ Tasks = {"queue", "sweep", "followUp"} /\ NoProject \notin Projects
    /\ BatchLimit \in Nat \ {0} /\ MaxRows \in Nat

VARIABLES
    stopped, halted, draining,
    queued,       \* queuedProjects
    timers,       \* the debounce timers that are set, with their deadlines
    sweepTimer, sweepInterval, followUpTimer, followUpDeferred,
    backlog,      \* replicationBacklog
    waiter,       \* the caller of stopAndWait
    task,         \* what each task is doing
    unprocessed,  \* batches of each sidecar that wait for promotion
    undelivered,  \* batches of each sidecar that wait for replication
    captures, trouble

flagVars == <<stopped, halted, draining>>
timerVars == <<queued, timers, sweepTimer, sweepInterval, followUpTimer,
               followUpDeferred, backlog>>
rowVars == <<unprocessed, undelivered, captures>>
procVars == <<flagVars, timerVars, waiter, task, rowVars, trouble>>
vars == <<queueVars, procVars>>

\* promote and replicate are the projects still to visit, current the one a
\* call is made for, batch the batches promoted of it.
Off == [pc |-> "off", promote |-> {}, replicate |-> {}, current |-> NoProject, batch |-> 0]

Init ==
    /\ QueueInit
    /\ stopped = FALSE /\ halted = FALSE /\ draining = FALSE
    /\ queued = {} /\ timers = {} /\ backlog = {}
    /\ sweepTimer = TRUE /\ sweepInterval = TRUE      \* start
    /\ followUpTimer = FALSE /\ followUpDeferred = FALSE
    /\ waiter = "none"
    /\ task = [k \in Tasks |-> Off]
    /\ unprocessed = [p \in Projects |-> 0]
    /\ undelivered = [p \in Projects |-> 0]
    /\ captures = 0 /\ trouble = 0

-----------------------------------------------------------------------------
Does(k, t) == task' = [task EXCEPT ![k] = t]
Trouble == trouble < MaxTrouble /\ trouble' = trouble + 1

\* clearScheduledWork
ClearScheduledWork ==
    /\ timers' = {} /\ queued' = {} /\ backlog' = {}
    /\ followUpTimer' = FALSE /\ sweepTimer' = FALSE /\ sweepInterval' = FALSE
    /\ UNCHANGED followUpDeferred

\* Fault: the projects that were notified during the drain are not scheduled.
FinishOnly(k, left) ==
    /\ draining' = FALSE /\ Does(k, Off)
    /\ waiter' = IF waiter = "waiting" THEN "resolved" ELSE waiter
    /\ queued' = left /\ UNCHANGED timers

\* finishDrain: left is the queue at that moment.
FinishDrain(k, left) ==
    /\ draining' = FALSE /\ Does(k, Off)
    /\ waiter' = IF waiter = "waiting" THEN "resolved" ELSE waiter
    /\ queued' = left
    /\ timers' = IF stopped THEN timers ELSE timers \cup left

\* Fault: the follow-up is armed whatever has happened in the meantime.
ArmAlways(rows, deferred) ==
    followUpTimer' = (rows # {}) /\ followUpDeferred' = deferred

\* scheduleReplicationFollowUp
ScheduleFollowUp(rows, deferred) ==
    LET arm == ~stopped /\ ~halted /\ rows # {}
    IN  /\ followUpTimer' = arm
        /\ followUpDeferred' = IF arm THEN deferred ELSE followUpDeferred

\* The end of a task: every path leads through its finally block.
End(k, left, rows) ==
    /\ FinishDrain(k, left)
    /\ backlog' = rows
    /\ IF k = "queue" THEN UNCHANGED <<followUpTimer, followUpDeferred>>
       ELSE ScheduleFollowUp(rows, FALSE)
    /\ UNCHANGED <<stopped, halted, sweepTimer, sweepInterval>>

-----------------------------------------------------------------------------
(* Timers and calls from outside.                                          *)

\* A hook appends rows; its notification may not arrive.
Capture(p, notified) ==
    /\ captures < MaxCaptures /\ captures' = captures + 1
    /\ unprocessed[p] < MaxRows /\ undelivered[p] < MaxRows
    /\ unprocessed' = [unprocessed EXCEPT ![p] = @ + 1]
    /\ undelivered' = [undelivered EXCEPT ![p] = @ + 1]
    /\ IF notified /\ ~stopped /\ ~halted
       THEN queued' = queued \cup {p} /\ timers' = timers \cup {p}
       ELSE UNCHANGED <<queued, timers>>
    /\ UNCHANGED <<queueVars, flagVars, sweepTimer, sweepInterval, followUpTimer,
                   followUpDeferred, backlog, waiter, task, trouble>>

\* drainQueuedProjects, from the timer of p.
DebounceFires(p) ==
    /\ p \in timers
    /\ IF draining
       THEN timers' = (timers \ {p}) \cup queued /\ UNCHANGED <<draining, queued, task>>
       ELSE /\ timers' = timers \ {p}
            /\ draining' = TRUE
            /\ Does("queue", [Off EXCEPT !.pc = "loop", !.promote = queued])
            /\ queued' = {}
    /\ UNCHANGED <<queueVars, stopped, halted, sweepTimer, sweepInterval, followUpTimer,
                   followUpDeferred, backlog, waiter, rowVars, trouble>>

\* runSweep; timer is the one-shot timer as the caller leaves it.
RunSweep(timer) ==
    /\ IF draining THEN sweepTimer' = TRUE /\ UNCHANGED <<draining, task>>
       ELSE /\ sweepTimer' = timer
            /\ draining' = TRUE /\ Does("sweep", [Off EXCEPT !.pc = "scan"])
    /\ UNCHANGED <<queueVars, stopped, halted, queued, timers, sweepInterval, followUpTimer,
                   followUpDeferred, backlog, waiter, rowVars, trouble>>

SweepTimerFires == sweepTimer /\ RunSweep(FALSE)
SweepIntervalFires == sweepInterval /\ RunSweep(sweepTimer)

\* Fault: the follow-up does not look whether a drain runs.
NotDraining == FALSE

Busy == draining

\* runReplicationFollowUp: it gives way to a running drain, and once to projects
\* that wait for promotion.
FollowUpFires ==
    /\ followUpTimer
    /\ \/ Busy /\ UNCHANGED <<draining, task, followUpTimer, followUpDeferred>>
       \/ /\ ~Busy /\ queued # {} /\ ~followUpDeferred
          /\ followUpDeferred' = TRUE
          /\ UNCHANGED <<draining, task, followUpTimer>>
       \/ /\ ~Busy /\ (queued = {} \/ followUpDeferred)
          /\ followUpTimer' = FALSE
          /\ draining' = TRUE
          /\ Does("followUp", [Off EXCEPT !.pc = "loop", !.replicate = backlog])
          /\ UNCHANGED followUpDeferred
    /\ UNCHANGED <<queueVars, stopped, halted, queued, timers, sweepTimer, sweepInterval,
                   backlog, waiter, rowVars, trouble>>

\* stopAndWait: the abort reaches a call that still waits for admission.
Stop ==
    /\ ~stopped /\ stopped' = TRUE
    /\ ClearScheduledWork
    /\ waiter' = IF draining THEN "waiting" ELSE "resolved"
    /\ IF \E k \in Tasks : InLine(k, "waiting")
       THEN \E k \in Tasks : Leave(k) ELSE UNCHANGED <<line, answer>>
    /\ UNCHANGED <<halted, draining, task,
                   rowVars, trouble>>

-----------------------------------------------------------------------------
(* The tasks.                                                              *)

\* Fault: a sidecar with nothing to promote is not replicated.
PromotableOnly(S) == {p \in S : unprocessed[p] > 0}

\* Sidecars that were scanned are replicated, with or without rows to promote.
ToReplicate(S) == S

\* The scan of a sweep gives the sidecars to visit, some of them perhaps not
\* this time.
Scan ==
    /\ task["sweep"].pc = "scan"
    /\ \E S \in SUBSET Projects :
           /\ IF S = Projects THEN UNCHANGED trouble ELSE Trouble
           /\ Does("sweep", [Off EXCEPT !.pc = "loop", !.replicate = ToReplicate(S),
                                        !.promote = {p \in S : unprocessed[p] > 0}])
    /\ UNCHANGED <<queueVars, flagVars, timerVars, waiter, rowVars>>

\* The loops ask before each project whether to go on: the drain of the queue
\* only for the halt, the promotions of the sweep for the stop, the replication
\* for both.
GivesUp(k) ==
    IF k = "queue" THEN halted
    ELSE stopped \/ (task[k].promote = {} /\ halted)

Call(k, p, batch) ==
    /\ Does(k, [task[k] EXCEPT !.pc = "call", !.current = p, !.batch = batch])
    /\ Ask(k, stopped)

\* The next call, promotions first, or the end.
Loop(k) ==
    /\ task[k].pc = "loop"
    /\ LET left == IF task[k].promote # {} THEN task[k].promote ELSE task[k].replicate
       IN  \/ /\ left # {} /\ ~GivesUp(k)
              /\ \E p \in left : Call(k, p, 0)
              /\ UNCHANGED <<flagVars, timerVars, waiter>>
           \/ /\ left = {} \/ GivesUp(k)
              /\ End(k, queued, backlog)
              /\ UNCHANGED queueVars
    /\ UNCHANGED <<rowVars, trouble>>

\* The operation a task was admitted for ends; its failures are counted.
SettleTask(k) ==
    /\ Settle(k)
    /\ IF answer'[k] = "rejected" THEN Trouble ELSE UNCHANGED trouble
    /\ UNCHANGED <<flagVars, timerVars, waiter,
                   task, rowVars>>

Returned(k, a) == task[k].pc = "call" /\ answer[k] = a
Promoting(k) == task[k].current \in task[k].promote
Visited(k) ==
    LET p == task[k].current
    IN  [Off EXCEPT !.pc = "loop", !.promote = task[k].promote \ {p},
                    !.replicate = IF Promoting(k) THEN task[k].replicate
                                  ELSE task[k].replicate \ {p}]
Consumed(k) == Answered(k, "none") /\ UNCHANGED line

\* Fault: one batch too many.
OneMoreBatch(k) == task[k].batch < BatchLimit

MoreBatches(k) == task[k].batch + 1 < BatchLimit

\* promoteOneBatch has returned.  The drain of the queue goes on with the same
\* project while rows may remain, up to its limit, and queues it again then; the
\* sweep promotes one batch.
PromoteReturns(k) ==
    /\ Returned(k, "resolved") /\ Promoting(k)
    /\ LET p == task[k].current
           n == unprocessed[p]
       IN  \E remaining \in BOOLEAN :
           /\ \/ n = 0 /\ ~remaining /\ UNCHANGED <<unprocessed, trouble>>
              \/ /\ n > 0 /\ (n > 1 => remaining)
                 /\ unprocessed' = [unprocessed EXCEPT ![p] = n - 1] /\ UNCHANGED trouble
              \/ n > 0 /\ Trouble /\ UNCHANGED unprocessed    \* errors, or parked
           /\ IF k = "queue" /\ remaining /\ MoreBatches(k)
              THEN Call(k, p, task[k].batch + 1) /\ UNCHANGED queued
              ELSE /\ Does(k, Visited(k)) /\ Consumed(k)
                   /\ queued' = IF k = "queue" /\ remaining /\ ~stopped
                                THEN queued \cup {p} ELSE queued
    /\ UNCHANGED <<flagVars, timers, sweepTimer, sweepInterval, followUpTimer,
                   followUpDeferred, backlog, waiter, undelivered, captures>>

\* A replication pass has returned: a project whose pass was saturated and made
\* progress is in the backlog, any other is not.
ReplicateReturns(k) ==
    /\ Returned(k, "resolved") /\ ~Promoting(k)
    /\ LET p == task[k].current
       IN  /\ undelivered' = [undelivered EXCEPT ![p] = IF @ > 0 THEN @ - 1 ELSE 0]
           /\ backlog' = IF undelivered[p] > 1 THEN backlog \cup {p} ELSE backlog \ {p}
    /\ Does(k, Visited(k)) /\ Consumed(k)
    /\ UNCHANGED <<flagVars, queued, timers, sweepTimer, sweepInterval,
                   followUpTimer, followUpDeferred, waiter, unprocessed, captures, trouble>>

\* A call was rejected.  It is logged, and the loop goes on.
Rejected(k) ==
    /\ Returned(k, "rejected")
    /\ Does(k, Visited(k)) /\ Consumed(k)
    /\ backlog' = IF Promoting(k) THEN backlog ELSE backlog \ {task[k].current}
    /\ UNCHANGED <<flagVars, queued, timers, sweepTimer, sweepInterval,
                   followUpTimer, followUpDeferred, waiter, rowVars, trouble>>

\* The log cannot be written either: the promotions of the task end here, with
\* what was left of them.
LogFails(k) ==
    /\ Returned(k, "rejected") /\ Promoting(k) /\ Trouble
    /\ End(k, queued, backlog) /\ Consumed(k)
    /\ UNCHANGED rowVars

\* haltForBackendMismatch: the configured backend is no longer the daemon's.
Halt(k) ==
    /\ Returned(k, "rejected") /\ ~halted
    /\ halted' = TRUE /\ ClearScheduledWork
    /\ Does(k, [Off EXCEPT !.pc = "loop"]) /\ Consumed(k)
    /\ UNCHANGED <<stopped, draining, waiter, rowVars, trouble>>

TaskStep(k) ==
    \/ Loop(k) \/ PromoteReturns(k) \/ ReplicateReturns(k)
    \/ Rejected(k) \/ LogFails(k) \/ Halt(k)

Next ==
    \/ \E p \in Projects, notified \in BOOLEAN : Capture(p, notified)
    \/ \E p \in Projects : DebounceFires(p)
    \/ SweepTimerFires \/ SweepIntervalFires \/ FollowUpFires
    \/ Stop \/ Scan
    \/ \E k \in Tasks : TaskStep(k) \/ SettleTask(k)
    \/ (TakeTurn \/ \E r \in Requests : RequestStep(r)) /\ UNCHANGED procVars

Spec == Init /\ [][Next]_vars

\* Timers fire, promise chains go on, and the processor's own calls end.  The
\* operations of the requests are not assumed to end.
FairSpec ==
    /\ Spec
    /\ \A p \in Projects : WF_vars(DebounceFires(p))
    /\ WF_vars(SweepTimerFires) /\ WF_vars(SweepIntervalFires) /\ WF_vars(FollowUpFires)
    /\ WF_vars(Scan)
    /\ \A k \in Tasks : WF_vars(TaskStep(k)) /\ WF_vars(SettleTask(k))
    /\ WF_vars(TakeTurn /\ UNCHANGED procVars)

-----------------------------------------------------------------------------
\* In particular a drain promotes at most backgroundBatchLimit batches of a
\* project in a row.
TypeOK ==
    /\ QueueTypeOK
    /\ stopped \in BOOLEAN /\ halted \in BOOLEAN /\ draining \in BOOLEAN
    /\ queued \subseteq Projects /\ timers \subseteq Projects /\ backlog \subseteq Projects
    /\ sweepTimer \in BOOLEAN /\ sweepInterval \in BOOLEAN
    /\ followUpTimer \in BOOLEAN /\ followUpDeferred \in BOOLEAN
    /\ waiter \in {"none", "waiting", "resolved"}
    /\ task \in [Tasks -> [pc : {"off", "scan", "loop", "call"}, promote : SUBSET Projects,
                           replicate : SUBSET Projects, current : Projects \cup {NoProject},
                           batch : 0..(BatchLimit - 1)]]
    /\ unprocessed \in [Projects -> 0..MaxRows] /\ undelivered \in [Projects -> 0..MaxRows]

(* The three tasks never overlap, and `draining` is set exactly while one  *)
(* of them runs, errors and halts included (runSweep, drainQueuedProjects, *)
(* runReplicationFollowUp, finishDrain).                                   *)
DrainsApart ==
    /\ \A j, k \in Tasks : task[j].pc # "off" /\ task[k].pc # "off" => j = k
    /\ draining <=> \E k \in Tasks : task[k].pc # "off"

(* Nothing that waits is left without a wake-up: a queued project has a    *)
(* timer, or a drain runs that will set one when it ends; a backlog has a  *)
(* follow-up, or a task runs that will arm it, until the processor stops.  *)
NothingForgotten ==
    /\ queued \subseteq timers \/ draining
    /\ backlog # {} /\ ~stopped =>
          followUpTimer \/ task["sweep"].pc # "off" \/ task["followUp"].pc # "off"

(* Once stopAndWait has resolved the processor is at rest: no task, no     *)
(* timer, and none of its calls waits for admission or holds one.  A halt  *)
(* too leaves no timer behind.                                             *)
RestsAfterStop ==
    /\ stopped \/ halted => /\ timers = {} /\ queued = {}
                           /\ ~sweepTimer /\ ~sweepInterval /\ ~followUpTimer
    /\ waiter = "resolved" =>
          /\ ~draining
          /\ \A k \in Tasks :
                task[k].pc = "off" /\ ~InLine(k, "waiting") /\ ~Active(k)

(* stopAndWait resolves though requests may hold the publication queue for *)
(* ever: a call that waits behind them is released by the abort.           *)
StopResolves == stopped ~> waiter = "resolved"

\* The operations of requests end, unless they wait for something themselves.
OperationsEnd ==
    \A r \in Requests : []<>(~Active(r) \/ InLine(r, "waiting"))

(* Every admission that is asked for is settled: no caller waits for       *)
(* itself, and requests that come again and again do not overtake.         *)
AdmissionsSettle ==
    OperationsEnd =>
        \A c \in Callers : answer[c] = "pending" ~> answer[c] # "pending"

(* Captured rows are promoted and replicated in the end, with or without   *)
(* their notification, unless the processor is stopped or halted.          *)
RowsWorkedOff ==
    OperationsEnd =>
        <>[](stopped \/ halted \/ \A p \in Projects : unprocessed[p] = 0 /\ undelivered[p] = 0)
=============================================================================
