--------------------- MODULE PassiveEventProcessorProofs ---------------------
(***************************************************************************)
(* The safety of PassiveEventProcessor for any projects, requests and      *)
(* limits.  Two facts about the publication queue carry it: only the head  *)
(* of the line has been entered, and a caller has at most one slot that    *)
(* is live.  With them a task whose slot is live is inside a call and has  *)
(* no answer yet, so that a task which has ended left nothing in line: on  *)
(* this the rest of a stopped processor depends.                           *)
(***************************************************************************)
EXTENDS PassiveEventProcessor, SequenceTheorems, TLAPS

-----------------------------------------------------------------------------
(* The inductive invariant.                                                *)

\* A slot of c that waits for its turn or holds the lock.
Live(c) == \E i \in DOMAIN line : line[i].who = c /\ line[i].state # "left"

\* Nothing behind the head of the line has been entered.
OneEntered == \A i \in DOMAIN line : line[i].state = "running" => i = 1

LiveOnce ==
  \A i, j \in DOMAIN line :
     line[i].who = line[j].who /\ line[i].state # "left" /\ line[j].state # "left" => i = j

QueueInv == QueueTypeOK /\ OneEntered /\ LiveOnce

\* A task's live slot belongs to a call it waits for.
CallsPending ==
  \A k \in Tasks : Live(k) => task[k].pc = "call" /\ answer[k] = "pending"

\* A call is made for a project still to visit; the drain of the queue has
\* only promotions, so the backlog is none of its business.
CallsHaveProject ==
  /\ \A k \in Tasks : task[k].pc = "call" =>
        task[k].current \in task[k].promote \cup task[k].replicate
  /\ task["queue"].replicate = {}

\* After a halt no backlog grows: the task that met it has nothing left to do.
HaltedTasks ==
  halted => /\ backlog = {}
            /\ \A k \in Tasks :
                  task[k].pc # "off" => /\ task[k].pc = "loop"
                                        /\ task[k].promote = {} /\ task[k].replicate = {}

QuietAfterStop ==
  /\ stopped \/ halted => /\ timers = {} /\ queued = {}
                         /\ ~sweepTimer /\ ~sweepInterval /\ ~followUpTimer
  /\ waiter # "none" => stopped
  /\ waiter = "resolved" => ~draining

ProcessorInv ==
  /\ TypeOK /\ OneEntered /\ LiveOnce
  /\ CallsPending /\ CallsHaveProject /\ HaltedTasks
  /\ DrainsApart /\ NothingForgotten /\ QuietAfterStop

-----------------------------------------------------------------------------
(* The publication queue.                                                  *)

(* A caller that waits in line or was entered has a live slot. *)
LEMMA LiveSlots ==
  ASSUME QueueTypeOK, NEW c
  PROVE  Live(c) <=> InLine(c, "waiting") \/ Active(c)
<1>1. \A i \in DOMAIN line : line[i] \in Slots
  BY DEF QueueTypeOK
<1>2. ASSUME NEW i \in DOMAIN line, NEW st
      PROVE  line[i] = [who |-> c, state |-> st] <=> line[i].who = c /\ line[i].state = st
  BY <1>1 DEF Slots
<1> QED
  BY <1>1, <1>2 DEF Live, InLine, Active, Slots

(* The head of the line is removed. *)
LEMMA LineAdvances ==
  ASSUME QueueInv, line # <<>>, line' = Tail(line)
  PROVE  /\ line' \in Seq(Slots) /\ OneEntered' /\ LiveOnce'
         /\ \A d : Live(d)' => Live(d)
         /\ \A c : line[1].who = c /\ line[1].state # "left" => ~Live(c)'
<1> USE DEF QueueInv, QueueTypeOK
<1>1. line' \in Seq(Slots) /\ Len(line') = Len(line) - 1
      /\ \A i \in 1..Len(line') : line'[i] = line[i + 1]
  BY HeadTailProperties
<1>2. DOMAIN line' = 1..Len(line') /\ DOMAIN line = 1..Len(line) /\ Len(line) \in Nat
  BY <1>1, LenProperties
<1>3. \A i \in DOMAIN line' : i + 1 \in DOMAIN line /\ line'[i] = line[i + 1] /\ i + 1 # 1
  BY <1>1, <1>2
<1>4. OneEntered'
  BY <1>3 DEF OneEntered
<1>5. LiveOnce'
  BY <1>2, <1>3 DEF LiveOnce
<1>6. \A d : Live(d)' => Live(d)
  BY <1>3 DEF Live
<1>7. 1 \in DOMAIN line
  BY <1>2, EmptySeq
<1>8. \A c : line[1].who = c /\ line[1].state # "left" => ~Live(c)'
  BY <1>3, <1>7 DEF Live, LiveOnce
<1> QED
  BY <1>1, <1>4, <1>5, <1>6, <1>8

(* A slot that waits is entered at the head of the line, or left. *)
LEMMA SlotChanges ==
  ASSUME QueueInv, NEW c \in Callers, NEW to \in {"left", "running"},
         to = "running" => line # <<>> /\ line[1] = [who |-> c, state |-> "waiting"],
         line' = Marked(c, "waiting", to), InLine(c, "waiting")
  PROVE  /\ line' \in Seq(Slots) /\ OneEntered' /\ LiveOnce'
         /\ \A d : Live(d)' => Live(d)
         /\ to = "left" => ~Live(c)'
<1> USE DEF QueueInv, QueueTypeOK
<1>1. DOMAIN line = 1..Len(line) /\ Len(line) \in Nat
  BY LenProperties
<1>2. \A i \in DOMAIN line : line[i] \in Slots
  OBVIOUS
<1>3. [who |-> c, state |-> to] \in Slots
  BY DEF Slots
<1>4. DOMAIN line' = DOMAIN line /\ line' \in Seq(Slots)
  <2>1. \A i \in 1..Len(line) : line'[i] \in Slots
    BY <1>1, <1>2, <1>3 DEF Marked
  <2>2. line' \in [1..Len(line) -> Slots]
    BY <1>1, <2>1 DEF Marked
  <2> QED
    BY <1>1, <2>2, SeqDef
<1>5. ASSUME NEW i \in DOMAIN line
      PROVE  /\ line'[i].who = line[i].who
             /\ line'[i].state = IF line[i].who = c /\ line[i].state = "waiting"
                                 THEN to ELSE line[i].state
  <2>1. line[i] = [who |-> c, state |-> "waiting"]
           <=> line[i].who = c /\ line[i].state = "waiting"
    BY <1>2 DEF Slots
  <2> QED
    BY <2>1 DEF Marked
<1>6. OneEntered'
  <2> SUFFICES ASSUME NEW i \in DOMAIN line, line'[i].state = "running" PROVE i = 1
    BY <1>4 DEF OneEntered
  <2>1. CASE line[i].state = "running"
    BY <2>1 DEF OneEntered
  <2>2. CASE line[i].state # "running"
    <3>1. to = "running" /\ line[i].who = c /\ line[i].state = "waiting"
      BY <2>2, <1>5
    <3>2. 1 \in DOMAIN line
      BY <3>1, <1>1, EmptySeq
    <3> QED
      BY <3>1, <3>2 DEF LiveOnce
  <2> QED
    BY <2>1, <2>2
<1>7. \A i \in DOMAIN line : line'[i].state # "left" => line[i].state # "left"
  BY <1>5
<1>8. LiveOnce'
  BY <1>4, <1>5, <1>7 DEF LiveOnce
<1>9. \A d : Live(d)' => Live(d)
  BY <1>4, <1>5, <1>7 DEF Live
<1>10. to = "left" => ~Live(c)'
  <2> SUFFICES ASSUME to = "left", NEW i \in DOMAIN line, line'[i].who = c,
                      line'[i].state # "left"
               PROVE  FALSE
    BY <1>4 DEF Live
  <2>1. line[i].who = c /\ line[i].state = "running"
    BY <1>2, <1>5 DEF Slots
  <2>2. PICK j \in DOMAIN line : line[j] = [who |-> c, state |-> "waiting"]
    BY DEF InLine
  <2>3. i = j
    BY <2>1, <2>2 DEF LiveOnce
  <2> QED
    BY <2>1, <2>2, <2>3
<1> QED
  BY <1>4, <1>6, <1>8, <1>9, <1>10

(* What an admission, an abort, a turn and the end of an operation do to   *)
(* the line: only the caller's own slot becomes live, and only with a      *)
(* pending answer.                                                         *)
QueueStep(c) ==
  /\ QueueInv'
  /\ \A d \in Callers \ {c} : (Live(d)' => Live(d)) /\ answer'[d] = answer[d]

(* The entered slot is the head of the line. *)
LEMMA EnteredIsHead ==
  ASSUME QueueInv, NEW c, Active(c)
  PROVE  line # <<>> /\ line[1] = [who |-> c, state |-> "running"]
  BY DEF QueueInv, OneEntered, Active, InLine

(* An admission: the slot that joins the line is the caller's only live one. *)
LEMMA AskStep ==
  ASSUME QueueInv, NEW c \in Callers, NEW aborted, Ask(c, aborted)
  PROVE  QueueStep(c) /\ (Live(c)' => answer'[c] = "pending")
<1> USE DEF QueueInv, QueueTypeOK
<1>1. CASE Nested(c) /\ line' = Tail(line) /\ Answered(c, "rejected")
  <2>1. line # <<>> /\ line[1] = [who |-> c, state |-> "running"]
    BY <1>1, EnteredIsHead DEF Nested
  <2>2. QueueInv' /\ (\A d : Live(d)' => Live(d)) /\ ~Live(c)'
    BY <1>1, <2>1, LineAdvances DEF Answered
  <2> QED
    BY <1>1, <2>2 DEF QueueStep, Answered
<1>2. CASE ~Nested(c) /\ Answered(c, "rejected") /\ UNCHANGED line
  <2>1. ~Live(c)
    BY <1>2, LiveSlots DEF Ask, Nested
  <2>2. QueueInv' /\ (\A d : Live(d)' => Live(d))
    BY <1>2 DEF Answered, OneEntered, LiveOnce, Live
  <2> QED
    BY <1>2, <2>1, <2>2 DEF QueueStep, Answered
<1>3. CASE ~Nested(c) /\ line' = Append(line, [who |-> c, state |-> "waiting"])
           /\ Answered(c, "pending")
  <2> DEFINE slot == [who |-> c, state |-> "waiting"]
  <2>0. ~Live(c)
    BY <1>3, LiveSlots DEF Ask, Nested
  <2>1. slot \in Slots
    BY DEF Slots
  <2>2. /\ line' \in Seq(Slots) /\ Len(line') = Len(line) + 1
        /\ \A i \in 1..Len(line) : line'[i] = line[i]
        /\ line'[Len(line) + 1] = slot
    BY <1>3, <2>1, AppendProperties
  <2>3. DOMAIN line = 1..Len(line) /\ DOMAIN line' = 1..Len(line') /\ Len(line) \in Nat
    BY <2>2, LenProperties
  <2>4. \A i \in DOMAIN line' : \/ i \in DOMAIN line /\ line'[i] = line[i]
                                \/ i = Len(line) + 1 /\ line'[i] = slot
    <3>1. \A i \in 1..Len(line') : i \in 1..Len(line) \/ i = Len(line) + 1
      BY <2>2, <2>3
    <3> QED
      BY <2>2, <2>3, <3>1
  <2>5. OneEntered'
    BY <2>4 DEF OneEntered
  <2>6. LiveOnce'
    BY <2>0, <2>4 DEF LiveOnce, Live
  <2>7. \A d \in Callers \ {c} : Live(d)' => Live(d)
    BY <2>4 DEF Live
  <2>8. answer' \in [Callers -> {"none", "pending", "resolved", "rejected"}]
        /\ answer'[c] = "pending" /\ \A d \in Callers \ {c} : answer'[d] = answer[d]
    BY <1>3 DEF Answered
  <2> QED
    BY <2>2, <2>5, <2>6, <2>7, <2>8 DEF QueueStep
<1> QED
  BY <1>1, <1>2, <1>3 DEF Ask

(* An abort. *)
LEMMA LeaveStep ==
  ASSUME QueueInv, NEW c \in Callers, Leave(c)
  PROVE  QueueStep(c) /\ ~Live(c)'
<1>1. /\ line' \in Seq(Slots) /\ OneEntered' /\ LiveOnce'
      /\ (\A d : Live(d)' => Live(d)) /\ ~Live(c)'
  BY SlotChanges DEF Leave
<1>2. answer' \in [Callers -> {"none", "pending", "resolved", "rejected"}]
      /\ \A d \in Callers \ {c} : answer'[d] = answer[d]
  BY DEF Leave, Answered, QueueInv, QueueTypeOK
<1> QED
  BY <1>1, <1>2 DEF QueueStep, QueueInv, QueueTypeOK

(* The end of an operation. *)
LEMMA SettleStep ==
  ASSUME QueueInv, NEW c \in Callers, Settle(c)
  PROVE  QueueStep(c) /\ ~Live(c)'
<1>1. line # <<>> /\ line[1] = [who |-> c, state |-> "running"]
  BY EnteredIsHead DEF Settle
<1>2. /\ line' \in Seq(Slots) /\ OneEntered' /\ LiveOnce'
      /\ (\A d : Live(d)' => Live(d)) /\ ~Live(c)'
  BY <1>1, LineAdvances DEF Settle
<1>3. answer' \in [Callers -> {"none", "pending", "resolved", "rejected"}]
      /\ \A d \in Callers \ {c} : answer'[d] = answer[d]
  BY DEF Settle, Answered, QueueInv, QueueTypeOK
<1> QED
  BY <1>2, <1>3 DEF QueueStep, QueueInv, QueueTypeOK

(* A turn of the line. *)
LEMMA TurnStep ==
  ASSUME QueueInv, TakeTurn
  PROVE  QueueInv' /\ (\A d : Live(d)' => Live(d)) /\ answer' = answer
<1> USE DEF QueueInv, QueueTypeOK
<1>0. line # <<>> /\ Head(line) = line[1] /\ 1 \in DOMAIN line /\ line[1] \in Slots
  BY EmptySeq, LenProperties DEF TakeTurn
<1>1. CASE Head(line).state = "waiting" /\ line' = Marked(Head(line).who, "waiting", "running")
  <2>1. line[1] = [who |-> line[1].who, state |-> "waiting"] /\ line[1].who \in Callers
    BY <1>0, <1>1 DEF Slots
  <2>2. InLine(line[1].who, "waiting")
    BY <1>0, <2>1 DEF InLine
  <2> QED
    BY <1>0, <1>1, <2>1, <2>2, SlotChanges DEF TakeTurn
<1>2. CASE Head(line).state = "left" /\ line' = Tail(line)
  BY <1>0, <1>2, LineAdvances DEF TakeTurn
<1> QED
  BY <1>1, <1>2 DEF TakeTurn

(* Whatever a request does. *)
LEMMA RequestsStep ==
  ASSUME QueueInv, NEW r \in Requests, RequestStep(r)
  PROVE  QueueStep(r)
  BY AskStep, LeaveStep, SettleStep DEF RequestStep, Callers

-----------------------------------------------------------------------------
(* The tasks.                                                              *)

TaskSet == [pc : {"off", "scan", "loop", "call"}, promote : SUBSET Projects,
            replicate : SUBSET Projects, current : Projects \cup {NoProject},
            batch : 0..(BatchLimit - 1)]

FlagsOK ==
  /\ stopped \in BOOLEAN /\ halted \in BOOLEAN /\ draining \in BOOLEAN
  /\ queued \subseteq Projects /\ timers \subseteq Projects /\ backlog \subseteq Projects
  /\ sweepTimer \in BOOLEAN /\ sweepInterval \in BOOLEAN
  /\ followUpTimer \in BOOLEAN /\ followUpDeferred \in BOOLEAN
  /\ waiter \in {"none", "waiting", "resolved"}

RowsOK ==
  unprocessed \in [Projects -> 0..MaxRows] /\ undelivered \in [Projects -> 0..MaxRows]

(* TypeOK in parts, now and after a step. *)
LEMMA TypeParts ==
  TypeOK <=> QueueTypeOK /\ FlagsOK /\ task \in [Tasks -> TaskSet] /\ RowsOK
  BY DEF TypeOK, FlagsOK, TaskSet, RowsOK

LEMMA TypePartsNext ==
  TypeOK' <=> QueueTypeOK' /\ FlagsOK' /\ task' \in [Tasks -> TaskSet] /\ RowsOK'
  BY DEF TypeOK, FlagsOK, TaskSet, RowsOK

(* The records of tasks that make no call. *)
LEMMA OffTask ==
  /\ Off \in TaskSet /\ Off.pc = "off" /\ Off.promote = {} /\ Off.replicate = {}
<1>1. 0 \in 0..(BatchLimit - 1)
  BY ProcessorAssumption
<1> QED
  BY <1>1 DEF Off, TaskSet

LEMMA ToVisit ==
  ASSUME NEW P \in SUBSET Projects, NEW R \in SUBSET Projects
  PROVE  LET t == [Off EXCEPT !.pc = "loop", !.promote = P, !.replicate = R]
         IN  t \in TaskSet /\ t.pc = "loop" /\ t.promote = P /\ t.replicate = R
  BY OffTask DEF TaskSet

LEMMA ToVisitScanned ==
  ASSUME NEW P \in SUBSET Projects, NEW R \in SUBSET Projects
  PROVE  LET t == [Off EXCEPT !.pc = "loop", !.replicate = R, !.promote = P]
         IN  t \in TaskSet /\ t.pc = "loop" /\ t.promote = P /\ t.replicate = R
  BY OffTask DEF TaskSet

LEMMA ToPromote ==
  ASSUME NEW P \in SUBSET Projects
  PROVE  LET t == [Off EXCEPT !.pc = "loop", !.promote = P]
         IN  t \in TaskSet /\ t.pc = "loop" /\ t.promote = P /\ t.replicate = {}
  BY OffTask DEF TaskSet

LEMMA FollowsUp ==
  ASSUME NEW R \in SUBSET Projects
  PROVE  LET t == [Off EXCEPT !.pc = "loop", !.replicate = R]
         IN  t \in TaskSet /\ t.pc = "loop" /\ t.promote = {} /\ t.replicate = R
  BY OffTask DEF TaskSet

LEMMA NothingToVisit ==
  ASSUME NEW pc \in {"scan", "loop"}
  PROVE  LET t == [Off EXCEPT !.pc = pc]
         IN  t \in TaskSet /\ t.pc = pc /\ t.promote = {} /\ t.replicate = {}
  BY OffTask DEF TaskSet

(* One task changes. *)
LEMMA OneTask ==
  ASSUME task \in [Tasks -> TaskSet], NEW k \in Tasks, NEW t \in TaskSet, Does(k, t)
  PROVE  /\ task' \in [Tasks -> TaskSet] /\ task'[k] = t
         /\ \A j \in Tasks \ {k} : task'[j] = task[j]
  BY DEF Does

(* After a visit the project is off one of the lists. *)
LEMMA VisitedTask ==
  ASSUME task \in [Tasks -> TaskSet], NEW k \in Tasks
  PROVE  /\ Visited(k) \in TaskSet /\ Visited(k).pc = "loop"
         /\ Visited(k).promote \subseteq task[k].promote
         /\ Visited(k).replicate \subseteq task[k].replicate
<1>1. task[k].promote \subseteq Projects /\ task[k].replicate \subseteq Projects
  BY DEF TaskSet
<1> DEFINE P == task[k].promote \ {task[k].current}
           R == IF Promoting(k) THEN task[k].replicate
                ELSE task[k].replicate \ {task[k].current}
<1>2. P \in SUBSET Projects /\ R \in SUBSET Projects
  BY <1>1
<1>3. Visited(k) = [Off EXCEPT !.pc = "loop", !.promote = P, !.replicate = R]
  BY DEF Visited
<1>4. Visited(k) \in TaskSet /\ Visited(k).pc = "loop" /\ Visited(k).promote = P
      /\ Visited(k).replicate = R
  <2> DEFINE v == [Off EXCEPT !.pc = "loop", !.promote = P, !.replicate = R]
  <2> HIDE DEF P, R
  <2>1. v \in TaskSet /\ v.pc = "loop" /\ v.promote = P /\ v.replicate = R
    BY <1>2, ToVisit
  <2>2. Visited(k) = v
    BY <1>3
  <2> QED
    BY <2>1, <2>2
<1> QED
  BY <1>4

(* Steps that leave the queue alone. *)
LEMMA QueueSame ==
  ASSUME QueueInv, UNCHANGED queueVars
  PROVE  QueueInv' /\ \A d : Live(d)' <=> Live(d)
  BY DEF QueueInv, QueueTypeOK, OneEntered, LiveOnce, Live, queueVars

(* The parts of the invariant that make it up again. *)
LEMMA InvParts ==
  ProcessorInv <=>
    /\ QueueInv /\ FlagsOK /\ task \in [Tasks -> TaskSet] /\ RowsOK
    /\ CallsPending /\ CallsHaveProject /\ HaltedTasks
    /\ DrainsApart /\ NothingForgotten /\ QuietAfterStop
  BY TypeParts DEF ProcessorInv, QueueInv

LEMMA InvPartsNext ==
  ProcessorInv' <=>
    /\ QueueInv' /\ FlagsOK' /\ task' \in [Tasks -> TaskSet] /\ RowsOK'
    /\ CallsPending' /\ CallsHaveProject' /\ HaltedTasks'
    /\ DrainsApart' /\ NothingForgotten' /\ QuietAfterStop'
  BY TypePartsNext DEF ProcessorInv, QueueInv

(* One lemma per action: the invariant is kept. *)
LEMMA CaptureKeeps ==
  ASSUME ProcessorInv, NEW p \in Projects, NEW notified \in BOOLEAN, Capture(p, notified)
  PROVE  ProcessorInv'
<1> USE InvParts, ProcessorAssumption DEF Capture, flagVars, timerVars, rowVars
<1>1. QueueInv' /\ (\A d : Live(d)' <=> Live(d)) /\ answer' = answer
  BY QueueSame DEF queueVars
<1>2. task' = task
  OBVIOUS
<1>3. FlagsOK' /\ task' \in [Tasks -> TaskSet]
  BY <1>2 DEF FlagsOK
<1>4. RowsOK'
  BY DEF RowsOK
<1>5. CallsPending'
  BY <1>1, <1>2 DEF CallsPending, DrainsApart
<1>6. CallsHaveProject'
  BY <1>1, <1>2 DEF CallsHaveProject
<1>7. HaltedTasks'
  BY <1>1, <1>2 DEF HaltedTasks, QuietAfterStop, DrainsApart
<1>8. DrainsApart'
  BY <1>1, <1>2 DEF DrainsApart
<1>9. NothingForgotten'
  BY <1>1, <1>2
     DEF NothingForgotten, QuietAfterStop, DrainsApart, HaltedTasks, CallsHaveProject
<1>10. QuietAfterStop'
  BY <1>1, <1>2 DEF QuietAfterStop, DrainsApart, HaltedTasks
<1> QED
  BY <1>1, <1>3, <1>4, <1>5, <1>6, <1>7, <1>8, <1>9, <1>10, InvPartsNext

LEMMA DebounceKeeps ==
  ASSUME ProcessorInv, NEW p \in Projects, DebounceFires(p)
  PROVE  ProcessorInv'
<1> USE InvParts, ProcessorAssumption DEF DebounceFires, flagVars, timerVars, rowVars
<1>1. QueueInv' /\ (\A d : Live(d)' <=> Live(d)) /\ answer' = answer
  BY QueueSame DEF queueVars
<1>2. \/ UNCHANGED <<task, draining>>
      \/ /\ ~draining /\ draining' = TRUE /\ task' \in [Tasks -> TaskSet]
         /\ task'["queue"].pc = "loop"
         /\ task'["queue"].promote = queued /\ task'["queue"].replicate = {}
         /\ \A j \in Tasks \ {"queue"} : task'[j] = task[j]
  <2> DEFINE t == [Off EXCEPT !.pc = "loop", !.promote = queued]
  <2>1. t \in TaskSet /\ t.pc = "loop" /\ t.promote = queued /\ t.replicate = {}
    <3>1. queued \in SUBSET Projects /\ {} \in SUBSET Projects
      BY DEF FlagsOK
    <3> QED
      BY <3>1, ToPromote
  <2>2. \/ UNCHANGED <<task, draining>>
        \/ ~draining /\ draining' = TRUE /\ Does("queue", t)
    BY DEF FlagsOK
  <2> HIDE DEF t
  <2> QED
    BY <2>1, <2>2, OneTask
<1>3. FlagsOK' /\ task' \in [Tasks -> TaskSet]
  BY <1>2 DEF FlagsOK
<1>4. RowsOK'
  BY DEF RowsOK
<1>5. CallsPending'
  BY <1>1, <1>2 DEF CallsPending, DrainsApart
<1>6. CallsHaveProject'
  BY <1>1, <1>2 DEF CallsHaveProject
<1>7. HaltedTasks'
  BY <1>1, <1>2 DEF HaltedTasks, QuietAfterStop, DrainsApart
<1>8. DrainsApart'
  BY <1>1, <1>2 DEF DrainsApart
<1>9. NothingForgotten'
  BY <1>1, <1>2
     DEF NothingForgotten, QuietAfterStop, DrainsApart, HaltedTasks, CallsHaveProject
<1>10. QuietAfterStop'
  BY <1>1, <1>2 DEF QuietAfterStop, DrainsApart, HaltedTasks
<1> QED
  BY <1>1, <1>3, <1>4, <1>5, <1>6, <1>7, <1>8, <1>9, <1>10, InvPartsNext

LEMMA SweepKeeps ==
  ASSUME ProcessorInv, NEW timer \in BOOLEAN, sweepTimer \/ sweepInterval, RunSweep(timer)
  PROVE  ProcessorInv'
<1> USE InvParts, ProcessorAssumption DEF RunSweep, flagVars, timerVars, rowVars
<1>1. QueueInv' /\ (\A d : Live(d)' <=> Live(d)) /\ answer' = answer
  BY QueueSame DEF queueVars
<1>2. \/ UNCHANGED <<task, draining>>
      \/ /\ ~draining /\ draining' = TRUE /\ task' \in [Tasks -> TaskSet]
         /\ task'["sweep"].pc = "scan"
         /\ task'["sweep"].promote = {} /\ task'["sweep"].replicate = {}
         /\ \A j \in Tasks \ {"sweep"} : task'[j] = task[j]
  <2> DEFINE t == [Off EXCEPT !.pc = "scan"]
  <2>1. t \in TaskSet /\ t.pc = "scan" /\ t.promote = {} /\ t.replicate = {}
    <3>1. {} \in SUBSET Projects /\ {} \in SUBSET Projects
      BY DEF FlagsOK
    <3> QED
      BY <3>1, NothingToVisit
  <2>2. \/ UNCHANGED <<task, draining>>
        \/ ~draining /\ draining' = TRUE /\ Does("sweep", t)
    BY DEF FlagsOK
  <2> HIDE DEF t
  <2> QED
    BY <2>1, <2>2, OneTask
<1>3. FlagsOK' /\ task' \in [Tasks -> TaskSet]
  BY <1>2 DEF FlagsOK
<1>4. RowsOK'
  BY DEF RowsOK
<1>5. CallsPending'
  BY <1>1, <1>2 DEF CallsPending, DrainsApart
<1>6. CallsHaveProject'
  BY <1>1, <1>2 DEF CallsHaveProject
<1>7. HaltedTasks'
  BY <1>1, <1>2 DEF HaltedTasks, QuietAfterStop, DrainsApart
<1>8. DrainsApart'
  BY <1>1, <1>2 DEF DrainsApart
<1>9. NothingForgotten'
  BY <1>1, <1>2
     DEF NothingForgotten, QuietAfterStop, DrainsApart, HaltedTasks, CallsHaveProject
<1>10. QuietAfterStop'
  BY <1>1, <1>2 DEF QuietAfterStop, DrainsApart, HaltedTasks
<1> QED
  BY <1>1, <1>3, <1>4, <1>5, <1>6, <1>7, <1>8, <1>9, <1>10, InvPartsNext

LEMMA FollowUpKeeps ==
  ASSUME ProcessorInv, FollowUpFires
  PROVE  ProcessorInv'
<1> USE InvParts, ProcessorAssumption DEF FollowUpFires, Busy, flagVars, timerVars, rowVars
<1>1. QueueInv' /\ (\A d : Live(d)' <=> Live(d)) /\ answer' = answer
  BY QueueSame DEF queueVars
<1>2. \/ UNCHANGED <<task, draining>>
      \/ /\ ~draining /\ draining' = TRUE /\ task' \in [Tasks -> TaskSet]
         /\ task'["followUp"].pc = "loop"
         /\ task'["followUp"].promote = {} /\ task'["followUp"].replicate = backlog
         /\ \A j \in Tasks \ {"followUp"} : task'[j] = task[j]
  <2> DEFINE t == [Off EXCEPT !.pc = "loop", !.replicate = backlog]
  <2>1. t \in TaskSet /\ t.pc = "loop" /\ t.promote = {} /\ t.replicate = backlog
    <3>1. {} \in SUBSET Projects /\ backlog \in SUBSET Projects
      BY DEF FlagsOK
    <3> QED
      BY <3>1, FollowsUp
  <2>2. \/ UNCHANGED <<task, draining>>
        \/ ~draining /\ draining' = TRUE /\ Does("followUp", t)
    BY DEF FlagsOK
  <2> HIDE DEF t
  <2> QED
    BY <2>1, <2>2, OneTask
<1>3. FlagsOK' /\ task' \in [Tasks -> TaskSet]
  BY <1>2 DEF FlagsOK
<1>4. RowsOK'
  BY DEF RowsOK
<1>5. CallsPending'
  BY <1>1, <1>2 DEF CallsPending, DrainsApart
<1>6. CallsHaveProject'
  BY <1>1, <1>2 DEF CallsHaveProject
<1>7. HaltedTasks'
  BY <1>1, <1>2 DEF HaltedTasks, QuietAfterStop, DrainsApart
<1>8. DrainsApart'
  BY <1>1, <1>2 DEF DrainsApart
<1>9. NothingForgotten'
  <2>1. queued \subseteq timers \/ draining'
    BY <1>2 DEF NothingForgotten
  <2>2. followUpTimer' = TRUE \/ task'["followUp"].pc = "loop"
    <3>1. CASE Busy /\ UNCHANGED followUpTimer
      BY <3>1
    <3>2. CASE UNCHANGED followUpTimer
      BY <3>2
    <3>3. CASE followUpTimer' = FALSE /\ draining' = TRUE /\ ~Busy
      BY <1>2, <3>3 DEF FlagsOK
    <3> QED
      BY <3>1, <3>2, <3>3
  <2> QED
    BY <2>1, <2>2 DEF NothingForgotten
<1>10. QuietAfterStop'
  BY <1>1, <1>2 DEF QuietAfterStop, DrainsApart, HaltedTasks
<1> QED
  BY <1>1, <1>3, <1>4, <1>5, <1>6, <1>7, <1>8, <1>9, <1>10, InvPartsNext

-----------------------------------------------------------------------------
(* The steps of the tasks.                                                 *)

(* An answer that was read is forgotten. *)
LEMMA ConsumedStep ==
  ASSUME QueueInv, NEW k \in Tasks, Consumed(k)
  PROVE  QueueStep(k) /\ (Live(k)' => Live(k))
  BY DEF Consumed, Answered, QueueStep, QueueInv, QueueTypeOK, OneEntered, LiveOnce, Live,
         Callers

(* Only the caller's own slot can break CallsPending. *)
LEMMA CallsPendingKept ==
  ASSUME CallsPending, NEW k \in Tasks, QueueStep(k),
         \A j \in Tasks \ {k} : task'[j] = task[j],
         Live(k)' => task'[k].pc = "call" /\ answer'[k] = "pending"
  PROVE  CallsPending'
<1> SUFFICES ASSUME NEW j \in Tasks, Live(j)'
             PROVE  task'[j].pc = "call" /\ answer'[j] = "pending"
  BY DEF CallsPending
<1>1. CASE j = k
  BY <1>1
<1>2. CASE j # k
  BY <1>2 DEF CallsPending, QueueStep, Callers
<1> QED
  BY <1>1, <1>2

(* A task goes on: the others are off, and stay so. *)
LEMMA GoesOn ==
  ASSUME ProcessorInv, NEW k \in Tasks, task[k].pc # "off", NEW t \in TaskSet, t.pc # "off",
         Does(k, t), UNCHANGED draining
  PROVE  /\ task' \in [Tasks -> TaskSet] /\ task'[k] = t
         /\ \A j \in Tasks \ {k} : task'[j] = task[j] /\ task[j].pc = "off"
         /\ draining = TRUE
         /\ DrainsApart'
<1> USE InvParts
<1>1. /\ task' \in [Tasks -> TaskSet] /\ task'[k] = t
      /\ \A j \in Tasks \ {k} : task'[j] = task[j]
  BY OneTask
<1>2. draining = TRUE /\ \A j \in Tasks \ {k} : task[j].pc = "off"
  BY DEF DrainsApart, FlagsOK
<1>3. DrainsApart'
  BY <1>1, <1>2 DEF DrainsApart
<1> QED
  BY <1>1, <1>2, <1>3

(* A task ends: finishDrain and the follow-up. *)
LEMMA Ends ==
  ASSUME ProcessorInv, NEW k \in Tasks, task[k].pc # "off",
         End(k, queued, backlog), QueueStep(k), ~Live(k)', RowsOK'
  PROVE  ProcessorInv'
<1> USE InvParts, ProcessorAssumption DEF End, FinishDrain, ScheduleFollowUp
<1>1. /\ task' \in [Tasks -> TaskSet] /\ task'[k] = Off
      /\ \A j \in Tasks \ {k} : task'[j] = task[j]
  BY OneTask, OffTask
<1>2. draining = TRUE /\ \A j \in Tasks : task'[j].pc = "off"
  BY <1>1, OffTask DEF DrainsApart, FlagsOK
<1>3. QueueInv'
  BY DEF QueueStep
<1>4. FlagsOK'
  <2>1. followUpTimer' \in BOOLEAN /\ followUpDeferred' \in BOOLEAN
    BY DEF FlagsOK
  <2>2. timers' \subseteq Projects /\ waiter' \in {"none", "waiting", "resolved"}
    BY DEF FlagsOK
  <2> QED
    BY <2>1, <2>2 DEF FlagsOK
<1>5. CallsPending'
  BY <1>1, CallsPendingKept
<1>6. CallsHaveProject'
  BY <1>1, <1>2, OffTask DEF CallsHaveProject
<1>7. HaltedTasks'
  BY <1>1, <1>2, OffTask DEF HaltedTasks
<1>8. DrainsApart'
  BY <1>2 DEF DrainsApart
<1>9. NothingForgotten'
  <2>1. queued' \subseteq timers'
    BY DEF QuietAfterStop
  <2>2. ASSUME backlog' # {}, ~stopped'
        PROVE  followUpTimer'
    <3>1. ~halted
      BY <2>2 DEF HaltedTasks
    <3>2. CASE k = "queue"
      BY <1>2, <2>2, <3>2 DEF NothingForgotten, DrainsApart
    <3>3. CASE k # "queue"
      BY <2>2, <3>1, <3>3
    <3> QED
      BY <3>2, <3>3
  <2> QED
    BY <2>1, <2>2 DEF NothingForgotten
<1>10. QuietAfterStop'
  <2>1. stopped' \/ halted' =>
           timers' = {} /\ queued' = {} /\ ~sweepTimer' /\ ~sweepInterval' /\ ~followUpTimer'
    BY DEF QuietAfterStop
  <2>2. (waiter' # "none" => stopped') /\ ~draining'
    BY DEF QuietAfterStop
  <2> QED
    BY <2>1, <2>2 DEF QuietAfterStop
<1> QED
  BY <1>1, <1>3, <1>4, <1>5, <1>6, <1>7, <1>8, <1>9, <1>10, InvPartsNext

(* A task makes a call for a project that is left to visit. *)
LEMMA CallKeeps ==
  ASSUME ProcessorInv, NEW k \in Tasks, task[k].pc \in {"loop", "call"}, ~halted,
         NEW p \in task[k].promote \cup task[k].replicate, NEW b \in 0..(BatchLimit - 1),
         Call(k, p, b), UNCHANGED <<flagVars, timerVars, waiter>>, RowsOK'
  PROVE  ProcessorInv'
<1> DEFINE t == [task[k] EXCEPT !.pc = "call", !.current = p, !.batch = b]
<1>0. p \in Projects /\ task[k] \in TaskSet
  BY InvParts DEF TaskSet
<1>1. /\ t \in TaskSet /\ t.pc = "call" /\ t.current = p
      /\ t.promote = task[k].promote /\ t.replicate = task[k].replicate
  BY <1>0 DEF TaskSet
<1> HIDE DEF t
<1> USE InvParts, ProcessorAssumption DEF Call, flagVars, timerVars
<1>2. Does(k, t)
  BY DEF t
<1>3. /\ task' \in [Tasks -> TaskSet] /\ task'[k] = t
      /\ \A j \in Tasks \ {k} : task'[j] = task[j] /\ task[j].pc = "off"
      /\ draining = TRUE /\ DrainsApart'
  BY <1>1, <1>2, GoesOn
<1>4. QueueStep(k) /\ (Live(k)' => answer'[k] = "pending")
  BY AskStep DEF Callers
<1>5. QueueInv'
  BY <1>4 DEF QueueStep
<1>6. FlagsOK'
  BY DEF FlagsOK
<1>7. CallsPending'
  BY <1>1, <1>3, <1>4, CallsPendingKept
<1>8. CallsHaveProject'
  BY <1>1, <1>3 DEF CallsHaveProject
<1>9. HaltedTasks'
  BY DEF HaltedTasks
<1>10. NothingForgotten'
  BY <1>1, <1>3 DEF NothingForgotten
<1>11. QuietAfterStop'
  BY DEF QuietAfterStop
<1> QED
  BY <1>3, <1>5, <1>6, <1>7, <1>8, <1>9, <1>10, <1>11, InvPartsNext

(* The loop of a task. *)
LEMMA LoopKeeps ==
  ASSUME ProcessorInv, NEW k \in Tasks, Loop(k)
  PROVE  ProcessorInv'
<1> USE InvParts, ProcessorAssumption
<1> DEFINE left == IF task[k].promote # {} THEN task[k].promote ELSE task[k].replicate
<1>0. task[k].pc = "loop" /\ RowsOK'
  BY DEF Loop, RowsOK, rowVars
<1>1. ASSUME NEW p \in left, ~GivesUp(k), Call(k, p, 0), UNCHANGED <<flagVars, timerVars, waiter>>
      PROVE  ProcessorInv'
  <2>1. ~halted
    BY <1>0, <1>1 DEF HaltedTasks
  <2>2. p \in task[k].promote \cup task[k].replicate /\ 0 \in 0..(BatchLimit - 1)
    BY <1>1
  <2> QED
    BY <1>0, <1>1, <2>1, <2>2, CallKeeps
<1>2. CASE End(k, queued, backlog) /\ UNCHANGED queueVars
  <2>1. QueueInv' /\ (\A d : Live(d)' <=> Live(d)) /\ answer' = answer
    BY <1>2, QueueSame DEF queueVars
  <2>2. QueueStep(k) /\ ~Live(k)'
    BY <1>0, <2>1 DEF QueueStep, CallsPending
  <2> QED
    BY <1>0, <1>2, <2>2, Ends
<1> QED
  BY <1>1, <1>2 DEF Loop

(* The scan of a sweep. *)
LEMMA ScanKeeps ==
  ASSUME ProcessorInv, Scan
  PROVE  ProcessorInv'
<1> USE InvParts, ProcessorAssumption DEF flagVars, timerVars, rowVars
<1>1. PICK S \in SUBSET Projects :
        Does("sweep", [Off EXCEPT !.pc = "loop", !.replicate = S,
                                  !.promote = {p \in S : unprocessed[p] > 0}])
  BY DEF Scan, ToReplicate
<1> DEFINE P == {p \in S : unprocessed[p] > 0}
           t == [Off EXCEPT !.pc = "loop", !.replicate = S, !.promote = P]
<1>2. t \in TaskSet /\ t.pc = "loop" /\ t.promote = P /\ t.replicate = S
  <2>1. P \in SUBSET Projects
    OBVIOUS
  <2> HIDE DEF P
  <2> QED
    BY <2>1, ToVisitScanned
<1> HIDE DEF t
<1>3. task["sweep"].pc = "scan" /\ Does("sweep", t)
  BY <1>1 DEF Scan, t
<1>4. /\ task' \in [Tasks -> TaskSet] /\ task'["sweep"] = t
      /\ \A j \in Tasks \ {"sweep"} : task'[j] = task[j] /\ task[j].pc = "off"
      /\ draining = TRUE /\ DrainsApart'
  BY <1>2, <1>3, GoesOn DEF Scan
<1>5. QueueInv' /\ (\A d : Live(d)' <=> Live(d)) /\ answer' = answer
  BY QueueSame DEF Scan, queueVars
<1>6. FlagsOK' /\ RowsOK'
  BY DEF Scan, FlagsOK, RowsOK
<1>7. CallsPending'
  BY <1>3, <1>4, <1>5 DEF CallsPending
<1>8. CallsHaveProject'
  BY <1>2, <1>4 DEF CallsHaveProject
<1>9. HaltedTasks'
  BY <1>3 DEF HaltedTasks, Scan
<1>10. NothingForgotten'
  BY <1>2, <1>4 DEF NothingForgotten, Scan
<1>11. QuietAfterStop'
  BY DEF QuietAfterStop, Scan
<1> QED
  BY <1>4, <1>5, <1>6, <1>7, <1>8, <1>9, <1>10, <1>11, InvPartsNext

(* The end of an admitted call. *)
LEMMA SettleTaskKeeps ==
  ASSUME ProcessorInv, NEW k \in Tasks, SettleTask(k)
  PROVE  ProcessorInv'
<1> USE InvParts DEF SettleTask, flagVars, timerVars, rowVars
<1>1. QueueStep(k) /\ ~Live(k)'
  BY SettleStep DEF Callers
<1>2. QueueInv'
  BY <1>1 DEF QueueStep
<1>3. CallsPending'
  BY <1>1, CallsPendingKept
<1>4. FlagsOK' /\ RowsOK' /\ task' \in [Tasks -> TaskSet]
  BY DEF FlagsOK, RowsOK
<1>5. CallsHaveProject' /\ HaltedTasks' /\ DrainsApart' /\ NothingForgotten' /\ QuietAfterStop'
  BY DEF CallsHaveProject, HaltedTasks, DrainsApart, NothingForgotten, QuietAfterStop
<1> QED
  BY <1>2, <1>3, <1>4, <1>5, InvPartsNext

(* What a task whose call has returned leaves of the invariant. *)
LEMMA VisitedKeeps ==
  ASSUME ProcessorInv, NEW k \in Tasks, task[k].pc = "call", answer[k] # "pending",
         Does(k, Visited(k)), Consumed(k), UNCHANGED <<halted, draining>>
  PROVE  /\ QueueInv' /\ task' \in [Tasks -> TaskSet]
         /\ \A j \in Tasks \ {k} : task'[j] = task[j] /\ task[j].pc = "off"
         /\ draining = TRUE /\ task'[k] = Visited(k) /\ task'[k].pc = "loop" /\ ~halted
         /\ CallsPending' /\ CallsHaveProject' /\ DrainsApart'
<1> USE InvParts, ProcessorAssumption
<1>1. /\ Visited(k) \in TaskSet /\ Visited(k).pc = "loop"
      /\ Visited(k).promote \subseteq task[k].promote
      /\ Visited(k).replicate \subseteq task[k].replicate
  BY VisitedTask
<1>2. /\ task' \in [Tasks -> TaskSet] /\ task'[k] = Visited(k)
      /\ \A j \in Tasks \ {k} : task'[j] = task[j] /\ task[j].pc = "off"
      /\ draining = TRUE /\ DrainsApart'
  BY <1>1, GoesOn
<1>3. QueueStep(k) /\ (Live(k)' => Live(k))
  BY ConsumedStep
<1>4. ~Live(k)' /\ QueueInv'
  BY <1>3 DEF CallsPending, QueueStep
<1>5. CallsPending'
  BY <1>2, <1>3, <1>4, CallsPendingKept
<1>6. CallsHaveProject'
  BY <1>1, <1>2 DEF CallsHaveProject
<1>7. ~halted
  BY DEF HaltedTasks
<1> QED
  BY <1>1, <1>2, <1>4, <1>5, <1>6, <1>7

(* The project of a call is one of the task's. *)
LEMMA CurrentProject ==
  ASSUME ProcessorInv, NEW k \in Tasks, task[k].pc = "call"
  PROVE  task[k].current \in Projects /\ task[k].current \in task[k].promote \cup task[k].replicate
<1> USE InvParts
<1>1. task[k].promote \subseteq Projects /\ task[k].replicate \subseteq Projects
  BY DEF TaskSet
<1> QED
  BY <1>1 DEF CallsHaveProject

(* A promotion has returned: the same project again, or the next. *)
LEMMA PromoteKeeps ==
  ASSUME ProcessorInv, NEW k \in Tasks, PromoteReturns(k)
  PROVE  ProcessorInv'
<1> USE InvParts, ProcessorAssumption
<1> DEFINE p == task[k].current
<1>1. task[k].pc = "call" /\ answer[k] = "resolved" /\ p \in task[k].promote
  BY DEF PromoteReturns, Returned, Promoting
<1>2. p \in Projects /\ task[k] \in TaskSet
  BY <1>1, CurrentProject
<1>3. ~halted
  BY <1>1 DEF HaltedTasks
<1>4. RowsOK'
  <2>1. unprocessed' \in [Projects -> 0..MaxRows]
    <3>1. CASE UNCHANGED unprocessed
      BY <3>1 DEF RowsOK
    <3>2. CASE /\ unprocessed[p] > 0
               /\ unprocessed' = [unprocessed EXCEPT ![p] = unprocessed[p] - 1]
      <4>1. unprocessed[p] - 1 \in 0..MaxRows
        BY <1>2, <3>2 DEF RowsOK
      <4> QED
        BY <3>2, <4>1 DEF RowsOK
    <3> QED
      BY <3>1, <3>2 DEF PromoteReturns
  <2>2. UNCHANGED undelivered
    BY DEF PromoteReturns
  <2> QED
    BY <2>1, <2>2 DEF RowsOK
<1>5. UNCHANGED <<flagVars, timers, sweepTimer, sweepInterval, followUpTimer,
                  followUpDeferred, backlog, waiter>>
  BY DEF PromoteReturns
<1>6. CASE /\ k = "queue" /\ MoreBatches(k) /\ Call(k, p, task[k].batch + 1)
           /\ UNCHANGED queued
  <2>1. task[k].batch + 1 \in 0..(BatchLimit - 1)
    <3>1. task[k].batch \in 0..(BatchLimit - 1)
      BY <1>2 DEF TaskSet
    <3> QED
      BY <1>6, <3>1 DEF MoreBatches
  <2> QED
    BY <1>1, <1>3, <1>4, <1>5, <1>6, <2>1, CallKeeps DEF timerVars
<1>7. CASE /\ Does(k, Visited(k)) /\ Consumed(k)
           /\ \/ queued' = queued
              \/ k = "queue" /\ ~stopped /\ queued' = queued \cup {p}
  <2>1. /\ QueueInv' /\ task' \in [Tasks -> TaskSet]
        /\ \A j \in Tasks \ {k} : task'[j] = task[j] /\ task[j].pc = "off"
        /\ draining = TRUE /\ task'[k].pc = "loop" /\ ~halted
        /\ CallsPending' /\ CallsHaveProject' /\ DrainsApart'
    BY <1>1, <1>5, <1>7, VisitedKeeps DEF flagVars
  <2>2. FlagsOK'
    BY <1>2, <1>5, <1>7 DEF FlagsOK, flagVars
  <2>3. HaltedTasks'
    BY <1>5, <2>1 DEF HaltedTasks, flagVars
  <2>4. NothingForgotten'
    BY <1>5, <2>1 DEF NothingForgotten, flagVars
  <2>5. QuietAfterStop'
    BY <1>3, <1>5, <1>7 DEF QuietAfterStop, flagVars
  <2> QED
    BY <1>4, <2>1, <2>2, <2>3, <2>4, <2>5, InvPartsNext
<1> QED
  <2>1. PICK remaining \in BOOLEAN :
           IF k = "queue" /\ remaining /\ MoreBatches(k)
           THEN Call(k, p, task[k].batch + 1) /\ UNCHANGED queued
           ELSE /\ Does(k, Visited(k)) /\ Consumed(k)
                /\ queued' = IF k = "queue" /\ remaining /\ ~stopped
                             THEN queued \cup {p} ELSE queued
    BY DEF PromoteReturns
  <2> QED
    BY <1>6, <1>7, <2>1

(* A replication has returned: only the sweep and the follow-up make one. *)
LEMMA ReplicateKeeps ==
  ASSUME ProcessorInv, NEW k \in Tasks, ReplicateReturns(k)
  PROVE  ProcessorInv'
<1> USE InvParts, ProcessorAssumption DEF flagVars
<1> DEFINE p == task[k].current
<1>1. task[k].pc = "call" /\ answer[k] = "resolved" /\ p \notin task[k].promote
  BY DEF ReplicateReturns, Returned, Promoting
<1>2. p \in Projects /\ k # "queue"
  BY <1>1, CurrentProject DEF CallsHaveProject
<1>3. /\ QueueInv' /\ task' \in [Tasks -> TaskSet]
      /\ \A j \in Tasks \ {k} : task'[j] = task[j] /\ task[j].pc = "off"
      /\ draining = TRUE /\ task'[k].pc = "loop" /\ ~halted
      /\ CallsPending' /\ CallsHaveProject' /\ DrainsApart'
  BY <1>1, VisitedKeeps DEF ReplicateReturns
<1>4. RowsOK'
  <2>1. (IF undelivered[p] > 0 THEN undelivered[p] - 1 ELSE 0) \in 0..MaxRows
    BY <1>2 DEF RowsOK
  <2>2. undelivered' = [undelivered EXCEPT ![p] =
                           IF undelivered[p] > 0 THEN undelivered[p] - 1 ELSE 0]
    BY DEF ReplicateReturns
  <2>3. undelivered' \in [Projects -> 0..MaxRows]
    BY <2>1, <2>2 DEF RowsOK
  <2>4. unprocessed' = unprocessed
    BY DEF ReplicateReturns
  <2> QED
    BY <2>3, <2>4 DEF RowsOK
<1>5. FlagsOK'
  <2>1. backlog' \subseteq Projects
    BY <1>2 DEF ReplicateReturns, FlagsOK
  <2> QED
    BY <2>1 DEF ReplicateReturns, FlagsOK
<1>6. HaltedTasks'
  BY <1>3 DEF HaltedTasks, ReplicateReturns
<1>7. NothingForgotten'
  <2>1. task'["sweep"].pc # "off" \/ task'["followUp"].pc # "off"
    BY <1>2, <1>3
  <2> QED
    BY <1>3, <2>1 DEF NothingForgotten, ReplicateReturns
<1>8. QuietAfterStop'
  BY DEF QuietAfterStop, ReplicateReturns
<1> QED
  BY <1>3, <1>4, <1>5, <1>6, <1>7, <1>8, InvPartsNext

(* A call was rejected. *)
LEMMA RejectedKeeps ==
  ASSUME ProcessorInv, NEW k \in Tasks, Rejected(k)
  PROVE  ProcessorInv'
<1> USE InvParts, ProcessorAssumption DEF flagVars, rowVars
<1>1. task[k].pc = "call" /\ answer[k] = "rejected"
  BY DEF Rejected, Returned
<1>2. /\ QueueInv' /\ task' \in [Tasks -> TaskSet]
      /\ \A j \in Tasks \ {k} : task'[j] = task[j] /\ task[j].pc = "off"
      /\ draining = TRUE /\ task'[k].pc = "loop" /\ ~halted
      /\ CallsPending' /\ CallsHaveProject' /\ DrainsApart'
  BY <1>1, VisitedKeeps DEF Rejected
<1>3. FlagsOK' /\ RowsOK'
  BY DEF FlagsOK, RowsOK, Rejected
<1>4. HaltedTasks'
  BY <1>2 DEF HaltedTasks, Rejected
<1>5. NothingForgotten'
  <2>1. backlog' # {} => backlog # {}
    BY DEF Rejected
  <2>2. \A j \in Tasks : task[j].pc # "off" => task'[j].pc # "off"
    BY <1>2
  <2> QED
    BY <1>2, <2>1, <2>2 DEF NothingForgotten, Rejected
<1>6. QuietAfterStop'
  BY DEF QuietAfterStop, Rejected
<1> QED
  BY <1>2, <1>3, <1>4, <1>5, <1>6, InvPartsNext

(* The log fails: the task ends with work left. *)
LEMMA LogFailsKeeps ==
  ASSUME ProcessorInv, NEW k \in Tasks, LogFails(k)
  PROVE  ProcessorInv'
<1> USE InvParts
<1>1. task[k].pc = "call" /\ answer[k] = "rejected" /\ RowsOK'
  BY DEF LogFails, Returned, RowsOK, rowVars
<1>2. QueueStep(k) /\ ~Live(k)'
  BY <1>1, ConsumedStep DEF LogFails, CallsPending
<1> QED
  BY <1>1, <1>2, Ends DEF LogFails

(* The halt. *)
LEMMA HaltKeeps ==
  ASSUME ProcessorInv, NEW k \in Tasks, Halt(k)
  PROVE  ProcessorInv'
<1> USE InvParts, ProcessorAssumption DEF rowVars
<1>1. task[k].pc = "call" /\ answer[k] = "rejected"
  BY DEF Halt, Returned
<1> DEFINE t == [Off EXCEPT !.pc = "loop"]
<1>2. t \in TaskSet /\ t.pc = "loop" /\ t.promote = {} /\ t.replicate = {}
  BY NothingToVisit
<1>3. Does(k, t)
  BY DEF Halt
<1> HIDE DEF t
<1>4. /\ task' \in [Tasks -> TaskSet] /\ task'[k] = t
      /\ \A j \in Tasks \ {k} : task'[j] = task[j] /\ task[j].pc = "off"
      /\ draining = TRUE /\ DrainsApart'
  BY <1>1, <1>2, <1>3, GoesOn DEF Halt
<1>5. QueueStep(k) /\ ~Live(k)' /\ QueueInv'
  BY <1>1, ConsumedStep DEF Halt, CallsPending, QueueStep
<1>6. FlagsOK' /\ RowsOK'
  BY DEF Halt, ClearScheduledWork, FlagsOK, RowsOK
<1>7. CallsPending'
  BY <1>4, <1>5, CallsPendingKept
<1>8. CallsHaveProject'
  BY <1>2, <1>4 DEF CallsHaveProject
<1>9. backlog' = {} /\ queued' = {}
  BY DEF Halt, ClearScheduledWork
<1>12. HaltedTasks'
  <2>1. \A j \in Tasks \ {k} : task'[j].pc = "off"
    BY <1>4
  <2> QED
    BY <1>2, <1>4, <1>9, <2>1 DEF HaltedTasks
<1>10. NothingForgotten'
  BY <1>9 DEF NothingForgotten
<1>11. QuietAfterStop'
  BY DEF QuietAfterStop, Halt, ClearScheduledWork
<1> QED
  BY <1>4, <1>5, <1>6, <1>7, <1>8, <1>10, <1>11, <1>12, InvPartsNext

(* stopAndWait. *)
LEMMA StopKeeps ==
  ASSUME ProcessorInv, Stop
  PROVE  ProcessorInv'
<1> USE InvParts DEF rowVars
<1>1. QueueInv' /\ CallsPending'
  <2>1. CASE UNCHANGED <<line, answer>>
    BY <2>1, QueueSame DEF queueVars, Stop, CallsPending
  <2>2. ASSUME NEW k \in Tasks, Leave(k)
        PROVE  QueueInv' /\ CallsPending'
    <3>1. QueueStep(k) /\ ~Live(k)'
      BY <2>2, LeaveStep DEF Callers
    <3>2. QueueInv'
      BY <3>1 DEF QueueStep
    <3> QED
      BY <3>1, <3>2, CallsPendingKept DEF Stop
  <2> QED
    BY <2>1, <2>2 DEF Stop
<1>2. FlagsOK' /\ RowsOK' /\ task' \in [Tasks -> TaskSet]
  BY DEF Stop, ClearScheduledWork, FlagsOK, RowsOK
<1>3. CallsHaveProject' /\ DrainsApart'
  BY DEF Stop, CallsHaveProject, DrainsApart
<1>4. HaltedTasks'
  BY DEF Stop, ClearScheduledWork, HaltedTasks
<1>5. NothingForgotten'
  BY DEF Stop, ClearScheduledWork, NothingForgotten
<1>6. QuietAfterStop'
  BY DEF Stop, ClearScheduledWork, QuietAfterStop
<1> QED
  BY <1>1, <1>2, <1>3, <1>4, <1>5, <1>6, InvPartsNext

(* The publication queue goes on and requests come and go. *)
LEMMA OthersKeep ==
  ASSUME ProcessorInv, TakeTurn \/ \E r \in Requests : RequestStep(r), UNCHANGED procVars
  PROVE  ProcessorInv'
<1> USE InvParts DEF procVars, flagVars, timerVars, rowVars
<1>1. QueueInv' /\ CallsPending'
  <2>1. CASE TakeTurn
    BY <2>1, TurnStep DEF CallsPending
  <2>2. ASSUME NEW r \in Requests, RequestStep(r)
        PROVE  QueueInv' /\ CallsPending'
    <3>1. QueueStep(r)
      BY <2>2, RequestsStep
    <3>2. \A k \in Tasks : k \in Callers \ {r}
      BY QueueAssumption DEF Callers
    <3> QED
      BY <3>1, <3>2 DEF QueueStep, CallsPending
  <2> QED
    BY <2>1, <2>2
<1>2. FlagsOK' /\ RowsOK' /\ task' \in [Tasks -> TaskSet]
  BY DEF FlagsOK, RowsOK
<1>3. CallsHaveProject' /\ HaltedTasks' /\ DrainsApart' /\ NothingForgotten' /\ QuietAfterStop'
  BY DEF CallsHaveProject, HaltedTasks, DrainsApart, NothingForgotten, QuietAfterStop
<1> QED
  BY <1>1, <1>2, <1>3, InvPartsNext

-----------------------------------------------------------------------------
(* The invariant holds at the start, and every step keeps it. *)
LEMMA InitKeeps == Init => ProcessorInv
<1> SUFFICES ASSUME Init PROVE ProcessorInv
  OBVIOUS
<1> USE QueueAssumption, ProcessorAssumption, OffTask DEF Init, QueueInit
<1>1. DOMAIN line = {}
  OBVIOUS
<1>2. QueueInv /\ \A c : ~Live(c)
  BY <1>1 DEF QueueInv, QueueTypeOK, OneEntered, LiveOnce, Live
<1>3. FlagsOK /\ RowsOK /\ task \in [Tasks -> TaskSet]
  <2>1. FlagsOK /\ task \in [Tasks -> TaskSet]
    BY DEF FlagsOK
  <2>2. 0 \in 0..MaxRows
    OBVIOUS
  <2>3. RowsOK
    BY <2>2 DEF RowsOK
  <2> QED
    BY <2>1, <2>3
<1>4. CallsPending /\ CallsHaveProject /\ HaltedTasks
  BY <1>2 DEF CallsPending, CallsHaveProject, HaltedTasks
<1>5. DrainsApart /\ NothingForgotten /\ QuietAfterStop
  BY DEF DrainsApart, NothingForgotten, QuietAfterStop
<1> QED
  BY <1>2, <1>3, <1>4, <1>5, InvParts

LEMMA StepKeeps == ProcessorInv /\ [Next]_vars => ProcessorInv'
<1> SUFFICES ASSUME ProcessorInv, [Next]_vars PROVE ProcessorInv'
  OBVIOUS
<1>1. ASSUME NEW k \in Tasks, TaskStep(k)
      PROVE  ProcessorInv'
  BY <1>1, LoopKeeps, PromoteKeeps, ReplicateKeeps, RejectedKeeps, LogFailsKeeps, HaltKeeps
     DEF TaskStep
<1>2. CASE SweepTimerFires \/ SweepIntervalFires
  BY <1>2, SweepKeeps, InvParts DEF SweepTimerFires, SweepIntervalFires, FlagsOK
<1>3. CASE UNCHANGED vars
  <2>1. UNCHANGED queueVars /\ UNCHANGED procVars
    BY <1>3 DEF vars
  <2>2. QueueInv' /\ CallsPending'
    BY <2>1, InvParts, QueueSame DEF procVars, queueVars, CallsPending
  <2>3. FlagsOK' /\ RowsOK' /\ task' \in [Tasks -> TaskSet]
    BY <2>1, InvParts DEF FlagsOK, RowsOK, procVars, flagVars, timerVars, rowVars
  <2>4. CallsHaveProject' /\ HaltedTasks' /\ DrainsApart' /\ NothingForgotten' /\ QuietAfterStop'
    BY <2>1, InvParts
       DEF CallsHaveProject, HaltedTasks, DrainsApart, NothingForgotten, QuietAfterStop,
           procVars, flagVars, timerVars, rowVars
  <2> QED
    BY <2>2, <2>3, <2>4, InvPartsNext
<1> QED
  BY <1>1, <1>2, <1>3, CaptureKeeps, DebounceKeeps, FollowUpKeeps, StopKeeps, ScanKeeps,
     SettleTaskKeeps, OthersKeep DEF Next

(* At rest after stopAndWait: a task that is off has no slot in line. *)
LEMMA AtRest == ProcessorInv => RestsAfterStop
<1> SUFFICES ASSUME ProcessorInv PROVE RestsAfterStop
  OBVIOUS
<1> USE InvParts
<1>1. ASSUME waiter = "resolved", NEW k \in Tasks
      PROVE  task[k].pc = "off" /\ ~InLine(k, "waiting") /\ ~Active(k)
  <2>1. task[k].pc = "off"
    BY <1>1 DEF QuietAfterStop, DrainsApart
  <2>2. ~Live(k)
    BY <2>1 DEF CallsPending
  <2> QED
    BY <2>1, <2>2, LiveSlots DEF QueueInv
<1> QED
  BY <1>1 DEF RestsAfterStop, QuietAfterStop

(* The flags, the tasks and the line keep their types; in particular no drain
   promotes more than BatchLimit batches of a project in a row. *)
THEOREM ProcessorWellFormed == Spec => []TypeOK
<1>1. ProcessorInv => TypeOK
  BY DEF ProcessorInv
<1> QED
  BY InitKeeps, StepKeeps, <1>1, PTL DEF Spec

(* The drain of the queue, the sweep and the follow-up never overlap, and  *)
(* the flag they share tells whether one of them runs, whatever fails.     *)
THEOREM TasksApart == Spec => []DrainsApart
<1>1. ProcessorInv => DrainsApart
  BY DEF ProcessorInv
<1> QED
  BY InitKeeps, StepKeeps, <1>1, PTL DEF Spec

(* A queued project has a timer or a drain that will set one, and a backlog a
   follow-up or a task that will arm it, until the processor stops. *)
THEOREM WorkHasWakeUp == Spec => []NothingForgotten
<1>1. ProcessorInv => NothingForgotten
  BY DEF ProcessorInv
<1> QED
  BY InitKeeps, StepKeeps, <1>1, PTL DEF Spec

(* After stopAndWait has resolved no task runs, no timer is set, and no call
   of the processor is in the publication queue; a halt leaves no timer. *)
THEOREM StoppedIsAtRest == Spec => []RestsAfterStop
  BY InitKeeps, StepKeeps, AtRest, PTL DEF Spec
=============================================================================
