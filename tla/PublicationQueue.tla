--------------------------- MODULE PublicationQueue ---------------------------
(***************************************************************************)
(* The daemon's publication queue (createPublicationQueue): a promise      *)
(* chain that lets one operation at a time take the lock of the home.  A   *)
(* slot is kept until its turn even when its caller has given up, an       *)
(* operation that was entered is no longer taken from the queue, and one   *)
(* that asks for admission from inside its own admission is refused.       *)
(***************************************************************************)
EXTENDS Naturals, Sequences

CONSTANTS
    Requests,    \* routes that ask for admission, again and again
    Tasks,       \* background callers
    MaxSlots     \* bound: slots in line when a request asks

ASSUME QueueAssumption == Requests \cap Tasks = {} /\ MaxSlots \in Nat

VARIABLES
    line,        \* the slots whose promises are not settled, in order
    answer       \* what became of the last admission each caller asked for

queueVars == <<line, answer>>

Callers == Requests \cup Tasks
Slots == [who : Callers, state : {"waiting", "left", "running"}]

QueueTypeOK ==
    /\ line \in Seq(Slots)
    /\ answer \in [Callers -> {"none", "pending", "resolved", "rejected"}]

QueueInit == line = <<>> /\ answer = [c \in Callers |-> "none"]

Answered(c, a) == answer' = [answer EXCEPT ![c] = a]
InLine(c, state) == \E i \in DOMAIN line : line[i] = [who |-> c, state |-> state]
Marked(c, from, to) ==
    [i \in DOMAIN line |-> IF line[i] = [who |-> c, state |-> from]
                           THEN [who |-> c, state |-> to] ELSE line[i]]

-----------------------------------------------------------------------------
\* An operation of c was entered and has not settled.
Active(c) == InLine(c, "running")

\* Fault: an operation may wait for an admission of its own.
Never(c) == FALSE

\* The asynchronous context of the caller is that of an active operation.
Nested(c) == Active(c)

\* aborted: the signal of the caller has fired already.
Ask(c, aborted) ==
    /\ ~InLine(c, "waiting")
    /\ \/ /\ Nested(c)                     \* the operation fails
          /\ line' = Tail(line) /\ Answered(c, "rejected")
       \/ /\ ~Nested(c) /\ aborted
          /\ Answered(c, "rejected") /\ UNCHANGED line
       \/ /\ ~Nested(c) /\ ~aborted
          /\ line' = Append(line, [who |-> c, state |-> "waiting"])
          /\ Answered(c, "pending")

\* Fault: an abort is noticed only at the slot's turn.
LeaveLater(c) ==
    /\ InLine(c, "waiting")
    /\ UNCHANGED <<line, answer>>

\* An abort rejects the result at once; the slot stays in line.
Leave(c) ==
    /\ InLine(c, "waiting")
    /\ line' = Marked(c, "waiting", "left")
    /\ Answered(c, "rejected")

\* The head of the line is entered, or skipped when its caller has left.
TakeTurn ==
    /\ line # <<>>
    /\ \/ /\ Head(line).state = "waiting"
          /\ line' = Marked(Head(line).who, "waiting", "running")
       \/ Head(line).state = "left" /\ line' = Tail(line)
    /\ UNCHANGED answer

\* An operation ends, unless it waits for something it asked for.
Settle(c) ==
    /\ Active(c) /\ ~InLine(c, "waiting")
    /\ line' = Tail(line)
    /\ \E a \in {"resolved", "rejected"} : Answered(c, a)

\* What the requests do: they ask, from inside an operation too, they are
\* aborted, and their operations end.
RequestStep(r) ==
    \/ answer[r] # "pending" /\ Len(line) < MaxSlots /\ Ask(r, FALSE)
    \/ Active(r) /\ Ask(r, FALSE)
    \/ Leave(r)
    \/ Settle(r)
=============================================================================
