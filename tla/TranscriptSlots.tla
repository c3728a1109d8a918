--------------------------- MODULE TranscriptSlots ---------------------------
(***************************************************************************)
(* Which messages of a client's transcript are stored.  A client sends the *)
(* whole list each time, in any order of lengths and as often as it likes; *)
(* the daemon must store each message once.  It keeps no cursor: the next  *)
(* index is counted from the rows of the session.  Rows that record        *)
(* compaction passes stand among them, and whether such an event took an   *)
(* index of the list is said by a slot marker.  Before markers existed the *)
(* daemon counted events as if they were messages, and so lost one message *)
(* for each event that a later message followed.                           *)
(*                                                                         *)
(* A message is its index in the client's list.  Ingestion and the write   *)
(* of an event are one transaction each, serialized by the session's lock. *)
(***************************************************************************)
EXTENDS Integers, Sequences, FiniteSets

CONSTANTS MaxList,   \* bound: length of the client's list
          MaxRows    \* bound: rows of the session when an event is written

ASSUME BoundsAssumption == MaxList \in Nat /\ MaxRows \in Nat

VARIABLES
    rows,      \* the session's messages, in session order
    current,   \* the daemon has slot markers; before, it had none
    lost,      \* history: messages skipped before there were markers
    answered   \* history: the longest list the current daemon was given

vars == <<rows, current, lost, answered>>

Message(m) == [kind |-> "transcript", index |-> m, markers |-> {}]
Event(markers) == [kind |-> "event", index |-> 0, markers |-> markers]

Init == rows = <<>> /\ current = FALSE /\ lost = {} /\ answered = 0

-----------------------------------------------------------------------------
TranscriptRows == {i \in DOMAIN rows : rows[i].kind = "transcript"}
EventRows == {i \in DOMAIN rows : rows[i].kind = "event"}

Stored == {rows[i].index : i \in TranscriptRows}

followedByTranscript(i) == \E j \in TranscriptRows : j > i

\* The marker decides; an event without one has the slot that the daemon of
\* its time gave it.
Consumed(i) ==
    IF rows[i].markers # {} THEN TRUE \in rows[i].markers
                            ELSE followedByTranscript(i)

transcriptCount == Cardinality(TranscriptRows)

\* Fault: events that took an index are not counted.
consumedCountNone == 0

consumedCount == Cardinality({i \in EventRows : Consumed(i)})

\* Fault: the adopted slot is used and not written down.
AdoptedUnwritten == rows

\* Fault: every event is adopted again, whether or not it has a marker.
AdoptedAgain ==
    [i \in DOMAIN rows |->
        IF i \in EventRows
          THEN [rows[i] EXCEPT !.markers = @ \cup {followedByTranscript(i)}]
          ELSE rows[i]]

\* Events without a marker get the one that records their slot.
Adopted ==
    [i \in DOMAIN rows |->
        IF i \in EventRows /\ rows[i].markers = {}
          THEN [rows[i] EXCEPT !.markers = {Consumed(i)}] ELSE rows[i]]

\* The rows of a list of n messages from its index `next` on.
Slice(n, next) == [k \in 1..(n - next) |-> Message(next + k)]

\* prepareSessionTranscript and appendTranscriptMessages for a list of n.
appendSessionTranscript(n) ==
    /\ current
    /\ rows' = Adopted \o Slice(n, transcriptCount + consumedCount)
    /\ answered' = IF n > answered THEN n ELSE answered
    /\ UNCHANGED <<current, lost>>

\* Fault: an event is born with an index of the list, as it once was.
persistConsumingEvent ==
    /\ current
    /\ Len(rows) < MaxRows
    /\ rows' = Append(rows, Event({TRUE}))
    /\ UNCHANGED <<current, lost, answered>>

\* The event of a compaction pass is born with no index of the list.
persistCompactionEvent ==
    /\ current
    /\ Len(rows) < MaxRows
    /\ rows' = Append(rows, Event({FALSE}))
    /\ UNCHANGED <<current, lost, answered>>

-----------------------------------------------------------------------------
(* The daemon before slot markers: every row counted as a message.         *)

LegacyIngest(n) ==
    /\ ~current
    /\ n > Len(rows)
    /\ rows' = rows \o Slice(n, Len(rows))
    /\ lost' = (1..Len(rows)) \ Stored
    /\ UNCHANGED <<current, answered>>

LegacyEvent ==
    /\ ~current
    /\ Len(rows) < MaxRows
    /\ rows' = Append(rows, Event({}))
    /\ UNCHANGED <<current, lost, answered>>

Upgrade ==
    /\ ~current
    /\ current' = TRUE
    /\ UNCHANGED <<rows, lost, answered>>

-----------------------------------------------------------------------------
Next ==
    \/ \E n \in 1..MaxList : appendSessionTranscript(n) \/ LegacyIngest(n)
    \/ persistCompactionEvent
    \/ LegacyEvent
    \/ Upgrade

Spec == Init /\ [][Next]_vars

-----------------------------------------------------------------------------
(* Properties.                                                             *)

\* Types, and no event ever has two markers that contradict each other, on
\* which prepareSessionTranscript throws.
TypeOK ==
    /\ rows \in Seq([kind : {"transcript", "event"}, index : Nat,
                     markers : {{}, {TRUE}, {FALSE}}])
    /\ current \in BOOLEAN
    /\ lost \subseteq Nat
    /\ answered \in Nat

\* Messages are stored once and in the order of the client's list, though it
\* is sent again and again and older, shorter lists come late.
StoredOnce ==
    \A i, j \in TranscriptRows : i < j => rows[i].index < rows[j].index

\* Once the daemon has markers no message is skipped: it stores all of every
\* list it is given, but for what was lost before.
NothingSkipped == 1..answered \subseteq Stored \cup lost

\* An event's slot is decided for good: messages that come after an event
\* which took no index do not make it take one.
SlotsStable ==
    [][current => \A i \in EventRows : i \in EventRows' /\ Consumed(i)' = Consumed(i)]_vars
=============================================================================
