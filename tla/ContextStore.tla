---------------------------- MODULE ContextStore ----------------------------
(***************************************************************************)
(* The durable state of one conversation: its messages, its summaries, and *)
(* the ordered context list that says what the model sees.                 *)
(*                                                                         *)
(* A message or summary id is its position in `messages` or `summaries`:   *)
(* both tables only grow.  An ordinal of the code's context_items table is *)
(* a position of `context` minus one; the table's ordinals are always      *)
(* 0..n-1, so a sequence says the same.  Message ids also stand for        *)
(* created_at, the clock the code derives earliestAt and latestAt from.    *)
(***************************************************************************)
EXTENDS Integers, Sequences, FiniteSetsExt

VARIABLES messages,   \* table messages: a sequence of [kind, tokens]
          context,    \* table context_items: a sequence of [type, id]
          summaries   \* tables summaries, summary_messages, summary_parents

storeVars == <<messages, context, summaries>>

(***************************************************************************)
(* Rows.  An "event" message records a compaction pass; it belongs to the  *)
(* history and is never put in the context list.                           *)
(***************************************************************************)
MessageRow == [kind : {"transcript", "event"}, tokens : Nat]
ContextItem == [type : {"message", "summary"}, id : Nat]
SummaryRow == [depth : Nat, sources : Seq(Nat), tokens : Nat,
               earliest : Nat, latest : Nat,
               descendantCount : Nat, sourceTokens : Nat]

MessageItem(m) == [type |-> "message", id |-> m]
SummaryItem(s) == [type |-> "summary", id |-> s]

IsMessage(item) == item.type = "message"
IsSummary(item) == item.type = "summary"

Transcript == {m \in DOMAIN messages : messages[m].kind = "transcript"}

StoreInit ==
    /\ messages = <<>>
    /\ context = <<>>
    /\ summaries = <<>>

-----------------------------------------------------------------------------
(* Reads.                                                                  *)

ItemTokens(item) ==
    IF IsMessage(item) THEN messages[item.id].tokens
                       ELSE summaries[item.id].tokens

\* Tokens of the context items at positions a..b.
RangeTokens(a, b) ==
    MapThenSumSet(LAMBDA i : ItemTokens(context[i]), a..b)

getContextTokenCount == RangeTokens(1, Len(context))

\* First and last message an item stands for: earliestAt and latestAt.
Earliest(item) ==
    IF IsMessage(item) THEN item.id ELSE summaries[item.id].earliest
Latest(item) ==
    IF IsMessage(item) THEN item.id ELSE summaries[item.id].latest

-----------------------------------------------------------------------------
(* Writes.  Each is one transaction or part of one.                        *)

\* Fault: a message ingested at the head of the list shifts every ordinal.
appendTranscriptMessageAtHead(tokens) ==
    /\ messages' = Append(messages, [kind |-> "transcript", tokens |-> tokens])
    /\ context' = <<MessageItem(Len(messages) + 1)>> \o context
    /\ UNCHANGED summaries

\* One transcript row, stored and put at the end of the context list.
appendTranscriptMessage(tokens) ==
    /\ messages' = Append(messages, [kind |-> "transcript", tokens |-> tokens])
    /\ context' = Append(context, MessageItem(Len(messages) + 1))
    /\ UNCHANGED summaries

\* A history row that no context item refers to.
appendEventMessage(tokens) ==
    /\ messages' = Append(messages, [kind |-> "event", tokens |-> tokens])
    /\ UNCHANGED <<context, summaries>>

\* Fault: the delete takes ordinals below `last` and leaves the last one.
RangeReplacedButLast(first, last, item) ==
    [i \in 1..(Len(context) - (last - first) + 1) |->
        IF i < first THEN context[i]
        ELSE IF i = first THEN item
        ELSE context[i + (last - first) - 1]]

\* Delete the items at first..last, put `item` in their place, close the gap.
RangeReplaced(first, last, item) ==
    [i \in 1..(Len(context) - (last - first)) |->
        IF i < first THEN context[i]
        ELSE IF i = first THEN item
        ELSE context[i + (last - first)]]

\* replaceContextRangeWithSummary when its range no longer fits the list, the
\* PostgreSQL adapter rejects it.  (The range of a lone writer always fits.)
RangeExists(first, last) == first <= last /\ last <= Len(context)

\* Fault: the summary is stored and the context change is not made.
replaceContextRangeSkipped(first, last, s) ==
    /\ RangeExists(first, last)
    /\ UNCHANGED context

replaceContextRangeWithSummary(first, last, s) ==
    /\ RangeExists(first, last)
    /\ context' = RangeReplaced(first, last, SummaryItem(s))

insertSummary(row) == summaries' = Append(summaries, row)

-----------------------------------------------------------------------------
StoreTypeOK ==
    /\ messages \in Seq(MessageRow)
    /\ context \in Seq(ContextItem)
    /\ summaries \in Seq(SummaryRow)
=============================================================================
