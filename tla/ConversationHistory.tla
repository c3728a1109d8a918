------------------------ MODULE ConversationHistory ------------------------
(***************************************************************************)
(* What the store promises of a conversation: a list of transcript         *)
(* messages to which messages are added at the end, and nothing else ever  *)
(* happens.  Compaction changes how the list is held, never the list.      *)
(***************************************************************************)
EXTENDS Naturals, Sequences

VARIABLE history   \* the transcript message ids, in order

HistoryInit == history = <<>>

\* A new message goes to the end and has a larger id than those before it.
Extend ==
    /\ Len(history') = Len(history) + 1
    /\ SubSeq(history', 1, Len(history)) = history
    /\ \A i \in DOMAIN history : history[i] < history'[Len(history')]

HistorySpec == HistoryInit /\ [][Extend]_history
=============================================================================
