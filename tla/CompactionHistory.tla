------------------------- MODULE CompactionHistory -------------------------
(***************************************************************************)
(* The refinement of ConversationHistory by Compaction: expanding every    *)
(* context item down its stored links yields the conversation's history.   *)
(***************************************************************************)
EXTENDS Compaction, SequencesExt

\* The messages a summary leads to, down summary_parents and summary_messages.
Expanded(s) ==
    LET expand[t \in DOMAIN summaries] ==
          IF summaries[t].depth = 0 THEN summaries[t].sources
          ELSE FlattenSeq([n \in DOMAIN summaries[t].sources |->
                              expand[summaries[t].sources[n]]])
    IN  expand[s]

ContextMessages ==
    FlattenSeq([i \in DOMAIN context |->
                  IF IsMessage(context[i]) THEN <<context[i].id>>
                                           ELSE Expanded(context[i].id)])

History == INSTANCE ConversationHistory WITH history <- ContextMessages

\* Compaction is lossless: every step of the engine leaves the expanded
\* context as it was, and an ingested message appears at its end.
Lossless == History!HistorySpec
=============================================================================
