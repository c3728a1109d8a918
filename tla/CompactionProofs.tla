-------------------------- MODULE CompactionProofs --------------------------
(***************************************************************************)
(* For any number of messages, passes and runs, and any configuration.     *)
(*                                                                         *)
(* With one daemon, the context list and the summary lineage account for   *)
(* every transcript message, a pass commits what it selected, the fresh    *)
(* tail stays raw, no summary is orphaned or used twice, the counters of a *)
(* summary count nothing twice, and expanding the context gives back the   *)
(* transcript: compaction implements the conversation's history.  With any *)
(* number of daemons, rows and the engine's own state keep their types.    *)
(*                                                                         *)
(* Three of these speak of sums over sets of positions and of what is      *)
(* reached along links.  These are recursive functions; what they compute  *)
(* is proved by induction on sets of sets and on sets of numbers, which    *)
(* the well-foundedness theorems of the library give.                      *)
(***************************************************************************)
EXTENDS CompactionHistory, SequenceTheorems, FiniteSetTheorems,
        WellFoundedInduction, TLAPS

-----------------------------------------------------------------------------
(* The inductive invariant.                                                *)

\* The tables are sequences.  A summary's counters are sums, of which nothing
\* is said, so the set of its rows is its own range.
StoreShape ==
    /\ messages \in Seq(MessageRow)
    /\ context \in Seq(ContextItem)
    /\ summaries \in Seq({summaries[s] : s \in DOMAIN summaries})

\* Every summary has a depth and a non-empty range of stored messages.
SummariesValid ==
    \A s \in DOMAIN summaries :
        /\ summaries[s].depth \in Nat
        /\ summaries[s].earliest \in DOMAIN messages
        /\ summaries[s].latest \in DOMAIN messages

\* Every context item refers to a transcript message or a summary.
ReferencesValid ==
    \A i \in DOMAIN context :
        IF IsMessage(context[i]) THEN context[i].id \in Transcript
                                 ELSE context[i].id \in DOMAIN summaries

\* There is a program counter and a job for every daemon.
Control == DOMAIN pc = Daemons /\ DOMAIN job = Daemons

IInv ==
    /\ StoreShape
    /\ SummariesValid
    /\ ReferencesValid
    /\ Control
    /\ ContextTiles
    /\ LineageTiles
    /\ ChunkFresh

\* A single process has the store: what compactingNow guards.
OneDaemon == \A d, e \in Daemons : d = e

-----------------------------------------------------------------------------
(* Appending to a table.                                                   *)

\* A sequence is a sequence over its own range.
LEMMA SeqOverRange ==
    ASSUME NEW T, NEW s \in Seq(T)
    PROVE  s \in Seq({s[i] : i \in DOMAIN s})
<1> DEFINE R == {s[i] : i \in DOMAIN s}
<1>1. Len(s) \in Nat /\ DOMAIN s = 1..Len(s)
  BY LenProperties
<1>2. \A i \in 1..Len(s) : s[i] \in R
  BY <1>1
<1>3. s = [i \in 1..Len(s) |-> s[i]]
  BY <1>1
<1> QED
  BY <1>1, <1>2, <1>3, IsASeq

\* A row appended to a table of any rows leaves the earlier rows in place.
LEMMA AppendRow ==
    ASSUME NEW T, NEW s \in Seq(T), NEW row
    PROVE  /\ Append(s, row) \in Seq(T \cup {row})
           /\ Len(s) \in Nat /\ DOMAIN s = 1..Len(s)
           /\ Len(Append(s, row)) = Len(s) + 1
           /\ DOMAIN Append(s, row) = 1..(Len(s) + 1)
           /\ \A i \in DOMAIN s : Append(s, row)[i] = s[i]
           /\ Append(s, row)[Len(s) + 1] = row
<1>1. Len(s) \in Nat /\ DOMAIN s = 1..Len(s) /\ s \in [1..Len(s) -> T]
  BY LenProperties
<1>2. s \in Seq(T \cup {row})
  <2>1. \A i \in 1..Len(s) : s[i] \in T \cup {row}
    BY <1>1
  <2>2. s = [i \in 1..Len(s) |-> s[i]]
    BY <1>1
  <2> QED BY <1>1, <2>1, <2>2, IsASeq
<1>3. /\ Append(s, row) \in Seq(T \cup {row})
      /\ Len(Append(s, row)) = Len(s) + 1
      /\ \A i \in 1..Len(s) : Append(s, row)[i] = s[i]
      /\ Append(s, row)[Len(s) + 1] = row
  BY <1>2, AppendProperties
<1>4. DOMAIN Append(s, row) = 1..(Len(s) + 1)
  BY <1>3, LenProperties
<1> QED BY <1>1, <1>3, <1>4

-----------------------------------------------------------------------------
(* What the store says does not change when the store does not.            *)

StoreInv ==
    /\ StoreShape
    /\ SummariesValid
    /\ ReferencesValid
    /\ ContextTiles
    /\ LineageTiles

\* The lineage depends on the summaries and on the transcript alone.
LEMMA LineageKept ==
    ASSUME LineageTiles, summaries' = summaries, Transcript' = Transcript
    PROVE  LineageTiles'
<1>1. \A s : InSpan(s)' = InSpan(s) /\ SourceIds(s)' = SourceIds(s)
  BY DEF InSpan, SourceIds
<1>2. ASSUME NEW s \in DOMAIN summaries, summaries[s].depth = 0
      PROVE  LeafLineage(s)'
  BY <1>1, <1>2 DEF LineageTiles, LeafLineage
<1>3. ASSUME NEW s \in DOMAIN summaries, summaries[s].depth # 0
      PROVE  CondensedLineage(s)'
  BY <1>1, <1>3 DEF LineageTiles, CondensedLineage
<1> QED
  BY <1>2, <1>3 DEF LineageTiles

LEMMA StoreStutter ==
    ASSUME StoreInv, UNCHANGED storeVars
    PROVE  StoreInv'
<1>1. messages' = messages /\ context' = context /\ summaries' = summaries
  BY DEF storeVars
<1>2. Transcript' = Transcript
  BY <1>1 DEF Transcript
<1>3. StoreShape' /\ SummariesValid' /\ ReferencesValid' /\ ContextTiles'
  BY <1>1, <1>2 DEF StoreInv, StoreShape, SummariesValid, ReferencesValid,
                    ContextTiles, Earliest, Latest, IsMessage
<1> QED
  BY <1>1, <1>2, <1>3, LineageKept DEF StoreInv

\* A chunk stays fresh while its run only moves among the steps before the
\* commit, and there is nothing to keep fresh when it has left them.
LEMMA ChunkStutter ==
    ASSUME OneDaemon, Control, ChunkFresh, UNCHANGED storeVars,
           NEW d \in Daemons, DOMAIN pc' = Daemons,
           ~Busy(d)' \/ (Busy(d) /\ job' = job)
    PROVE  ChunkFresh'
  BY DEF OneDaemon, Control, ChunkFresh, FreshChunk, Busy, storeVars, AtDepth,
         IsMessage, IsSummary

\* The oldest chunk, of raw messages or of summaries of one depth, is a
\* range of the context made of such items.
LEMMA OldestChunk ==
    ASSUME StoreShape, NEW first \in DOMAIN context, NEW last \in DOMAIN context
    PROVE  /\ selectOldestLeafChunk(first, last) =>
                /\ first <= last
                /\ \A i \in first..last : IsMessage(context[i])
           /\ \A depth : selectOldestChunkAtDepth(depth, first, last) =>
                /\ first <= last
                /\ \A i \in first..last : AtDepth(i, depth)
<1>1. DOMAIN context = 1..Len(context) /\ Len(context) \in Nat
  BY LenProperties DEF StoreShape
<1>2. \A i \in first..last : i \in 1..last /\ i >= first
  BY <1>1
<1> QED
  BY <1>1, <1>2 DEF selectOldestLeafChunk, selectOldestChunkAtDepth,
                    IsOldestChunk

LEMMA SelectLeafKeeps ==
    ASSUME OneDaemon, IInv, NEW d \in Daemons, SelectLeaf(d)
    PROVE  IInv'
<1>1. PICK first, last \in DOMAIN context :
         /\ selectOldestLeafChunk(first, last)
         /\ job' = [job EXCEPT ![d] = Chunk("leaf", 0, first, last)]
  BY DEF SelectLeaf
<1>2. /\ UNCHANGED storeVars
      /\ DOMAIN pc' = Daemons /\ DOMAIN job' = Daemons
      /\ job'[d] = Chunk("leaf", 0, first, last)
  BY <1>1 DEF SelectLeaf, Goto, IInv, Control
<1>3. StoreInv'
  BY <1>2, StoreStutter DEF IInv, StoreInv
<1>4. /\ first <= last
      /\ \A i \in first..last : IsMessage(context[i])
  BY <1>1, OldestChunk DEF IInv
<1>5. FreshChunk(job[d])'
  BY <1>2, <1>4 DEF FreshChunk, Chunk, IsMessage, storeVars
<1>6. ChunkFresh'
  BY <1>5 DEF OneDaemon, ChunkFresh
<1> QED
  BY <1>2, <1>3, <1>6 DEF IInv, StoreInv, Control

LEMMA SelectCondensedKeeps ==
    ASSUME OneDaemon, IInv, NEW d \in Daemons, SelectCondensed(d)
    PROVE  IInv'
<1>1. PICK depth \in DepthsOutsideFreshTail, first, last \in DOMAIN context :
         /\ IsCondensedChoice(d, depth, first, last)
         /\ job' = [job EXCEPT ![d] = Chunk("condensed", depth, first, last)]
  BY DEF SelectCondensed
<1>2. /\ UNCHANGED storeVars
      /\ DOMAIN pc' = Daemons /\ DOMAIN job' = Daemons
      /\ job'[d] = Chunk("condensed", depth, first, last)
  BY <1>1 DEF SelectCondensed, Goto, IInv, Control
<1>3. StoreInv'
  BY <1>2, StoreStutter DEF IInv, StoreInv
<1>4. selectOldestChunkAtDepth(depth, first, last)
  BY <1>1 DEF IsCondensedChoice, IsShallowestCandidate, IsCandidate
<1>5. /\ first <= last
      /\ \A i \in first..last : AtDepth(i, depth)
  BY <1>4, OldestChunk DEF IInv
<1>6. FreshChunk(job[d])'
  BY <1>2, <1>5 DEF FreshChunk, Chunk, AtDepth, IsSummary, storeVars
<1>7. ChunkFresh'
  BY <1>6 DEF OneDaemon, ChunkFresh
<1> QED
  BY <1>2, <1>3, <1>7 DEF IInv, StoreInv, Control

-----------------------------------------------------------------------------
(* Appending a message.                                                    *)

\* An event row changes neither the transcript nor what any item stands for.
LEMMA EventStore ==
    ASSUME StoreInv, appendEventMessage(EventTokens)
    PROVE  StoreInv'
<1> DEFINE row == [kind |-> "event", tokens |-> EventTokens]
<1>1. /\ messages' = Append(messages, row)
      /\ UNCHANGED <<context, summaries>>
  BY DEF appendEventMessage
<1>2. /\ Len(messages) \in Nat /\ DOMAIN messages = 1..Len(messages)
      /\ DOMAIN messages' = 1..(Len(messages) + 1)
      /\ \A m \in DOMAIN messages : messages'[m] = messages[m]
      /\ messages'[Len(messages) + 1] = row
  BY <1>1, AppendRow DEF StoreInv, StoreShape
<1>3. messages' \in Seq(MessageRow)
  BY <1>1, AppendProperties, ConfigAssumption DEF StoreInv, StoreShape, MessageRow
<1>4. Transcript' = Transcript
  BY <1>2 DEF Transcript
<1>5. StoreShape'
  BY <1>1, <1>3 DEF StoreInv, StoreShape
<1>6. SummariesValid' /\ ReferencesValid'
  BY <1>1, <1>2, <1>4 DEF StoreInv, SummariesValid, ReferencesValid, IsMessage
<1>7. ContextTiles'
  BY <1>1, <1>4 DEF StoreInv, ContextTiles, Earliest, Latest, IsMessage
<1>8. LineageTiles'
  BY <1>1, <1>4, LineageKept DEF StoreInv
<1> QED
  BY <1>5, <1>6, <1>7, <1>8 DEF StoreInv

\* A chunk's positions and items are not touched by an append behind them.
LEMMA ChunkAppend ==
    ASSUME StoreInv, ChunkFresh, NEW item,
           context' = Append(context, item), summaries' = summaries,
           pc' = pc, job' = job
    PROVE  ChunkFresh'
<1>1. /\ Len(context) \in Nat
      /\ DOMAIN context = 1..Len(context)
      /\ DOMAIN context' = 1..(Len(context) + 1)
      /\ \A i \in DOMAIN context : context'[i] = context[i]
  BY AppendRow DEF StoreInv, StoreShape
<1>2. ASSUME NEW d \in Daemons, Busy(d)
      PROVE  FreshChunk(job[d])'
  <2>1. FreshChunk(job[d])
    BY <1>2 DEF ChunkFresh
  <2>2. job[d].first \in DOMAIN context /\ job[d].last \in DOMAIN context
    BY <2>1 DEF FreshChunk
  <2>3. \A i \in job[d].first..job[d].last : context'[i] = context[i]
    BY <1>1, <2>2
  <2> QED
    BY <1>1, <2>1, <2>2, <2>3 DEF FreshChunk, IsMessage, IsSummary, AtDepth
<1> QED
  BY <1>2 DEF ChunkFresh, Busy

\* A new transcript message comes after everything the context stands for.
LEMMA IngestKeeps ==
    ASSUME IInv, NEW tokens \in MessageTokens, Ingest(tokens)
    PROVE  IInv'
<1> DEFINE row == [kind |-> "transcript", tokens |-> tokens]
           new == Len(messages) + 1
<1>1. /\ messages' = Append(messages, row)
      /\ context' = Append(context, MessageItem(new))
      /\ UNCHANGED <<summaries, pc, job>>
  BY DEF Ingest, appendTranscriptMessage
<1>2. /\ Len(messages) \in Nat /\ DOMAIN messages = 1..Len(messages)
      /\ DOMAIN messages' = 1..new
      /\ \A m \in DOMAIN messages : messages'[m] = messages[m]
      /\ messages'[new] = row
  BY <1>1, AppendRow DEF IInv, StoreShape
<1>3. PICK n : /\ n \in Nat /\ DOMAIN context = 1..(n - 1)
               /\ n >= 1 /\ DOMAIN context' = 1..n
               /\ \A i \in DOMAIN context : context'[i] = context[i]
               /\ context'[n] = MessageItem(new)
  <2>1. /\ Len(context) \in Nat /\ DOMAIN context = 1..Len(context)
        /\ DOMAIN context' = 1..(Len(context) + 1)
        /\ \A i \in DOMAIN context : context'[i] = context[i]
        /\ context'[Len(context) + 1] = MessageItem(new)
    BY <1>1, AppendRow DEF IInv, StoreShape
  <2> QED BY <2>1
<1>4. Transcript' = Transcript \cup {new}
  BY <1>2 DEF Transcript
<1>5. StoreShape'
  <2>1. row \in MessageRow /\ MessageItem(new) \in ContextItem
    BY <1>2, ConfigAssumption DEF MessageRow, ContextItem, MessageItem
  <2> QED BY <1>1, <2>1, AppendProperties DEF IInv, StoreShape
<1>6. SummariesValid' /\ ReferencesValid'
  BY <1>1, <1>2, <1>3, <1>4
     DEF IInv, SummariesValid, ReferencesValid, IsMessage, MessageItem
<1>7. \A i \in DOMAIN context :
         /\ Earliest(context[i])' = Earliest(context[i])
         /\ Latest(context[i])' = Latest(context[i])
         /\ Earliest(context[i]) \in DOMAIN messages
         /\ Latest(context[i]) \in DOMAIN messages
  BY <1>1, <1>3 DEF IInv, ReferencesValid, SummariesValid, Earliest, Latest,
                    IsMessage, Transcript
<1>8. Earliest(context[n])' = new /\ Latest(context[n])' = new
  BY <1>3 DEF Earliest, Latest, IsMessage, MessageItem
<1>9. ContextTiles'
  <2>1. ASSUME NEW i \in DOMAIN context', NEW j \in DOMAIN context', i < j
        PROVE  Latest(context[i])' < Earliest(context[j])'
    BY <1>2, <1>3, <1>7, <1>8, <2>1 DEF IInv, ContextTiles
  <2>2. ASSUME NEW m \in Transcript'
        PROVE  \E i \in DOMAIN context' :
                  Earliest(context[i])' <= m /\ m <= Latest(context[i])'
    <3>1. CASE m = new
      <4>1. n \in DOMAIN context' /\ new <= new
        BY <1>2, <1>3
      <4> QED BY <1>8, <3>1, <4>1
    <3>2. CASE m \in Transcript
      <4>1. PICK i \in DOMAIN context :
               Earliest(context[i]) <= m /\ m <= Latest(context[i])
        BY <3>2 DEF IInv, ContextTiles
      <4>2. i \in DOMAIN context'
        BY <1>3
      <4> QED BY <1>7, <4>1, <4>2
    <3> QED BY <1>4, <3>1, <3>2
  <2> QED BY <2>1, <2>2 DEF ContextTiles
<1>10. LineageTiles'
  <2>1. ASSUME NEW s \in DOMAIN summaries
        PROVE  InSpan(s)' = InSpan(s) /\ SourceIds(s)' = SourceIds(s)
    BY <1>1, <1>2, <1>4 DEF InSpan, SourceIds, IInv, SummariesValid
  <2>2. ASSUME NEW s \in DOMAIN summaries, summaries[s].depth = 0
        PROVE  LeafLineage(s)'
    BY <2>1, <2>2 DEF IInv, LineageTiles, LeafLineage
  <2>3. ASSUME NEW s \in DOMAIN summaries, summaries[s].depth # 0
        PROVE  CondensedLineage(s)'
    <3>1. SourceIds(s) \subseteq DOMAIN summaries
      <4>1. Len(summaries) \in Nat /\ DOMAIN summaries = 1..Len(summaries)
        BY LenProperties DEF IInv, StoreShape
      <4> QED BY <4>1, <2>3 DEF IInv, LineageTiles, CondensedLineage
    <3> QED BY <1>1, <2>1, <2>3, <3>1 DEF IInv, LineageTiles, CondensedLineage
  <2> QED BY <1>1, <2>2, <2>3 DEF LineageTiles
<1>11. Control' /\ ChunkFresh'
  BY <1>1, ChunkAppend DEF IInv, StoreInv, Control
<1> QED
  BY <1>5, <1>6, <1>9, <1>10, <1>11 DEF IInv

-----------------------------------------------------------------------------
(* Committing a pass.                                                      *)

\* A transcript message within the span of a chunk belongs to an item of the
\* chunk: an item before it ends before its first message, one after it
\* starts after its last.
LEMMA SpanCovered ==
    ASSUME IInv, NEW j, FreshChunk(j),
           NEW earliest \in DOMAIN messages, NEW latest \in DOMAIN messages,
           Spans(j, earliest, latest),
           NEW m \in Transcript, earliest <= m, m <= latest
    PROVE  \E i \in j.first..j.last :
              Earliest(context[i]) <= m /\ m <= Latest(context[i])
<1>1. /\ Len(context) \in Nat /\ DOMAIN context = 1..Len(context)
      /\ Len(messages) \in Nat /\ DOMAIN messages = 1..Len(messages)
  BY LenProperties DEF IInv, StoreShape
<1>2. /\ j.first \in DOMAIN context /\ j.last \in DOMAIN context
      /\ \A i \in j.first..j.last : j.items[i] = context[i]
  BY DEF FreshChunk
<1>3. PICK i \in DOMAIN context :
         Earliest(context[i]) <= m /\ m <= Latest(context[i])
  BY DEF IInv, ContextTiles
<1>4. \A k \in DOMAIN context : /\ Earliest(context[k]) \in DOMAIN messages
                                /\ Latest(context[k]) \in DOMAIN messages
  BY DEF IInv, ReferencesValid, SummariesValid, Earliest, Latest, IsMessage,
         Transcript
<1>5. PICK a \in j.first..j.last : earliest = Earliest(context[a])
  BY <1>2 DEF Spans
<1>6. PICK b \in j.first..j.last : latest = Latest(context[b])
  BY <1>2 DEF Spans
<1>7. a \in DOMAIN context /\ b \in DOMAIN context /\ m \in 1..Len(messages)
  BY <1>1, <1>2 DEF Transcript
<1>8. ~(i < j.first)
  <2> SUFFICES ASSUME i < j.first PROVE FALSE
    OBVIOUS
  <2>1. i < a
    BY <1>1, <1>2, <1>5
  <2>2. Latest(context[i]) < Earliest(context[a])
    BY <1>7, <2>1 DEF IInv, ContextTiles
  <2> QED BY <1>1, <1>3, <1>4, <1>5, <1>7, <2>2
<1>9. ~(i > j.last)
  <2> SUFFICES ASSUME i > j.last PROVE FALSE
    OBVIOUS
  <2>1. b < i
    BY <1>1, <1>2, <1>6
  <2>2. Latest(context[b]) < Earliest(context[i])
    BY <1>7, <2>1 DEF IInv, ContextTiles
  <2> QED BY <1>1, <1>3, <1>4, <1>6, <1>7, <2>2
<1> QED
  BY <1>1, <1>2, <1>3, <1>8, <1>9

\* The links of the new summary name the items of its chunk.
LEMMA NewSources ==
    ASSUME IInv, NEW j, FreshChunk(j)
    PROVE  {Sources(j)[n] : n \in DOMAIN Sources(j)} =
              {context[i].id : i \in j.first..j.last}
<1>1. Len(context) \in Nat /\ DOMAIN context = 1..Len(context)
  BY LenProperties DEF IInv, StoreShape
<1>2. /\ j.first \in DOMAIN context /\ j.last \in DOMAIN context
      /\ j.first <= j.last
      /\ \A i \in j.first..j.last : j.items[i] = context[i]
  BY DEF FreshChunk
<1>3. j.first \in Nat /\ j.last \in Nat
  BY <1>1, <1>2
<1>4. ASSUME NEW n \in DOMAIN Sources(j)
      PROVE  \E i \in j.first..j.last : Sources(j)[n] = context[i].id
  <2>1. n \in 1..(j.last - j.first + 1)
    BY DEF Sources
  <2>2. j.first + n - 1 \in j.first..j.last
    <3>1. \A a, b \in Nat : \A x \in 1..(b - a + 1) : a + x - 1 \in a..b
      OBVIOUS
    <3> QED BY <1>3, <2>1, <3>1
  <2>3. Sources(j)[n] = context[j.first + n - 1].id
    BY <1>2, <2>1, <2>2 DEF Sources
  <2> QED BY <2>2, <2>3
<1>5. ASSUME NEW i \in j.first..j.last
      PROVE  \E n \in DOMAIN Sources(j) : Sources(j)[n] = context[i].id
  <2>1. /\ i - j.first + 1 \in 1..(j.last - j.first + 1)
        /\ j.first + (i - j.first + 1) - 1 = i
    <3>1. \A a, b \in Nat : \A x \in a..b :
             x - a + 1 \in 1..(b - a + 1) /\ a + (x - a + 1) - 1 = x
      OBVIOUS
    <3> QED BY <1>3, <3>1
  <2>2. i - j.first + 1 \in DOMAIN Sources(j)
    BY <2>1 DEF Sources
  <2>3. Sources(j)[i - j.first + 1] = context[i].id
    BY <1>2, <2>1 DEF Sources
  <2> QED BY <2>2, <2>3
<1> QED
  BY <1>4, <1>5

\* The list after the commit: the items before the chunk, the new summary,
\* the items after the chunk.
LEMMA Replaced ==
    ASSUME StoreShape, NEW j, FreshChunk(j), NEW k \in Nat,
           context' = RangeReplaced(j.first, j.last, SummaryItem(k))
    PROVE  /\ context' \in Seq(ContextItem)
           /\ DOMAIN context' = 1..(Len(context) - (j.last - j.first))
           /\ j.first \in DOMAIN context'
           /\ context'[j.first] = SummaryItem(k)
           /\ \A i \in DOMAIN context' : i < j.first =>
                  i \in DOMAIN context /\ context'[i] = context[i]
           /\ \A i \in DOMAIN context' : i > j.first =>
                  /\ i + (j.last - j.first) \in DOMAIN context
                  /\ context'[i] = context[i + (j.last - j.first)]
<1> DEFINE w == j.last - j.first
           M == Len(context) - w
<1>1. /\ Len(context) \in Nat /\ DOMAIN context = 1..Len(context)
      /\ \A i \in DOMAIN context : context[i] \in ContextItem
  BY LenProperties DEF StoreShape
<1>2. /\ j.first \in 1..Len(context) /\ j.last \in 1..Len(context)
      /\ j.first <= j.last
  BY <1>1 DEF FreshChunk
<1>3. w \in Nat /\ M \in Nat /\ j.first \in 1..M
  BY <1>1, <1>2
<1>4. context' = [i \in 1..M |-> IF i < j.first THEN context[i]
                                ELSE IF i = j.first THEN SummaryItem(k)
                                ELSE context[i + w]]
  BY DEF RangeReplaced
<1>5. \A i \in 1..M : i > j.first => i + w \in 1..Len(context)
  BY <1>1, <1>2, <1>3
<1>6. \A i \in 1..M : i < j.first => i \in 1..Len(context)
  BY <1>1, <1>2, <1>3
<1>7. SummaryItem(k) \in ContextItem
  BY DEF SummaryItem, ContextItem
<1>8. \A i \in 1..M : context'[i] \in ContextItem
  <2> TAKE i \in 1..M
  <2>1. CASE i < j.first
    BY <1>1, <1>4, <1>6, <2>1
  <2>2. CASE i = j.first
    BY <1>3, <1>4, <1>7, <2>2
  <2>3. CASE i > j.first
    BY <1>1, <1>2, <1>4, <1>5, <2>3
  <2> QED BY <1>2, <2>1, <2>2, <2>3
<1>9. context' \in Seq(ContextItem)
  <2>1. context' = [i \in 1..M |-> context'[i]]
    BY <1>4
  <2> QED BY <1>3, <1>8, <2>1, IsASeq
<1>10. /\ DOMAIN context' = 1..M
       /\ \A i \in 1..M : i > j.first => context'[i] = context[i + w]
       /\ \A i \in 1..M : i < j.first => context'[i] = context[i]
  BY <1>2, <1>4
<1>11. context'[j.first] = SummaryItem(k)
  BY <1>3, <1>4
<1> QED
  BY <1>1, <1>3, <1>5, <1>6, <1>9, <1>10, <1>11

\* What a commit does to the store, with its reads named.
CommitOf(j, k, size, earliest, latest) ==
    /\ k = Len(summaries) + 1
    /\ earliest \in DOMAIN messages /\ latest \in DOMAIN messages
    /\ Spans(j, earliest, latest)
    /\ messages' = messages
    /\ summaries' = Append(summaries, NewSummary(j, size, earliest, latest))
    /\ context' = RangeReplaced(j.first, j.last, SummaryItem(k))

\* The new row is added behind the others.
LEMMA CommitRow ==
    ASSUME IInv, NEW j, FreshChunk(j), NEW k, NEW size, NEW earliest, NEW latest,
           CommitOf(j, k, size, earliest, latest)
    PROVE  /\ k \in Nat /\ DOMAIN summaries = 1..(k - 1)
           /\ DOMAIN summaries' = 1..k
           /\ \A s \in DOMAIN summaries : summaries'[s] = summaries[s]
           /\ summaries'[k] = NewSummary(j, size, earliest, latest)
           /\ summaries' \in Seq({summaries'[s] : s \in DOMAIN summaries'})
           /\ Transcript' = Transcript
<1> DEFINE row == NewSummary(j, size, earliest, latest)
           T == {summaries[s] : s \in DOMAIN summaries}
<1>1. summaries' = Append(summaries, row) /\ k = Len(summaries) + 1
  BY DEF CommitOf
<1>2. summaries \in Seq(T)
  BY DEF IInv, StoreShape
<1>3. /\ summaries' \in Seq(T \cup {row})
      /\ Len(summaries) \in Nat /\ DOMAIN summaries = 1..Len(summaries)
      /\ DOMAIN summaries' = 1..(Len(summaries) + 1)
      /\ \A s \in DOMAIN summaries : summaries'[s] = summaries[s]
      /\ summaries'[Len(summaries) + 1] = row
  BY <1>1, <1>2, AppendRow
<1>4. summaries' \in Seq({summaries'[s] : s \in DOMAIN summaries'})
  BY <1>3, SeqOverRange
<1>5. Transcript' = Transcript
  BY DEF CommitOf, Transcript
<1> QED
  BY <1>1, <1>3, <1>4, <1>5

\* The rows and the references after a commit.
LEMMA CommitShape ==
    ASSUME IInv, NEW j, FreshChunk(j), NEW k, NEW size, NEW earliest, NEW latest,
           CommitOf(j, k, size, earliest, latest)
    PROVE  StoreShape' /\ SummariesValid' /\ ReferencesValid'
<1> DEFINE row == NewSummary(j, size, earliest, latest)
<1>1. /\ k \in Nat /\ DOMAIN summaries = 1..(k - 1)
      /\ DOMAIN summaries' = 1..k
      /\ \A s \in DOMAIN summaries : summaries'[s] = summaries[s]
      /\ summaries'[k] = row
      /\ summaries' \in Seq({summaries'[s] : s \in DOMAIN summaries'})
      /\ Transcript' = Transcript
  BY CommitRow
<1>2. /\ context' \in Seq(ContextItem)
      /\ j.first \in DOMAIN context' /\ context'[j.first] = SummaryItem(k)
      /\ \A i \in DOMAIN context' : i < j.first =>
             i \in DOMAIN context /\ context'[i] = context[i]
      /\ \A i \in DOMAIN context' : i > j.first =>
             /\ i + (j.last - j.first) \in DOMAIN context
             /\ context'[i] = context[i + (j.last - j.first)]
  BY <1>1, Replaced DEF IInv, CommitOf
<1>3. /\ Len(context) \in Nat /\ DOMAIN context = 1..Len(context)
      /\ Len(context') \in Nat /\ DOMAIN context' = 1..Len(context')
  BY <1>2, LenProperties DEF IInv, StoreShape
<1>4. StoreShape'
  BY <1>1, <1>2 DEF IInv, StoreShape, CommitOf
<1>5. row.depth \in Nat
  <2>1. CASE j.kind = "leaf"
    BY <2>1 DEF NewSummary
  <2>2. CASE j.kind = "condensed"
    <3>1. j.first \in DOMAIN context /\ AtDepth(j.first, j.depth)
      BY <1>3, <2>2 DEF FreshChunk
    <3>2. j.depth \in Nat
      BY <3>1 DEF IInv, ReferencesValid, SummariesValid, AtDepth, IsSummary, IsMessage
    <3> QED BY <2>2, <3>2 DEF NewSummary
  <2> QED BY <2>1, <2>2 DEF FreshChunk
<1>6. SummariesValid'
  <2>1. row.earliest \in DOMAIN messages' /\ row.latest \in DOMAIN messages'
    BY DEF NewSummary, CommitOf
  <2> SUFFICES ASSUME NEW s \in DOMAIN summaries'
               PROVE  /\ summaries'[s].depth \in Nat
                      /\ summaries'[s].earliest \in DOMAIN messages'
                      /\ summaries'[s].latest \in DOMAIN messages'
    BY DEF SummariesValid
  <2>2. CASE s = k
    BY <1>1, <1>5, <2>1, <2>2
  <2>3. CASE s \in DOMAIN summaries
    BY <1>1, <2>3 DEF IInv, SummariesValid, CommitOf
  <2> QED BY <1>1, <2>2, <2>3
<1>7. ReferencesValid'
  <2>1. ASSUME NEW i \in DOMAIN context', NEW p \in DOMAIN context,
               context'[i] = context[p]
        PROVE  IF IsMessage(context'[i]) THEN context'[i].id \in Transcript'
                                         ELSE context'[i].id \in DOMAIN summaries'
    BY <1>1, <2>1 DEF IInv, ReferencesValid
  <2>2. ~IsMessage(SummaryItem(k)) /\ SummaryItem(k).id \in DOMAIN summaries'
    <3>1. k \in 1..k
      <4>1. k = Len(summaries) + 1 /\ Len(summaries) \in Nat
        BY LenProperties DEF IInv, StoreShape, CommitOf
      <4> QED BY <4>1
    <3> QED BY <1>1, <3>1 DEF IsMessage, SummaryItem
  <2>3. \A i \in DOMAIN context' :
           IF IsMessage(context'[i]) THEN context'[i].id \in Transcript'
                                     ELSE context'[i].id \in DOMAIN summaries'
    <3> TAKE i \in DOMAIN context'
    <3>1. CASE i < j.first
      BY <1>2, <2>1, <3>1
    <3>2. CASE i = j.first
      BY <1>2, <2>2, <3>2
    <3>3. CASE i > j.first
      BY <1>2, <2>1, <3>3
    <3> QED BY <1>2, <1>3, <3>1, <3>2, <3>3
  <2> QED BY <2>3 DEF ReferencesValid, IsMessage
<1> QED
  BY <1>4, <1>6, <1>7

\* The list still tiles the transcript: the summary takes the chunk's place.
LEMMA CommitTiles ==
    ASSUME IInv, NEW j, FreshChunk(j), NEW k, NEW size, NEW earliest, NEW latest,
           CommitOf(j, k, size, earliest, latest)
    PROVE  ContextTiles'
<1> DEFINE w == j.last - j.first
<1>1. /\ k \in Nat /\ DOMAIN summaries = 1..(k - 1)
      /\ DOMAIN summaries' = 1..k
      /\ \A s \in DOMAIN summaries : summaries'[s] = summaries[s]
      /\ summaries'[k] = NewSummary(j, size, earliest, latest)
      /\ summaries' \in Seq({summaries'[s] : s \in DOMAIN summaries'})
      /\ Transcript' = Transcript
  BY CommitRow
<1>2. /\ DOMAIN context' = 1..(Len(context) - w)
      /\ j.first \in DOMAIN context' /\ context'[j.first] = SummaryItem(k)
      /\ \A i \in DOMAIN context' : i < j.first =>
             i \in DOMAIN context /\ context'[i] = context[i]
      /\ \A i \in DOMAIN context' : i > j.first =>
             i + w \in DOMAIN context /\ context'[i] = context[i + w]
  BY <1>1, Replaced DEF IInv, CommitOf
<1>3. /\ Len(context) \in Nat /\ DOMAIN context = 1..Len(context)
      /\ Len(messages) \in Nat /\ DOMAIN messages = 1..Len(messages)
      /\ j.first \in DOMAIN context /\ j.last \in DOMAIN context
      /\ j.first <= j.last /\ w \in Nat
      /\ \A i \in j.first..j.last : j.items[i] = context[i]
  BY LenProperties DEF IInv, StoreShape, FreshChunk
<1>4. ASSUME NEW i \in DOMAIN context', NEW p \in DOMAIN context,
             context'[i] = context[p]
      PROVE  /\ Earliest(context[i])' = Earliest(context[p])
             /\ Latest(context[i])' = Latest(context[p])
  BY <1>1, <1>4 DEF IInv, ReferencesValid, Earliest, Latest, IsMessage
<1>5. Earliest(context[j.first])' = earliest /\ Latest(context[j.first])' = latest
  BY <1>1, <1>2 DEF Earliest, Latest, IsMessage, SummaryItem, NewSummary
<1>6. /\ earliest \in 1..Len(messages) /\ latest \in 1..Len(messages)
      /\ \A i \in DOMAIN context : /\ Earliest(context[i]) \in 1..Len(messages)
                                   /\ Latest(context[i]) \in 1..Len(messages)
  BY <1>3 DEF IInv, ReferencesValid, SummariesValid, Earliest, Latest, IsMessage,
              Transcript, CommitOf
<1>7. PICK a \in j.first..j.last : earliest = Earliest(context[a])
  BY <1>3 DEF CommitOf, Spans
<1>8. PICK b \in j.first..j.last : latest = Latest(context[b])
  BY <1>3 DEF CommitOf, Spans
<1>9. \A x, y \in DOMAIN context :
         x < y => Latest(context[x]) < Earliest(context[y])
  BY DEF IInv, ContextTiles
<1>10. ASSUME NEW x \in DOMAIN context', NEW y \in DOMAIN context', x < y
       PROVE  Latest(context[x])' < Earliest(context[y])'
  <2>1. ASSUME NEW i \in DOMAIN context', i < j.first
        PROVE  /\ i \in DOMAIN context
               /\ Earliest(context[i])' = Earliest(context[i])
               /\ Latest(context[i])' = Latest(context[i])
    BY <1>2, <1>4, <2>1
  <2>2. ASSUME NEW i \in DOMAIN context', i > j.first
        PROVE  /\ i + w \in DOMAIN context /\ j.last < i + w
               /\ Earliest(context[i])' = Earliest(context[i + w])
               /\ Latest(context[i])' = Latest(context[i + w])
    <3>1. i + w \in DOMAIN context /\ context'[i] = context[i + w]
      BY <1>2, <2>2
    <3>2. j.last < i + w
      <4>1. i \in Int /\ j.first \in Int /\ j.last \in Int
        BY <1>2, <1>3
      <4> QED BY <2>2, <4>1
    <3> QED BY <1>4, <3>1, <3>2
  <2> DEFINE L == Len(context)
  <2>3. /\ L \in Nat /\ DOMAIN context = 1..L
        /\ x \in Int /\ y \in Int /\ w \in Int
        /\ j.first \in 1..L /\ j.last \in 1..L
        /\ a \in 1..L /\ j.first <= a /\ a <= j.last
        /\ b \in 1..L /\ j.first <= b /\ b <= j.last
    <3>1. L \in Nat /\ DOMAIN context = 1..L /\ w \in Int
      BY <1>3
    <3>2. x \in Int /\ y \in Int
      BY <1>2
    <3>3. /\ j.first \in 1..L /\ j.last \in 1..L
      BY <1>3
    <3>4. /\ a \in Int /\ j.first <= a /\ a <= j.last
          /\ b \in Int /\ j.first <= b /\ b <= j.last
      BY <1>7, <1>8
    <3> HIDE DEF L, w
    <3>5. a \in 1..L /\ b \in 1..L
      BY <3>1, <3>3, <3>4
    <3> QED BY <3>1, <3>2, <3>3, <3>4, <3>5
  <2> HIDE DEF w, L
  <2>4. CASE y < j.first
    <3>1. x < j.first
      BY <1>10, <2>3, <2>4
    <3> QED BY <1>9, <1>10, <2>1, <2>4, <3>1
  <2>5. CASE y = j.first
    <3>1. x < j.first /\ x < a /\ a \in DOMAIN context
      BY <1>10, <2>3, <2>5
    <3> QED BY <1>5, <1>7, <1>9, <2>1, <2>5, <3>1
  <2>6. CASE x < j.first /\ y > j.first
    <3>1. y + w \in DOMAIN context /\ j.last < y + w
      BY <2>2, <2>6
    <3>2. x < y + w
      <4>1. y + w \in Int
        BY <2>3
      <4>2. x < j.last
        BY <2>3, <2>6
      <4> QED BY <2>3, <3>1, <4>1, <4>2
    <3> QED BY <1>9, <2>1, <2>2, <2>6, <3>1, <3>2
  <2>7. CASE x = j.first
    <3>1. y > j.first
      BY <1>10, <2>3, <2>7
    <3>2. y + w \in DOMAIN context /\ j.last < y + w
      BY <2>2, <3>1
    <3>3. b < y + w /\ b \in DOMAIN context
      BY <2>3, <3>2
    <3> QED BY <1>5, <1>8, <1>9, <2>2, <2>7, <3>1, <3>2, <3>3
  <2>8. CASE x > j.first
    <3>1. y > j.first /\ x + w < y + w
      BY <1>10, <2>3, <2>8
    <3> QED BY <1>9, <2>2, <2>8, <3>1
  <2> QED BY <1>10, <2>3, <2>4, <2>5, <2>6, <2>7, <2>8
<1>11. ASSUME NEW m \in Transcript'
       PROVE  \E i \in DOMAIN context' :
                 Earliest(context[i])' <= m /\ m <= Latest(context[i])'
  <2>1. PICK p \in DOMAIN context :
           Earliest(context[p]) <= m /\ m <= Latest(context[p])
    BY <1>1 DEF IInv, ContextTiles
  <2>2. CASE p < j.first
    <3>1. p \in DOMAIN context' /\ context'[p] = context[p]
      BY <1>2, <1>3, <2>2
    <3> QED BY <1>4, <2>1, <3>1
  <2>3. CASE p \in j.first..j.last
    <3>1. /\ earliest <= Earliest(context[p])
          /\ Latest(context[p]) <= latest
      BY <1>3, <2>3 DEF CommitOf, Spans
    <3>2. m \in 1..Len(messages)
      BY <1>1, <1>3 DEF Transcript
    <3>3. earliest <= m /\ m <= latest
      BY <1>6, <2>1, <3>1, <3>2
    <3> QED BY <1>2, <1>5, <3>3
  <2>4. CASE p > j.last
    <3>1. PICK q \in Int : q = p - w
      BY <1>3
    <3>2. q > j.first
      BY <1>3, <2>4, <3>1
    <3>3. q \in 1..(Len(context) - w) /\ q + w = p
      <4> HIDE DEF w
      <4> QED BY <1>3, <3>1, <3>2
    <3>4. q \in DOMAIN context' /\ context'[q] = context[p]
      BY <1>2, <3>2, <3>3
    <3> QED BY <1>4, <2>1, <3>4
  <2> QED BY <1>3, <2>2, <2>3, <2>4
<1> QED
  BY <1>10, <1>11 DEF ContextTiles

\* The new summary accounts for its time range, the others still do.
LEMMA CommitLineage ==
    ASSUME IInv, NEW j, FreshChunk(j), NEW k, NEW size, NEW earliest, NEW latest,
           CommitOf(j, k, size, earliest, latest)
    PROVE  LineageTiles'
<1> DEFINE row == NewSummary(j, size, earliest, latest)
<1>1. /\ k \in Nat /\ DOMAIN summaries = 1..(k - 1)
      /\ DOMAIN summaries' = 1..k
      /\ \A s \in DOMAIN summaries : summaries'[s] = summaries[s]
      /\ summaries'[k] = row
      /\ summaries' \in Seq({summaries'[s] : s \in DOMAIN summaries'})
      /\ Transcript' = Transcript
  BY CommitRow
<1>2. /\ Len(context) \in Nat /\ DOMAIN context = 1..Len(context)
      /\ Len(messages) \in Nat /\ DOMAIN messages = 1..Len(messages)
      /\ j.first \in DOMAIN context /\ j.last \in DOMAIN context
      /\ j.first <= j.last
      /\ \A i \in j.first..j.last : j.items[i] = context[i]
  BY LenProperties DEF IInv, StoreShape, FreshChunk
<1>3. \A i \in j.first..j.last : i \in DOMAIN context
  BY <1>2
<1>4. \A s \in DOMAIN summaries :
         InSpan(s)' = InSpan(s) /\ SourceIds(s)' = SourceIds(s)
  BY <1>1 DEF InSpan, SourceIds
<1>5. ASSUME NEW s \in DOMAIN summaries
      PROVE  IF summaries'[s].depth = 0 THEN LeafLineage(s)'
                                        ELSE CondensedLineage(s)'
  <2>1. CASE summaries[s].depth = 0
    BY <1>1, <1>4, <2>1 DEF IInv, LineageTiles, LeafLineage
  <2>2. CASE summaries[s].depth # 0
    <3>1. CondensedLineage(s)
      BY <2>2 DEF IInv, LineageTiles
    <3>2. SourceIds(s) \subseteq DOMAIN summaries
      BY <1>1, <3>1 DEF CondensedLineage
    <3> QED BY <1>1, <1>4, <2>2, <3>1, <3>2 DEF CondensedLineage
  <2> QED BY <2>1, <2>2
<1>6. SourceIds(k)' = {context[i].id : i \in j.first..j.last}
  <2>1. SourceIds(k)' = {Sources(j)[n] : n \in DOMAIN Sources(j)}
    BY <1>1 DEF SourceIds, NewSummary
  <2> QED BY <2>1, NewSources
<1>7. InSpan(k)' = {m \in Transcript : earliest <= m /\ m <= latest}
  BY <1>1 DEF InSpan, NewSummary
<1>8. \A m \in InSpan(k)' : \E i \in j.first..j.last :
         Earliest(context[i]) <= m /\ m <= Latest(context[i])
  BY <1>7, SpanCovered DEF CommitOf
<1>9. /\ earliest \in 1..Len(messages) /\ latest \in 1..Len(messages)
      /\ \A i \in j.first..j.last : /\ earliest <= Earliest(context[i])
                                    /\ Latest(context[i]) <= latest
  BY <1>2 DEF CommitOf, Spans
<1>10. CASE j.kind = "leaf"
  <2>1. \A i \in j.first..j.last :
           /\ context[i].id \in Transcript
           /\ Earliest(context[i]) = context[i].id
           /\ Latest(context[i]) = context[i].id
    BY <1>3, <1>10 DEF IInv, ReferencesValid, FreshChunk, Earliest, Latest
  <2>2. \A m \in Transcript : m \in Int
    BY <1>2 DEF Transcript
  <2>3. \A m \in InSpan(k)' : m \in SourceIds(k)'
    <3> TAKE m \in InSpan(k)'
    <3>1. PICK i \in j.first..j.last :
             Earliest(context[i]) <= m /\ m <= Latest(context[i])
      BY <1>8
    <3>2. m = context[i].id
      BY <1>7, <2>1, <2>2, <3>1
    <3> QED BY <1>6, <3>2
  <2>4. \A m \in SourceIds(k)' : m \in InSpan(k)'
    BY <1>6, <1>7, <1>9, <2>1
  <2>5. LeafLineage(k)'
    BY <2>3, <2>4 DEF LeafLineage
  <2>6. summaries'[k].depth = 0
    BY <1>1, <1>10 DEF NewSummary
  <2> QED BY <1>1, <1>5, <2>5, <2>6 DEF LineageTiles
<1>11. CASE j.kind = "condensed"
  <2>1. \A i \in j.first..j.last :
           /\ context[i].id \in DOMAIN summaries
           /\ summaries[context[i].id].depth = j.depth
           /\ Earliest(context[i]) = summaries[context[i].id].earliest
           /\ Latest(context[i]) = summaries[context[i].id].latest
    BY <1>3, <1>11 DEF IInv, ReferencesValid, FreshChunk, Earliest, Latest,
                       AtDepth, IsSummary, IsMessage
  <2>2. j.depth \in Nat /\ row.depth = j.depth + 1
    <3>1. j.first \in j.first..j.last
      BY <1>2
    <3> QED BY <1>11, <2>1, <3>1 DEF IInv, SummariesValid, NewSummary
  <2>3. \A t \in SourceIds(k)' :
           /\ t \in DOMAIN summaries
           /\ summaries'[t].depth = row.depth - 1
    BY <1>1, <1>6, <2>1, <2>2
  <2>4. \A m \in InSpan(k)' : m \in UNION {InSpan(t)' : t \in SourceIds(k)'}
    <3> TAKE m \in InSpan(k)'
    <3>1. PICK i \in j.first..j.last :
             Earliest(context[i]) <= m /\ m <= Latest(context[i])
      BY <1>8
    <3>2. m \in InSpan(context[i].id)
      BY <1>7, <2>1, <3>1 DEF InSpan
    <3>3. PICK t : t = context[i].id
      OBVIOUS
    <3>4. t \in SourceIds(k)' /\ m \in InSpan(t)'
      BY <1>4, <1>6, <2>1, <3>2, <3>3
    <3> QED BY <3>4
  <2>5. CondensedLineage(k)'
    BY <1>1, <2>3, <2>4 DEF CondensedLineage
  <2>6. summaries'[k].depth # 0
    BY <1>1, <2>2
  <2> QED BY <1>1, <1>5, <2>5, <2>6 DEF LineageTiles
<1> QED
  BY <1>10, <1>11 DEF FreshChunk

LEMMA CommitKeeps ==
    ASSUME OneDaemon, IInv, NEW d \in Daemons, Commit(d)
    PROVE  IInv'
<1>1. FreshChunk(job[d])
  BY DEF IInv, ChunkFresh, Busy, Commit
<1>2. PICK earliest, latest \in DOMAIN messages :
         CommitOf(job[d], Len(summaries) + 1, draft[d], earliest, latest)
  BY DEF Commit, CommitOf, insertSummary, replaceContextRangeWithSummary
<1>3. PICK j, k, size : j = job[d] /\ k = Len(summaries) + 1 /\ size = draft[d]
  OBVIOUS
<1>4. FreshChunk(j) /\ CommitOf(j, k, size, earliest, latest)
  BY <1>1, <1>2, <1>3
<1>5. /\ StoreShape' /\ SummariesValid' /\ ReferencesValid'
      /\ ContextTiles' /\ LineageTiles'
  BY <1>4, CommitShape, CommitTiles, CommitLineage
<1>6. Control' /\ ~Busy(d)'
  BY DEF IInv, Control, Commit, Goto, Busy
<1>7. ChunkFresh'
  BY <1>6 DEF OneDaemon, ChunkFresh
<1> QED
  BY <1>5, <1>6, <1>7 DEF IInv

-----------------------------------------------------------------------------
(* The invariant.                                                          *)

LEMMA InitInv == Init => IInv
<1> SUFFICES ASSUME Init PROVE IInv
  OBVIOUS
<1>1. messages = <<>> /\ context = <<>> /\ summaries = <<>>
  BY DEF Init, StoreInit
<1>2. DOMAIN messages = {} /\ DOMAIN context = {} /\ DOMAIN summaries = {}
  BY <1>1
<1>3. StoreShape
  BY <1>1 DEF StoreShape
<1>4. SummariesValid /\ ReferencesValid /\ ContextTiles /\ LineageTiles
  BY <1>2 DEF SummariesValid, ReferencesValid, ContextTiles, LineageTiles, Transcript
<1>5. Control /\ ChunkFresh
  BY DEF Init, Control, ChunkFresh, Busy
<1> QED BY <1>3, <1>4, <1>5 DEF IInv

\* A step that leaves the store alone and either leaves the steps before the
\* commit or moves within them with the same chunk.
LEMMA PassiveKeeps ==
    ASSUME OneDaemon, IInv, UNCHANGED storeVars, NEW d \in Daemons,
           DOMAIN pc' = Daemons, DOMAIN job' = Daemons,
           ~Busy(d)' \/ (Busy(d) /\ job' = job)
    PROVE  IInv'
<1>1. StoreInv'
  BY StoreStutter DEF IInv, StoreInv
<1>2. ChunkFresh'
  BY ChunkStutter DEF IInv
<1> QED BY <1>1, <1>2 DEF IInv, StoreInv, Control

LEMMA PersistEventKeeps ==
    ASSUME OneDaemon, IInv, NEW d \in Daemons, PersistEvent(d)
    PROVE  IInv'
<1>1. Control' /\ ~Busy(d)'
  <2>1. AfterPass(job[d].kind, run[d]) \in {"selectLeaf", "selectCondensed", "finish"}
    BY DEF AfterPass
  <2> QED BY <2>1 DEF IInv, Control, PersistEvent, Goto, Busy
<1>2. CASE UNCHANGED storeVars
  BY <1>1, <1>2, PassiveKeeps DEF Control
<1>3. CASE appendEventMessage(EventTokens)
  <2>1. StoreInv'
    BY <1>3, EventStore DEF IInv, StoreInv
  <2>2. ChunkFresh'
    BY <1>1 DEF OneDaemon, ChunkFresh
  <2> QED BY <1>1, <2>1, <2>2 DEF IInv, StoreInv
<1> QED BY <1>2, <1>3 DEF PersistEvent

LEMMA NextInv == ASSUME OneDaemon, IInv, [Next]_vars
                 PROVE  IInv'
<1> USE DEF Goto, EndRun, Busy
<1>1. CASE UNCHANGED vars
  <2>1. StoreInv'
    BY <1>1, StoreStutter DEF IInv, StoreInv, vars, storeVars
  <2>2. Control' /\ ChunkFresh'
    BY <1>1 DEF IInv, vars, Control, ChunkFresh, FreshChunk, IsMessage, IsSummary,
                AtDepth
  <2> QED BY <2>1, <2>2 DEF IInv, StoreInv
<1>2. ASSUME NEW tokens \in MessageTokens, Ingest(tokens)
      PROVE  IInv'
  BY <1>2, IngestKeeps
<1>3. ASSUME NEW d \in Daemons, NEW req \in Requests, StartRun(d, req)
      PROVE  IInv'
  BY <1>3, PassiveKeeps DEF StartRun, IInv, Control
<1>4. ASSUME NEW d \in Daemons, Step(d)
      PROVE  IInv'
  <2>1. CASE BeginSweep(d)
    BY <2>1, PassiveKeeps DEF BeginSweep, IInv, Control
  <2>2. CASE Evaluate(d)
    BY <2>2, PassiveKeeps DEF Evaluate, IInv, Control
  <2>3. CASE SelectLeaf(d)
    BY <2>3, SelectLeafKeeps
  <2>4. CASE NoLeafChunk(d)
    BY <2>4, PassiveKeeps DEF NoLeafChunk, IInv, Control
  <2>5. CASE SelectCondensed(d)
    BY <2>5, SelectCondensedKeeps
  <2>6. CASE NoCondensedChunk(d)
    BY <2>6, PassiveKeeps DEF NoCondensedChunk, IInv, Control
  <2>7. CASE MeasureBefore(d)
    BY <2>7, PassiveKeeps DEF MeasureBefore, IInv, Control
  <2>8. CASE Summarize(d)
    BY <2>8, PassiveKeeps DEF Summarize, IInv, Control
  <2>9. CASE Commit(d)
    BY <2>9, CommitKeeps
  <2>10. CASE MeasureAfter(d)
    BY <2>10, PassiveKeeps DEF MeasureAfter, IInv, Control
  <2>11. CASE PersistEvent(d)
    BY <2>11, PersistEventKeeps
  <2>12. CASE Finish(d)
    BY <2>12, PassiveKeeps DEF Finish, IInv, Control
  <2> QED
    BY <1>4, <2>1, <2>2, <2>3, <2>4, <2>5, <2>6, <2>7, <2>8, <2>9, <2>10, <2>11,
       <2>12 DEF Step
<1>5. ASSUME NEW d \in Daemons, RunStops(d)
      PROVE  IInv'
  BY <1>5, PassiveKeeps DEF RunStops, IInv, Control
<1> QED
  BY <1>1, <1>2, <1>3, <1>4, <1>5 DEF Next

LEMMA Inv == OneDaemon => (Spec => []IInv)
<1> SUFFICES ASSUME OneDaemon PROVE Spec => []IInv
  OBVIOUS
<1>1. Init => IInv
  BY InitInv
<1>2. IInv /\ [Next]_vars => IInv'
  BY NextInv
<1> QED
  BY <1>1, <1>2, PTL DEF Spec

\* With one daemon, the context list stands for the whole transcript, once
\* and in order, whatever the interleaving of passes and ingestion.
THEOREM ContextTilesAlways == OneDaemon => (Spec => []ContextTiles)
<1>1. IInv => ContextTiles
  BY DEF IInv
<1> QED BY <1>1, Inv, PTL

\* With one daemon, no summary hides a message of its time range.
THEOREM LineageTilesAlways == OneDaemon => (Spec => []LineageTiles)
<1>1. IInv => LineageTiles
  BY DEF IInv
<1> QED BY <1>1, Inv, PTL

\* With one daemon, the ordinals read before the call to the model still name
\* the chunk when the pass commits.
THEOREM ChunkFreshAlways == OneDaemon => (Spec => []ChunkFresh)
<1>1. IInv => ChunkFresh
  BY DEF IInv
<1> QED BY <1>1, Inv, PTL

-----------------------------------------------------------------------------
(* The fresh tail.                                                         *)

\* The messages of a leaf chunk have the fresh tail behind them.
TailBehindChunk ==
    \A d \in Daemons : Busy(d) /\ job[d].kind = "leaf" =>
        \A i \in job[d].first..job[d].last :
            Cardinality(RawAfter(i)) >= FreshTailCount

LEMMA RawAfterFinite ==
    ASSUME StoreShape, NEW i
    PROVE  IsFiniteSet(RawAfter(i)) /\ Cardinality(RawAfter(i)) \in Nat
<1>1. Len(context) \in Nat /\ DOMAIN context = 1..Len(context)
  BY LenProperties DEF StoreShape
<1>2. IsFiniteSet(DOMAIN context)
  BY <1>1, FS_Interval
<1>3. RawAfter(i) \subseteq DOMAIN context
  BY DEF RawAfter
<1> QED BY <1>2, <1>3, FS_Subset, FS_CardinalityType

\* A raw message outside the fresh tail has that many raw messages after it.
LEMMA LeafChunkBeforeTail ==
    ASSUME StoreShape, NEW first \in DOMAIN context, NEW last \in DOMAIN context,
           selectOldestLeafChunk(first, last), NEW i \in first..last
    PROVE  Cardinality(RawAfter(i)) >= FreshTailCount
<1>1. Len(context) \in Nat /\ DOMAIN context = 1..Len(context)
  BY LenProperties DEF StoreShape
<1>2. i \in 1..last /\ i >= first
  BY <1>1
<1>3. i \in DOMAIN context /\ OutsideFreshTail(i) /\ IsMessage(context[i])
  BY <1>2 DEF selectOldestLeafChunk, IsOldestChunk
<1>4. i \in RawAfter(0) /\ i \notin RawAfter(i)
  BY <1>1, <1>3 DEF RawAfter
<1> QED BY <1>3, <1>4 DEF OutsideFreshTail

LEMMA TailNext ==
    ASSUME OneDaemon, IInv, TailBehindChunk, [Next]_vars
    PROVE  TailBehindChunk'
<1> USE DEF Goto, EndRun, Busy
<1>1. ASSUME context' = context, NEW d \in Daemons,
             ~Busy(d)' \/ (Busy(d) /\ job' = job)
      PROVE  TailBehindChunk'
  BY <1>1 DEF OneDaemon, TailBehindChunk, RawAfter, IsMessage
<1>2. CASE UNCHANGED vars
  BY <1>2 DEF vars, TailBehindChunk, RawAfter, IsMessage
<1>3. ASSUME NEW tokens \in MessageTokens, Ingest(tokens)
      PROVE  TailBehindChunk'
  <2>1. StoreShape /\ StoreShape'
    BY <1>3, IngestKeeps DEF IInv
  <2>2. /\ DOMAIN context \subseteq DOMAIN context'
        /\ \A n \in DOMAIN context : context'[n] = context[n]
        /\ pc' = pc /\ job' = job
    <3>1. context' = Append(context, MessageItem(Len(messages) + 1))
      BY <1>3 DEF Ingest, appendTranscriptMessage
    <3>2. /\ Len(context) \in Nat /\ DOMAIN context = 1..Len(context)
          /\ DOMAIN context' = 1..(Len(context) + 1)
          /\ \A n \in DOMAIN context : context'[n] = context[n]
      BY <2>1, <3>1, AppendRow DEF StoreShape
    <3> QED BY <1>3, <3>2 DEF Ingest
  <2>3. \A i : RawAfter(i) \subseteq RawAfter(i)'
    BY <2>2 DEF RawAfter, IsMessage
  <2>4. \A i : /\ IsFiniteSet(RawAfter(i)') /\ Cardinality(RawAfter(i)') \in Nat
               /\ IsFiniteSet(RawAfter(i)) /\ Cardinality(RawAfter(i)) \in Nat
    <3>1. Len(context') \in Nat /\ DOMAIN context' = 1..Len(context')
      BY <2>1, LenProperties DEF StoreShape
    <3>2. IsFiniteSet(DOMAIN context')
      BY <3>1, FS_Interval
    <3>3. \A i : RawAfter(i)' \subseteq DOMAIN context'
      BY DEF RawAfter
    <3>4. \A i : IsFiniteSet(RawAfter(i)')
      BY <3>2, <3>3, FS_Subset
    <3> QED BY <2>1, <3>4, FS_CardinalityType, RawAfterFinite
  <2>5. \A i : Cardinality(RawAfter(i)) <= Cardinality(RawAfter(i))'
    BY <2>3, <2>4, FS_Subset
  <2> QED
    BY <2>2, <2>4, <2>5, ConfigAssumption DEF TailBehindChunk
<1>4. ASSUME NEW d \in Daemons, NEW req \in Requests, StartRun(d, req)
      PROVE  TailBehindChunk'
  BY <1>1, <1>4 DEF StartRun, IInv, Control, storeVars
<1>5. ASSUME NEW d \in Daemons, Step(d)
      PROVE  TailBehindChunk'
  <2> USE DEF IInv, Control, storeVars
  <2>1. CASE SelectLeaf(d)
    <3>1. PICK first, last \in DOMAIN context :
             /\ selectOldestLeafChunk(first, last)
             /\ job' = [job EXCEPT ![d] = Chunk("leaf", 0, first, last)]
      BY <2>1 DEF SelectLeaf
    <3>2. /\ job'[d].first = first /\ job'[d].last = last
          /\ context' = context
      BY <2>1, <3>1 DEF SelectLeaf, Chunk
    <3>3. \A i \in first..last : Cardinality(RawAfter(i)) >= FreshTailCount
      BY <3>1, LeafChunkBeforeTail
    <3>4. \A i : RawAfter(i)' = RawAfter(i)
      BY <3>2 DEF RawAfter, IsMessage
    <3> QED BY <3>2, <3>3, <3>4 DEF OneDaemon, TailBehindChunk
  <2>2. CASE SelectCondensed(d)
    <3>1. job'[d].kind = "condensed"
      BY <2>2 DEF SelectCondensed, Chunk
    <3> QED BY <3>1 DEF OneDaemon, TailBehindChunk
  <2>3. CASE Commit(d)
    <3>1. ~Busy(d)'
      BY <2>3 DEF Commit
    <3> QED BY <3>1 DEF OneDaemon, TailBehindChunk
  <2>4. CASE PersistEvent(d)
    <3>1. AfterPass(job[d].kind, run[d])
             \in {"selectLeaf", "selectCondensed", "finish"}
      BY DEF AfterPass
    <3>2. ~Busy(d)'
      BY <2>4, <3>1 DEF PersistEvent
    <3> QED BY <3>2 DEF OneDaemon, TailBehindChunk
  <2>5. CASE BeginSweep(d) \/ Evaluate(d) \/ NoLeafChunk(d) \/ NoCondensedChunk(d)
    BY <1>1, <2>5 DEF BeginSweep, Evaluate, NoLeafChunk, NoCondensedChunk
  <2>6. CASE MeasureBefore(d) \/ Summarize(d) \/ MeasureAfter(d) \/ Finish(d)
    BY <1>1, <2>6 DEF MeasureBefore, Summarize, MeasureAfter, Finish
  <2> QED
    BY <1>5, <2>1, <2>2, <2>3, <2>4, <2>5, <2>6 DEF Step
<1>6. ASSUME NEW d \in Daemons, RunStops(d)
      PROVE  TailBehindChunk'
  BY <1>1, <1>6 DEF RunStops, IInv, Control, storeVars
<1> QED
  BY <1>2, <1>3, <1>4, <1>5, <1>6 DEF Next

LEMMA TailStep ==
    ASSUME OneDaemon, IInv, TailBehindChunk, [Next]_vars
    PROVE  TailKept
<1>1. ASSUME context' = context PROVE TailKept
  BY <1>1 DEF TailKept
<1>2. ASSUME NEW tokens \in MessageTokens, Ingest(tokens)
      PROVE  TailKept
  <2>1. context' = Append(context, MessageItem(Len(messages) + 1))
    BY <1>2 DEF Ingest, appendTranscriptMessage
  <2>2. /\ Len(context) \in Nat /\ DOMAIN context = 1..Len(context)
        /\ DOMAIN context' = 1..(Len(context) + 1)
        /\ \A n \in DOMAIN context : context'[n] = context[n]
    BY <2>1, AppendRow DEF IInv, StoreShape
  <2>3. \A n \in DOMAIN context : n \in DOMAIN context'
    BY <2>2
  <2> QED BY <2>2, <2>3 DEF TailKept
<1>3. ASSUME NEW d \in Daemons, Commit(d)
      PROVE  TailKept
  <2>1. PICK j : j = job[d]
    OBVIOUS
  <2>2. FreshChunk(j)
    BY <1>3, <2>1 DEF IInv, ChunkFresh, Busy, Commit
  <2>3. /\ Len(context) \in Nat /\ DOMAIN context = 1..Len(context)
        /\ j.first \in 1..Len(context) /\ j.last \in 1..Len(context)
        /\ j.first <= j.last
    BY <2>2, LenProperties DEF IInv, StoreShape, FreshChunk
  <2>4. PICK w \in Nat : w = j.last - j.first
    BY <2>3
  <2>5. PICK k \in Nat : context' = RangeReplaced(j.first, j.last, SummaryItem(k))
    <3>1. Len(summaries) + 1 \in Nat
      BY LenProperties DEF IInv, StoreShape
    <3> QED BY <1>3, <2>1, <3>1 DEF Commit, replaceContextRangeWithSummary
  <2>6. /\ DOMAIN context' = 1..(Len(context) - w)
        /\ \A n \in DOMAIN context' : n < j.first =>
               n \in DOMAIN context /\ context'[n] = context[n]
        /\ \A n \in DOMAIN context' : n > j.first =>
               n + w \in DOMAIN context /\ context'[n] = context[n + w]
    BY <2>2, <2>4, <2>5, Replaced DEF IInv
  <2> SUFFICES ASSUME NEW i \in DOMAIN context, IsMessage(context[i]),
                      Cardinality(RawAfter(i)) < FreshTailCount
               PROVE  \E n \in DOMAIN context' : context'[n] = context[i]
    BY DEF TailKept
  <2>7. CASE i < j.first
    <3>1. i \in DOMAIN context'
      BY <2>3, <2>4, <2>6, <2>7
    <3> QED BY <2>6, <2>7, <3>1
  <2>8. CASE i \in j.first..j.last
    <3>1. j.kind = "leaf"
      BY <2>2, <2>8 DEF FreshChunk, AtDepth, IsMessage, IsSummary
    <3>2. Cardinality(RawAfter(i)) >= FreshTailCount
      BY <1>3, <2>1, <2>8, <3>1 DEF TailBehindChunk, Busy, Commit
    <3>3. Cardinality(RawAfter(i)) \in Nat
      BY RawAfterFinite DEF IInv
    <3> QED BY <3>2, <3>3, ConfigAssumption
  <2>9. CASE i > j.last
    <3>1. PICK n \in Int : n = i - w
      BY <2>3
    <3>2. n > j.first
      BY <2>3, <2>4, <2>9, <3>1
    <3>3. n \in 1..(Len(context) - w) /\ n + w = i
      BY <2>3, <3>1, <3>2
    <3> QED BY <2>6, <3>2, <3>3
  <2> QED BY <2>3, <2>7, <2>8, <2>9
<1>4. ASSUME NEW d \in Daemons, Step(d), ~Commit(d)
      PROVE  context' = context
  BY <1>4 DEF Step, storeVars, BeginSweep, Evaluate, SelectLeaf, NoLeafChunk,
              SelectCondensed, NoCondensedChunk, MeasureBefore, Summarize,
              MeasureAfter, PersistEvent, appendEventMessage, Finish
<1>5. ASSUME NEW d \in Daemons, RunStops(d) \/ \E req \in Requests : StartRun(d, req)
      PROVE  context' = context
  BY <1>5 DEF RunStops, StartRun, storeVars
<1>6. ASSUME UNCHANGED vars PROVE context' = context
  BY <1>6 DEF vars
<1> QED
  BY <1>1, <1>2, <1>3, <1>4, <1>5, <1>6 DEF Next

\* With one daemon, no step folds one of the last FreshTailCount raw messages
\* into a summary, however many were appended since the chunk was selected.
THEOREM FreshTailAlways == OneDaemon => (Spec => FreshTailProtected)
<1> SUFFICES ASSUME OneDaemon PROVE Spec => FreshTailProtected
  OBVIOUS
<1>1. Spec => []IInv
  BY Inv
<1>2. Init => TailBehindChunk
  BY DEF Init, TailBehindChunk, Busy
<1>3. IInv /\ TailBehindChunk /\ [Next]_vars => TailBehindChunk'
  BY TailNext
<1>4. IInv /\ TailBehindChunk /\ [Next]_vars => TailKept
  BY TailStep
<1> QED
  BY <1>1, <1>2, <1>3, <1>4, PTL DEF Spec, FreshTailProtected

-----------------------------------------------------------------------------
(* Every summary is referred to once.                                      *)

Holders(s) == {i \in DOMAIN context : context[i] = SummaryItem(s)}
Parents(s) == {t \in DOMAIN summaries :
                  summaries[t].depth > 0 /\ s \in SourceIds(t)}

\* A summary is in the list at one place, or a source of one other.
Placed(s) ==
    \/ Parents(s) = {} /\ \E i : Holders(s) = {i}
    \/ Holders(s) = {} /\ \E t : Parents(s) = {t}

AllPlaced == \A s \in DOMAIN summaries : Placed(s)

LEMMA PlacedIsReferenced ==
    ASSUME AllPlaced PROVE SummariesReferenced
<1>1. Cardinality({}) = 0 /\ \A x : Cardinality({x}) = 1
  BY FS_EmptySet, FS_Singleton
<1>2. ASSUME NEW s \in DOMAIN summaries
      PROVE  Cardinality(Holders(s)) + Cardinality(Parents(s)) = 1
  <2>1. CASE Parents(s) = {} /\ \E i : Holders(s) = {i}
    <3>1. Cardinality(Holders(s)) = 1 /\ Cardinality(Parents(s)) = 0
      BY <1>1, <2>1
    <3> QED BY <3>1
  <2>2. CASE Holders(s) = {} /\ \E t : Parents(s) = {t}
    <3>1. Cardinality(Holders(s)) = 0 /\ Cardinality(Parents(s)) = 1
      BY <1>1, <2>2
    <3> QED BY <3>1
  <2> QED BY <2>1, <2>2 DEF AllPlaced, Placed
<1> QED
  BY <1>2 DEF SummariesReferenced, Holders, Parents

\* An item of the list that refers to a summary is its item.
LEMMA SummaryItems ==
    ASSUME StoreShape, NEW i \in DOMAIN context, ~IsMessage(context[i])
    PROVE  context[i] = SummaryItem(context[i].id)
<1>1. context[i] \in ContextItem
  BY LenProperties DEF StoreShape
<1> QED
  BY <1>1 DEF ContextItem, IsMessage, SummaryItem

\* Where the rows and the list are the same, so are the places.
LEMMA PlacedStutter ==
    ASSUME AllPlaced, context' = context, summaries' = summaries
    PROVE  AllPlaced'
<1>1. \A s : Holders(s)' = Holders(s) /\ Parents(s)' = Parents(s)
  BY DEF Holders, Parents, SourceIds
<1> QED
  BY <1>1 DEF AllPlaced, Placed

\* A message put behind the list moves no summary.
LEMMA PlacedIngest ==
    ASSUME IInv, AllPlaced, NEW tokens \in MessageTokens, Ingest(tokens)
    PROVE  AllPlaced'
<1> DEFINE item == MessageItem(Len(messages) + 1)
<1>1. context' = Append(context, item) /\ summaries' = summaries
  BY DEF Ingest, appendTranscriptMessage
<1>2. /\ Len(context) \in Nat /\ DOMAIN context = 1..Len(context)
      /\ DOMAIN context' = 1..(Len(context) + 1)
      /\ \A i \in DOMAIN context : context'[i] = context[i]
      /\ context'[Len(context) + 1] = item
  BY <1>1, AppendRow DEF IInv, StoreShape
<1>3. \A s : item # SummaryItem(s)
  BY DEF MessageItem, SummaryItem
<1>4. \A s : Holders(s)' = Holders(s)
  BY <1>2, <1>3 DEF Holders
<1>5. \A s : Parents(s)' = Parents(s)
  BY <1>1 DEF Parents, SourceIds
<1> QED
  BY <1>1, <1>4, <1>5 DEF AllPlaced, Placed

\* A pass takes the places of its sources in the list and becomes their
\* parent; the new summary takes their place.
LEMMA PlacedCommit ==
    ASSUME IInv, AllPlaced, NEW j, FreshChunk(j), NEW k, NEW size,
           NEW earliest, NEW latest, CommitOf(j, k, size, earliest, latest)
    PROVE  AllPlaced'
<1> DEFINE w == j.last - j.first
           row == NewSummary(j, size, earliest, latest)
           chunk == j.first..j.last
<1> HIDE DEF w, row, chunk
<1>1. /\ k \in Nat /\ DOMAIN summaries = 1..(k - 1)
      /\ DOMAIN summaries' = 1..k
      /\ \A s \in DOMAIN summaries : summaries'[s] = summaries[s]
      /\ summaries'[k] = row
      /\ summaries' \in Seq({summaries'[s] : s \in DOMAIN summaries'})
      /\ Transcript' = Transcript
  BY CommitRow DEF row
<1>2. /\ DOMAIN context' = 1..(Len(context) - w)
      /\ j.first \in DOMAIN context' /\ context'[j.first] = SummaryItem(k)
      /\ \A i \in DOMAIN context' : i < j.first =>
             i \in DOMAIN context /\ context'[i] = context[i]
      /\ \A i \in DOMAIN context' : i > j.first =>
             i + w \in DOMAIN context /\ context'[i] = context[i + w]
  BY <1>1, Replaced DEF IInv, CommitOf, w
<1>3. /\ Len(context) \in Nat /\ DOMAIN context = 1..Len(context)
      /\ j.first \in DOMAIN context /\ j.last \in DOMAIN context
      /\ j.first <= j.last /\ w \in Nat
      /\ chunk \subseteq DOMAIN context
  <2>1. /\ Len(context) \in Nat /\ DOMAIN context = 1..Len(context)
        /\ j.first \in DOMAIN context /\ j.last \in DOMAIN context
        /\ j.first <= j.last
    BY LenProperties DEF IInv, StoreShape, FreshChunk
  <2> QED BY <2>1 DEF w, chunk
<1>4. SourceIds(k)' = {context[i].id : i \in chunk}
  <2>1. SourceIds(k)' = {Sources(j)[n] : n \in DOMAIN Sources(j)}
    BY <1>1 DEF SourceIds, NewSummary, row
  <2> QED BY <2>1, NewSources DEF chunk
<1>5. \A t \in DOMAIN summaries : SourceIds(t)' = SourceIds(t)
  BY <1>1 DEF SourceIds
<1>6. \A s, i : i \in Holders(s) => i \in DOMAIN context /\ context[i].id = s
                                       /\ s \in DOMAIN summaries
  <2> SUFFICES ASSUME NEW s, NEW i \in Holders(s)
               PROVE  i \in DOMAIN context /\ context[i].id = s
                         /\ s \in DOMAIN summaries
    OBVIOUS
  <2>1. i \in DOMAIN context /\ context[i] = SummaryItem(s)
    BY DEF Holders
  <2>2. ~IsMessage(context[i]) /\ context[i].id = s
    BY <2>1 DEF IsMessage, SummaryItem
  <2> QED BY <2>1, <2>2 DEF IInv, ReferencesValid
\* What the list's changes do to the places of a summary.
<1>7. \A s \in DOMAIN summaries : \A i :
          (Holders(s) \cap chunk = {} /\ Holders(s) = {i})
              => \E n : Holders(s)' = {n}
  <2> SUFFICES ASSUME NEW s \in DOMAIN summaries, NEW i,
                      Holders(s) \cap chunk = {}, Holders(s) = {i}
               PROVE  \E n : Holders(s)' = {n}
    OBVIOUS
  <2>1. i \in DOMAIN context /\ context[i] = SummaryItem(s) /\ i \notin chunk
    BY DEF Holders
  <2>2. \A x \in DOMAIN context : context[x] = SummaryItem(s) => x = i
    BY DEF Holders
  <2>3. SummaryItem(k) # SummaryItem(s)
    BY <1>1 DEF SummaryItem
  <2>6. Holders(s)' = {x \in DOMAIN context' : context'[x] = SummaryItem(s)}
    BY DEF Holders, SummaryItem
  <2>4. CASE i < j.first
    <3>1. i \in DOMAIN context' /\ context'[i] = SummaryItem(s)
      BY <1>2, <1>3, <2>1, <2>4
    <3>2. \A x \in DOMAIN context' : context'[x] = SummaryItem(s) => x = i
      <4> SUFFICES ASSUME NEW x \in DOMAIN context',
                          context'[x] = SummaryItem(s), x # i
                   PROVE  FALSE
        OBVIOUS
      <4>1. CASE x < j.first
        BY <1>2, <2>2, <4>1
      <4>2. CASE x = j.first
        BY <1>2, <2>3, <4>2
      <4>3. CASE x > j.first
        <5>1. x + w = i
          BY <1>2, <2>2, <4>3
        <5> QED BY <1>2, <1>3, <2>1, <2>4, <4>3, <5>1
      <4> QED BY <1>2, <1>3, <4>1, <4>2, <4>3
    <3>3. Holders(s)' = {i}
      BY <2>6, <3>1, <3>2
    <3> QED BY <3>3
  <2>5. CASE i > j.last
    <3>1. PICK n \in Int : n = i - w
      BY <1>3, <2>1
    <3>2. n > j.first
      BY <1>3, <2>1, <2>5, <3>1 DEF w
    <3>3. n \in 1..(Len(context) - w) /\ n + w = i
      <4> QED BY <1>3, <2>1, <3>1, <3>2
    <3>4. n \in DOMAIN context' /\ context'[n] = SummaryItem(s)
      BY <1>2, <2>1, <3>2, <3>3
    <3>5. \A x \in DOMAIN context' : context'[x] = SummaryItem(s) => x = n
      <4> SUFFICES ASSUME NEW x \in DOMAIN context',
                          context'[x] = SummaryItem(s), x # n
                   PROVE  FALSE
        OBVIOUS
      <4>1. CASE x < j.first
        <5>1. x = i
          BY <1>2, <2>2, <4>1
        <5> QED BY <1>3, <2>1, <2>5, <4>1, <5>1
      <4>2. CASE x = j.first
        BY <1>2, <2>3, <4>2
      <4>3. CASE x > j.first
        <5>1. x + w = i
          BY <1>2, <2>2, <4>3
        <5>2. x \in Int
          BY <1>2
        <5> QED BY <1>3, <3>3, <3>1, <5>1, <5>2
      <4> QED BY <1>2, <1>3, <4>1, <4>2, <4>3
    <3>6. Holders(s)' = {n}
      BY <2>6, <3>4, <3>5, Zenon
    <3> QED BY <3>6
  <2>7. i < j.first \/ i > j.last
    BY <1>3, <2>1 DEF chunk
  <2> QED BY <2>4, <2>5, <2>7
<1>8. \A s \in DOMAIN summaries : Holders(s) \subseteq chunk => Holders(s)' = {}
  <2> SUFFICES ASSUME NEW s \in DOMAIN summaries, Holders(s) \subseteq chunk,
                      NEW x \in DOMAIN context', context'[x] = SummaryItem(s)
               PROVE  FALSE
    BY DEF Holders, SummaryItem
  <2>1. \A i \in DOMAIN context : context[i] = SummaryItem(s) => i \in chunk
    BY DEF Holders
  <2>2. SummaryItem(k) # SummaryItem(s)
    BY <1>1 DEF SummaryItem
  <2>3. CASE x < j.first
    BY <1>2, <1>3, <2>1, <2>3 DEF chunk
  <2>4. CASE x = j.first
    BY <1>2, <2>2, <2>4
  <2>5. CASE x > j.first
    <3>1. x + w \in chunk
      BY <1>2, <2>1, <2>5
    <3> QED BY <1>2, <1>3, <2>5, <3>1 DEF chunk, w
  <2> QED BY <1>2, <1>3, <2>3, <2>4, <2>5
<1>9. Holders(k)' = {j.first}
  <2>1. \A i \in DOMAIN context : context[i] # SummaryItem(k)
    <3>1. k \notin DOMAIN summaries
      BY <1>1
    <3> QED BY <1>6, <3>1 DEF Holders
  <2>2. ASSUME NEW x \in DOMAIN context', context'[x] = SummaryItem(k)
        PROVE  x = j.first
    <3>1. CASE x < j.first
      BY <1>2, <2>1, <2>2, <3>1
    <3>2. CASE x > j.first
      BY <1>2, <2>1, <2>2, <3>2
    <3> QED BY <1>2, <1>3, <3>1, <3>2
  <2>3. SummaryItem(k)' = SummaryItem(k)
    BY DEF SummaryItem
  <2>4. Holders(k)' = {i \in DOMAIN context' : context'[i] = SummaryItem(k)}
    BY <2>3 DEF Holders
  <2> QED BY <1>2, <2>2, <2>4
\* Who the parents are.
<1>10. \A t \in DOMAIN summaries :
           summaries[t].depth > 0 => SourceIds(t) \subseteq DOMAIN summaries
  <2> SUFFICES ASSUME NEW t \in DOMAIN summaries, summaries[t].depth > 0
               PROVE  SourceIds(t) \subseteq DOMAIN summaries
    OBVIOUS
  <2>1. CondensedLineage(t)
    BY DEF IInv, LineageTiles, SummariesValid
  <2> QED BY <1>1, <2>1 DEF CondensedLineage
<1>11. \A s : Parents(s)' =
          Parents(s) \cup (IF row.depth > 0 /\ s \in SourceIds(k)' THEN {k} ELSE {})
  <2>1. DOMAIN summaries' = DOMAIN summaries \cup {k}
    <3>1. k \in 1..k
      <4>1. k = Len(summaries) + 1 /\ Len(summaries) \in Nat
        BY LenProperties DEF IInv, StoreShape, CommitOf
      <4> QED BY <4>1
    <3> QED BY <1>1, <3>1
  <2> SUFFICES ASSUME NEW s
               PROVE  Parents(s)' = Parents(s) \cup
                  (IF row.depth > 0 /\ s \in SourceIds(k)' THEN {k} ELSE {})
    OBVIOUS
  <2>2. \A t \in DOMAIN summaries' : t \in Parents(s)' <=>
            summaries'[t].depth > 0 /\ s \in SourceIds(t)'
    BY DEF Parents
  <2>3. \A t \in DOMAIN summaries : t \in Parents(s)' <=> t \in Parents(s)
    BY <1>1, <1>5, <2>1, <2>2 DEF Parents
  <2>4. k \in Parents(s)' <=> row.depth > 0 /\ s \in SourceIds(k)'
    BY <1>1, <2>1, <2>2
  <2>5. Parents(s)' \subseteq DOMAIN summaries \cup {k}
    BY <2>1 DEF Parents
  <2>6. Parents(s) \subseteq DOMAIN summaries
    BY DEF Parents
  <2>7. k \notin DOMAIN summaries
    BY <1>1
  <2> QED BY <2>3, <2>4, <2>5, <2>6, <2>7
<1>12. CASE j.kind = "leaf"
  <2>1. row.depth = 0
    BY <1>12 DEF NewSummary, row
  <2>2. \A s : Parents(s)' = Parents(s)
    BY <1>11, <2>1
  <2>3. \A i \in chunk : IsMessage(context[i])
    BY <1>12 DEF FreshChunk, chunk
  <2>4. \A s : Holders(s) \cap chunk = {}
    BY <2>3 DEF Holders, IsMessage, SummaryItem
  <2>5. ASSUME NEW s \in DOMAIN summaries PROVE Placed(s)'
    <3>1. CASE Parents(s) = {} /\ \E i : Holders(s) = {i}
      BY <1>7, <2>2, <2>4, <3>1 DEF Placed
    <3>2. CASE Holders(s) = {} /\ \E t : Parents(s) = {t}
      BY <1>8, <2>2, <3>2 DEF Placed
    <3> QED BY <3>1, <3>2 DEF AllPlaced, Placed
  <2>6. Parents(k) = {}
    BY <1>1, <1>10 DEF Parents
  <2>7. Placed(k)'
    BY <1>9, <2>2, <2>6 DEF Placed
  <2> QED BY <1>1, <2>5, <2>7 DEF AllPlaced
<1>13. CASE j.kind = "condensed"
  <2>1. \A i \in chunk : /\ ~IsMessage(context[i])
                         /\ context[i].id \in DOMAIN summaries
                         /\ context[i] = SummaryItem(context[i].id)
    BY <1>3, <1>13, SummaryItems
       DEF IInv, ReferencesValid, FreshChunk, AtDepth, IsSummary, IsMessage,
           chunk
  <2>2. row.depth > 0
    <3>0. j.first \in chunk
      BY <1>3 DEF chunk
    <3>1. j.first \in chunk /\ summaries[context[j.first].id].depth = j.depth
      BY <1>13, <3>0 DEF FreshChunk, AtDepth, chunk
    <3>2. j.depth \in Nat
      BY <2>1, <3>1 DEF IInv, SummariesValid
    <3> QED BY <1>13, <3>2 DEF NewSummary, row
  <2>3. \A s : s \in SourceIds(k)' <=> Holders(s) \cap chunk # {}
    <3>1. ASSUME NEW s, s \in SourceIds(k)' PROVE Holders(s) \cap chunk # {}
      <4>1. PICK i \in chunk : s = context[i].id
        BY <1>4, <3>1
      <4>2. i \in Holders(s)
        BY <1>3, <2>1, <4>1 DEF Holders
      <4> QED BY <4>1, <4>2
    <3>2. ASSUME NEW s, Holders(s) \cap chunk # {} PROVE s \in SourceIds(k)'
      BY <1>4, <1>6, <3>2
    <3> QED BY <3>1, <3>2
  <2>4. ASSUME NEW s \in DOMAIN summaries PROVE Placed(s)'
    <3>1. CASE Parents(s) = {} /\ \E i : Holders(s) = {i}
      <4>1. PICK i : Holders(s) = {i}
        BY <3>1
      <4>2. CASE i \in chunk
        <5>1. Holders(s)' = {}
          BY <1>8, <4>1, <4>2
        <5>2. Parents(s)' = {k}
          BY <1>11, <2>2, <2>3, <3>1, <4>1, <4>2
        <5> QED BY <5>1, <5>2 DEF Placed
      <4>3. CASE i \notin chunk
        <5>1. Holders(s) \cap chunk = {}
          BY <4>1, <4>3
        <5>2. \E n : Holders(s)' = {n}
          BY <1>7, <4>1, <5>1
        <5>3. Parents(s)' = {}
          BY <1>11, <2>3, <3>1, <5>1
        <5> QED BY <5>2, <5>3 DEF Placed
      <4> QED BY <4>2, <4>3
    <3>2. CASE Holders(s) = {} /\ \E t : Parents(s) = {t}
      <4>1. Holders(s)' = {}
        BY <1>8, <3>2
      <4>2. Parents(s)' = Parents(s)
        BY <1>11, <2>3, <3>2
      <4> QED BY <3>2, <4>1, <4>2 DEF Placed
    <3> QED BY <3>1, <3>2 DEF AllPlaced, Placed
  <2>5. Placed(k)'
    <3>1. k \notin DOMAIN summaries
      BY <1>1
    <3>2. Parents(k) = {}
      BY <1>10, <3>1 DEF Parents
    <3>3. k \notin SourceIds(k)'
      BY <1>4, <2>1, <3>1
    <3>4. Parents(k)' = {}
      BY <1>11, <3>2, <3>3
    <3> QED BY <1>9, <3>4 DEF Placed
  <2> QED BY <1>1, <2>4, <2>5 DEF AllPlaced
<1> QED
  BY <1>12, <1>13 DEF FreshChunk

\* The other steps leave the list and the summaries as they are.
LEMMA PlacedStep ==
    ASSUME OneDaemon, IInv, AllPlaced, [Next]_vars
    PROVE  AllPlaced'
<1>1. ASSUME NEW tokens \in MessageTokens, Ingest(tokens)
      PROVE  AllPlaced'
  BY <1>1, PlacedIngest
<1>2. ASSUME NEW d \in Daemons, Commit(d)
      PROVE  AllPlaced'
  <2>1. FreshChunk(job[d])
    BY <1>2 DEF IInv, ChunkFresh, Busy, Commit
  <2>2. PICK earliest, latest \in DOMAIN messages :
           CommitOf(job[d], Len(summaries) + 1, draft[d], earliest, latest)
    BY <1>2 DEF Commit, CommitOf, insertSummary, replaceContextRangeWithSummary
  <2>3. PICK j, k, size : j = job[d] /\ k = Len(summaries) + 1 /\ size = draft[d]
    OBVIOUS
  <2>4. FreshChunk(j) /\ CommitOf(j, k, size, earliest, latest)
    BY <2>1, <2>2, <2>3
  <2> QED BY <2>4, PlacedCommit
<1>3. ASSUME NEW d \in Daemons, Step(d), ~Commit(d)
      PROVE  context' = context /\ summaries' = summaries
  BY <1>3 DEF Step, storeVars, BeginSweep, Evaluate, SelectLeaf, NoLeafChunk,
              SelectCondensed, NoCondensedChunk, MeasureBefore, Summarize,
              MeasureAfter, PersistEvent, appendEventMessage, Finish
<1>4. ASSUME NEW d \in Daemons, RunStops(d) \/ \E req \in Requests : StartRun(d, req)
      PROVE  context' = context /\ summaries' = summaries
  BY <1>4 DEF RunStops, StartRun, storeVars
<1>5. ASSUME UNCHANGED vars
      PROVE  context' = context /\ summaries' = summaries
  BY <1>5 DEF vars
<1> QED
  BY <1>1, <1>2, <1>3, <1>4, <1>5, PlacedStutter DEF Next

\* With one daemon, a stored summary is in the list at one place or a source
\* of one other, wherever the runs that wrote it were stopped.
THEOREM SummariesReferencedAlways ==
    OneDaemon => (Spec => []SummariesReferenced)
<1> SUFFICES ASSUME OneDaemon PROVE Spec => []SummariesReferenced
  OBVIOUS
<1>1. Spec => []IInv
  BY Inv
<1>2. Init => AllPlaced
  BY DEF Init, StoreInit, AllPlaced
<1>3. IInv /\ AllPlaced /\ [Next]_vars => AllPlaced'
  BY PlacedStep
<1>4. AllPlaced => SummariesReferenced
  BY PlacedIsReferenced
<1> QED
  BY <1>1, <1>2, <1>3, <1>4, PTL DEF Spec

-----------------------------------------------------------------------------
(* Induction over a finite set, with the sets for which a claim holds      *)
(* collected in a set.                                                     *)

\* If a subset is good whenever its own subsets are, the set is good.
LEMMA GoodSubsets ==
    ASSUME NEW S, IsFiniteSet(S), NEW Good,
           \A U \in SUBSET S :
               (\A V \in SUBSET U : V # U => V \in Good) => U \in Good
    PROVE  S \in Good
<1> DEFINE Bad == {U \in SUBSET S : U \notin Good}
<1> SUFFICES ASSUME S \notin Good PROVE FALSE
  OBVIOUS
<1>1. IsWellFoundedOn(StrictSubsetOrdering(S), SUBSET S)
  <2>1. FiniteSubsetsOf(S) = SUBSET S
    BY FS_FiniteSubsetsOfFinite
  <2>2. IsWellFoundedOn(StrictSubsetOrdering(S), FiniteSubsetsOf(S))
    BY FS_StrictSubsetOrderingWellFounded
  <2> QED BY <2>1, <2>2, Zenon
<1>2. Bad \subseteq SUBSET S /\ Bad # {}
  OBVIOUS
<1> HIDE DEF Bad
<1>3. PICK U \in Bad : \A V \in Bad : <<V, U>> \notin StrictSubsetOrdering(S)
  BY <1>1, <1>2, WFMin
<1>4. U \in SUBSET S /\ U \notin Good
  BY DEF Bad
<1>5. ASSUME NEW V \in SUBSET U, V # U PROVE V \in Good
  <2>1. V \in SUBSET S
    BY <1>4
  <2>2. <<V, U>> \in StrictSubsetOrdering(S)
    BY <1>4, <1>5, <2>1 DEF StrictSubsetOrdering
  <2> QED BY <1>3, <2>1, <2>2 DEF Bad
<1> QED BY <1>4, <1>5

\* If the empty set is good, and a good set with one more element is, the
\* set is good.
LEMMA GoodByElement ==
    ASSUME NEW S, IsFiniteSet(S), NEW Good, {} \in Good,
           \A V \in SUBSET S : V \in Good =>
               \A x \in S \ V : V \cup {x} \in Good
    PROVE  S \in Good
<1>1. ASSUME NEW U \in SUBSET S, \A V \in SUBSET U : V # U => V \in Good
      PROVE  U \in Good
  <2>1. CASE U = {}
    BY <2>1
  <2>2. CASE U # {}
    <3>1. PICK x : x \in U
      BY <2>2
    <3>2. U \ {x} \in Good /\ U \ {x} \in SUBSET S /\ x \in S \ (U \ {x})
      BY <1>1, <3>1
    <3>3. (U \ {x}) \cup {x} = U
      BY <3>1
    <3>4. (U \ {x}) \cup {x} \in Good
      BY <3>2
    <3> QED BY <3>3, <3>4
  <2> QED BY <2>1, <2>2
<1> QED BY <1>1, GoodSubsets

-----------------------------------------------------------------------------
(* Sums over finite sets.  MapThenSumSet takes elements away one by one,   *)
(* in an order that CHOOSE fixes; the sum does not depend on it.           *)

\* The partial sums of g over the subsets of S.
PartialSums(f, g, S) ==
    f = [s \in SUBSET S |-> IF s = {} THEN 0
                            ELSE LET x == CHOOSE x \in s : TRUE
                                 IN  g[x] + f[s \ {x}]]

Sum(g, S) == (CHOOSE f : PartialSums(f, g, S))[S]

First(s) == CHOOSE x \in s : TRUE

LEMMA FirstIn == ASSUME NEW s, s # {} PROVE First(s) \in s
  BY DEF First

LEMMA PartialSumsStep ==
    ASSUME NEW f, NEW g, NEW S, PartialSums(f, g, S)
    PROVE  /\ f[{}] = 0
           /\ \A s \in SUBSET S : s # {} =>
                  f[s] = g[First(s)] + f[s \ {First(s)}]
           /\ f = [s \in SUBSET S |-> f[s]]
<1>1. f = [s \in SUBSET S |-> IF s = {} THEN 0
                              ELSE g[First(s)] + f[s \ {First(s)}]]
  BY DEF PartialSums, First
<1>2. \A s \in SUBSET S : f[s] = IF s = {} THEN 0
                                 ELSE g[First(s)] + f[s \ {First(s)}]
  BY <1>1
<1>3. {} \in SUBSET S
  OBVIOUS
<1> QED BY <1>1, <1>2, <1>3

LEMMA PartialSumsNext ==
    ASSUME NEW f, NEW g, NEW S, PartialSums(f, g, S),
           NEW s \in SUBSET S, s # {}
    PROVE  f[s] = g[First(s)] + f[s \ {First(s)}]
<1>1. f = [t \in SUBSET S |-> IF t = {} THEN 0
                              ELSE g[First(t)] + f[t \ {First(t)}]]
  BY DEF PartialSums, First
<1> QED BY <1>1

LEMMA PartialSumsBuild ==
    ASSUME NEW f, NEW g, NEW S, f = [s \in SUBSET S |-> f[s]], f[{}] = 0,
           \A s \in SUBSET S : s # {} =>
               f[s] = g[First(s)] + f[s \ {First(s)}]
    PROVE  PartialSums(f, g, S)
<1>1. \A s \in SUBSET S : f[s] = IF s = {} THEN 0
                                 ELSE g[First(s)] + f[s \ {First(s)}]
  OBVIOUS
<1>2. f = [s \in SUBSET S |-> IF s = {} THEN 0
                              ELSE g[First(s)] + f[s \ {First(s)}]]
  BY <1>1
<1> QED BY <1>2 DEF PartialSums, First

\* Two tables of the same sums agree on the subsets they share.
LEMMA PartialSumsAgree ==
    ASSUME NEW S, IsFiniteSet(S), NEW S1, NEW S2, S \subseteq S1, S \subseteq S2,
           NEW f1, NEW f2, NEW g1, NEW g2, \A x \in S : g1[x] = g2[x],
           PartialSums(f1, g1, S1), PartialSums(f2, g2, S2)
    PROVE  f1[S] = f2[S]
<1> DEFINE Good == {s \in SUBSET S : f1[s] = f2[s]}
<1>1. ASSUME NEW U \in SUBSET S, \A V \in SUBSET U : V # U => V \in Good
      PROVE  U \in Good
  <2>1. CASE U = {}
    BY <2>1, PartialSumsStep
  <2>2. CASE U # {}
    <3> DEFINE x == First(U)
    <3>1. x \in U
      BY <2>2, FirstIn
    <3>2. U \ {x} \in SUBSET U /\ U \ {x} # U
      BY <3>1
    <3>3. f1[U \ {x}] = f2[U \ {x}]
      BY <1>1, <3>2
    <3>4. U \in SUBSET S1 /\ U \in SUBSET S2 /\ g1[x] = g2[x]
      BY <3>1
    <3>5. f1[U] = g1[x] + f1[U \ {x}]
      BY <2>2, <3>4, PartialSumsNext
    <3>6. f2[U] = g2[x] + f2[U \ {x}]
      BY <2>2, <3>4, PartialSumsNext
    <3> QED BY <3>3, <3>4, <3>5, <3>6
  <2> QED BY <2>1, <2>2
<1> HIDE DEF Good
<1>2. S \in Good
  BY <1>1, GoodSubsets
<1> QED BY <1>2 DEF Good

\* Over a finite set there is such a table.
LEMMA PartialSumsExist ==
    ASSUME NEW S, IsFiniteSet(S), NEW g
    PROVE  \E f : PartialSums(f, g, S)
<1> DEFINE Good == {s \in SUBSET S : \E f : PartialSums(f, g, s)}
           Table(s) == CHOOSE f : PartialSums(f, g, s)
<1>1. ASSUME NEW U \in SUBSET S, \A V \in SUBSET U : V # U => V \in Good
      PROVE  U \in Good
  <2>1. \A V \in SUBSET U : V # U => PartialSums(Table(V), g, V)
    BY <1>1
  <2> DEFINE x == First(U)
             h == [s \in SUBSET U |->
                     IF s = U /\ U # {} THEN g[x] + Table(U \ {x})[U \ {x}]
                     ELSE IF s = {} THEN 0 ELSE Table(s)[s]]
  <2>2. h = [s \in SUBSET U |-> h[s]]
    OBVIOUS
  <2>3. h[{}] = 0
    OBVIOUS
  <2>4. ASSUME NEW s \in SUBSET U, s # {}
        PROVE  h[s] = g[First(s)] + h[s \ {First(s)}]
    <3> DEFINE y == First(s)
    <3>1. y \in s /\ s \ {y} \in SUBSET U /\ s \ {y} # U /\ IsFiniteSet(s \ {y})
      BY <2>4, FirstIn, FS_Subset
    <3>2. h[s \ {y}] = Table(s \ {y})[s \ {y}]
      <4>1. CASE s \ {y} # {}
        BY <3>1, <4>1
      <4>2. CASE s \ {y} = {}
        <5>1. Table({})[{}] = 0
          BY <2>1, <3>1, <4>2, PartialSumsStep
        <5> QED BY <4>2, <5>1
      <4> QED BY <4>1, <4>2
    <3>3. CASE s = U
      <4>1. h[s] = g[x] + Table(U \ {x})[U \ {x}]
        BY <2>4, <3>3
      <4> QED BY <3>2, <3>3, <4>1
    <3>4. CASE s # U
      <4>1. h[s] = Table(s)[s]
        BY <2>4, <3>4
      <4>2. PartialSums(Table(s), g, s) /\ PartialSums(Table(s \ {y}), g, s \ {y})
        BY <2>1, <3>1, <3>4
      <4> HIDE DEF Table
      <4>3. Table(s)[s] = g[y] + Table(s)[s \ {y}]
        <5>1. s \in SUBSET s
          OBVIOUS
        <5> QED BY <2>4, <4>2, <5>1, PartialSumsNext
      <4>4. Table(s)[s \ {y}] = Table(s \ {y})[s \ {y}]
        BY <3>1, <4>2, PartialSumsAgree
      <4> QED BY <3>2, <4>1, <4>3, <4>4
    <3> QED BY <3>3, <3>4
  <2> HIDE DEF h
  <2>5. PartialSums(h, g, U)
    BY <2>2, <2>3, <2>4, PartialSumsBuild
  <2> QED BY <2>5
<1> HIDE DEF Good
<1>2. S \in Good
  BY <1>1, GoodSubsets
<1> QED BY <1>2 DEF Good

\* A sum depends on the summands in its set alone.
LEMMA SumTable ==
    ASSUME NEW S, IsFiniteSet(S), NEW S1, IsFiniteSet(S1), S \subseteq S1,
           NEW g, NEW g1, \A x \in S : g[x] = g1[x],
           NEW f, PartialSums(f, g1, S1)
    PROVE  f[S] = Sum(g, S)
<1> DEFINE h == CHOOSE h : PartialSums(h, g, S)
<1>1. PartialSums(h, g, S)
  BY PartialSumsExist
<1>2. Sum(g, S) = h[S]
  BY DEF Sum
<1> HIDE DEF h
<1>3. S \subseteq S /\ S \subseteq S1 /\ \A x \in S : g1[x] = g[x]
  OBVIOUS
<1>4. f[S] = h[S]
  BY <1>1, <1>3, PartialSumsAgree
<1> QED BY <1>2, <1>4

LEMMA SumSame ==
    ASSUME NEW S, IsFiniteSet(S), NEW g, NEW h, \A x \in S : g[x] = h[x]
    PROVE  Sum(g, S) = Sum(h, S)
<1> DEFINE f == CHOOSE f : PartialSums(f, h, S)
<1>1. PartialSums(f, h, S)
  BY PartialSumsExist
<1>2. Sum(h, S) = f[S]
  BY DEF Sum
<1> HIDE DEF f
<1>3. S \subseteq S
  OBVIOUS
<1>4. f[S] = Sum(g, S)
  BY <1>1, <1>3, SumTable
<1> QED BY <1>2, <1>4

LEMMA SumEmpty == ASSUME NEW g PROVE Sum(g, {}) = 0
<1> DEFINE f == CHOOSE f : PartialSums(f, g, {})
<1>1. IsFiniteSet({})
  BY FS_EmptySet
<1>2. PartialSums(f, g, {})
  BY <1>1, PartialSumsExist
<1>3. Sum(g, {}) = f[{}]
  BY DEF Sum
<1> HIDE DEF f
<1> QED BY <1>2, <1>3, PartialSumsStep

LEMMA SumFirst ==
    ASSUME NEW S, IsFiniteSet(S), S # {}, NEW g
    PROVE  Sum(g, S) = g[First(S)] + Sum(g, S \ {First(S)})
<1> DEFINE f == CHOOSE f : PartialSums(f, g, S)
           T == S \ {First(S)}
<1>1. PartialSums(f, g, S)
  BY PartialSumsExist
<1>2. Sum(g, S) = f[S]
  BY DEF Sum
<1> HIDE DEF f
<1>3. f[S] = g[First(S)] + f[T]
  <2>1. S \in SUBSET S
    OBVIOUS
  <2> QED BY <1>1, <2>1, PartialSumsNext
<1>4. IsFiniteSet(T) /\ T \subseteq S
  BY FS_Subset
<1> HIDE DEF T
<1>5. f[T] = Sum(g, T)
  BY <1>1, <1>4, SumTable
<1> QED BY <1>2, <1>3, <1>5 DEF T

\* A sum of natural numbers is one.
LEMMA SumNat ==
    ASSUME NEW S, IsFiniteSet(S), NEW g, \A x \in S : g[x] \in Nat
    PROVE  Sum(g, S) \in Nat
<1> DEFINE Good == {s \in SUBSET S : Sum(g, s) \in Nat}
<1>1. ASSUME NEW U \in SUBSET S, \A V \in SUBSET U : V # U => V \in Good
      PROVE  U \in Good
  <2>1. CASE U = {}
    BY <2>1, SumEmpty
  <2>2. CASE U # {}
    <3> DEFINE x == First(U)
    <3>1. x \in U
      BY <2>2, FirstIn
    <3>2. U \ {x} \in SUBSET U /\ U \ {x} # U
      BY <3>1
    <3>3. Sum(g, U \ {x}) \in Nat
      BY <1>1, <3>2
    <3>4. IsFiniteSet(U) /\ g[x] \in Nat
      BY <3>1, FS_Subset
    <3>5. Sum(g, U) = g[x] + Sum(g, U \ {x})
      BY <2>2, <3>4, SumFirst
    <3> QED BY <3>3, <3>4, <3>5
  <2> QED BY <2>1, <2>2
<1> HIDE DEF Good
<1>2. S \in Good
  BY <1>1, GoodSubsets
<1> QED BY <1>2 DEF Good

\* Any element may be taken first.
LEMMA SumRemove ==
    ASSUME NEW S, IsFiniteSet(S), NEW g, \A x \in S : g[x] \in Nat, NEW y \in S
    PROVE  Sum(g, S) = g[y] + Sum(g, S \ {y})
<1> DEFINE Good == {s \in SUBSET S :
                       \A z \in s : Sum(g, s) = g[z] + Sum(g, s \ {z})}
<1>1. ASSUME NEW U \in SUBSET S, \A V \in SUBSET U : V # U => V \in Good
      PROVE  U \in Good
  <2> SUFFICES ASSUME NEW z \in U
               PROVE  Sum(g, U) = g[z] + Sum(g, U \ {z})
    OBVIOUS
  <2> DEFINE x == First(U)
             W == (U \ {x}) \ {z}
  <2>1. x \in U /\ IsFiniteSet(U)
    BY FirstIn, FS_Subset
  <2>2. Sum(g, U) = g[x] + Sum(g, U \ {x})
    BY <2>1, SumFirst
  <2> HIDE DEF x
  <2>3. CASE x = z
    BY <2>2, <2>3
  <2>4. CASE x # z
    <3>1. U \ {x} \in Good /\ U \ {z} \in Good
      BY <1>1, <2>1
    <3>2. Sum(g, U \ {x}) = g[z] + Sum(g, W)
      BY <2>4, <3>1
    <3>3. (U \ {z}) \ {x} = W
      OBVIOUS
    <3>4. Sum(g, U \ {z}) = g[x] + Sum(g, W)
      <4>1. Sum(g, U \ {z}) = g[x] + Sum(g, (U \ {z}) \ {x})
        BY <2>1, <2>4, <3>1
      <4> QED BY <3>3, <4>1
    <3>5. Sum(g, W) \in Nat
      <4>1. IsFiniteSet(W) /\ \A v \in W : g[v] \in Nat
        BY <2>1, FS_Subset
      <4> HIDE DEF W
      <4> QED BY <4>1, SumNat
    <3>6. g[x] \in Nat /\ g[z] \in Nat
      BY <2>1
    <3> HIDE DEF W
    <3> QED BY <2>2, <3>2, <3>4, <3>5, <3>6
  <2> QED BY <2>3, <2>4
<1> HIDE DEF Good
<1>2. S \in Good
  BY <1>1, GoodSubsets
<1> QED BY <1>2 DEF Good

LEMMA SumAdd ==
    ASSUME NEW S, IsFiniteSet(S), NEW g, NEW y, y \notin S,
           \A x \in S \cup {y} : g[x] \in Nat
    PROVE  Sum(g, S \cup {y}) = g[y] + Sum(g, S)
<1>1. IsFiniteSet(S \cup {y})
  BY FS_AddElement
<1>2. y \in S \cup {y} /\ (S \cup {y}) \ {y} = S
  OBVIOUS
<1>3. Sum(g, S \cup {y}) = g[y] + Sum(g, (S \cup {y}) \ {y})
  BY <1>1, <1>2, SumRemove
<1> QED BY <1>2, <1>3

\* Ones add up to the number of elements.
LEMMA SumOnes ==
    ASSUME NEW S, IsFiniteSet(S), NEW g, \A x \in S : g[x] = 1
    PROVE  Sum(g, S) = Cardinality(S)
<1> DEFINE Good == {s \in SUBSET S : Sum(g, s) = Cardinality(s)}
<1>1. {} \in Good
  BY SumEmpty, FS_EmptySet
<1>2. ASSUME NEW V \in SUBSET S, V \in Good, NEW x \in S \ V
      PROVE  V \cup {x} \in Good
  <2>1. IsFiniteSet(V) /\ Cardinality(V) \in Nat
    BY FS_Subset, FS_CardinalityType
  <2>2. Cardinality(V \cup {x}) = Cardinality(V) + 1
    BY <2>1, FS_AddElement
  <2>3. x \notin V /\ \A v \in V \cup {x} : g[v] \in Nat
    OBVIOUS
  <2>4. Sum(g, V \cup {x}) = g[x] + Sum(g, V)
    BY <2>1, <2>3, SumAdd
  <2> QED BY <1>2, <2>1, <2>2, <2>4
<1> HIDE DEF Good
<1>3. S \in Good
  BY <1>1, <1>2, GoodByElement
<1> QED BY <1>3 DEF Good

\* The sum over a union of disjoint sets is the sum of their sums.
LEMMA SumUnion ==
    ASSUME NEW A, IsFiniteSet(A), NEW B, IsFiniteSet(B), A \cap B = {},
           NEW g, \A x \in A \cup B : g[x] \in Nat
    PROVE  Sum(g, A \cup B) = Sum(g, A) + Sum(g, B)
<1> DEFINE Good == {s \in SUBSET B : Sum(g, A \cup s) = Sum(g, A) + Sum(g, s)}
<1>0. Sum(g, A) \in Nat
  BY SumNat
<1>1. {} \in Good
  <2>1. A \cup {} = A
    OBVIOUS
  <2> QED BY <1>0, <2>1, SumEmpty
<1>2. ASSUME NEW V \in SUBSET B, V \in Good, NEW x \in B \ V
      PROVE  V \cup {x} \in Good
  <2>1. IsFiniteSet(V) /\ IsFiniteSet(A \cup V)
    BY FS_Subset, FS_Union
  <2>2. x \notin V /\ x \notin A \cup V /\ g[x] \in Nat
        /\ (\A v \in V \cup {x} : g[v] \in Nat)
        /\ (\A v \in (A \cup V) \cup {x} : g[v] \in Nat)
    OBVIOUS
  <2>3. Sum(g, V \cup {x}) = g[x] + Sum(g, V)
    BY <2>1, <2>2, SumAdd
  <2>4. Sum(g, (A \cup V) \cup {x}) = g[x] + Sum(g, A \cup V)
    BY <2>1, <2>2, SumAdd
  <2>5. Sum(g, V) \in Nat
    BY <2>1, <2>2, SumNat
  <2>6. A \cup (V \cup {x}) = (A \cup V) \cup {x}
    OBVIOUS
  <2>7. Sum(g, A \cup V) = Sum(g, A) + Sum(g, V)
    BY <1>2
  <2>8. Sum(g, A \cup (V \cup {x})) = Sum(g, A) + Sum(g, V \cup {x})
    <3>1. Sum(g, A \cup (V \cup {x})) = g[x] + (Sum(g, A) + Sum(g, V))
      BY <2>4, <2>6, <2>7
    <3> QED BY <1>0, <2>2, <2>3, <2>5, <3>1
  <2> QED BY <2>8
<1> HIDE DEF Good
<1>3. B \in Good
  BY <1>1, <1>2, GoodByElement
<1> QED BY <1>3 DEF Good

\* Summing the sums over disjoint sets sums over all of them.
LEMMA SumFibres ==
    ASSUME NEW I, IsFiniteSet(I), NEW F, DOMAIN F = I, NEW g, NEW G,
           \A i \in I : /\ IsFiniteSet(F[i])
                        /\ \A x \in F[i] : g[x] \in Nat
                        /\ G[i] = Sum(g, F[i]),
           \A i, k \in I : i # k => F[i] \cap F[k] = {},
           NEW All, \A x : x \in All <=> \E i \in I : x \in F[i]
    PROVE  IsFiniteSet(All) /\ Sum(G, I) = Sum(g, All)
<1> DEFINE Part(s) == UNION {F[i] : i \in s}
           Good == {s \in SUBSET I :
                       IsFiniteSet(Part(s)) /\ Sum(G, s) = Sum(g, Part(s))}
<1>0. \A i \in I : G[i] \in Nat
  BY SumNat
<1>1. {} \in Good
  <2>1. Part({}) = {}
    OBVIOUS
  <2> QED BY <2>1, SumEmpty, FS_EmptySet
<1>2. ASSUME NEW V \in SUBSET I, V \in Good, NEW k \in I \ V
      PROVE  V \cup {k} \in Good
  <2>1. IsFiniteSet(V) /\ k \notin V /\ \A i \in V \cup {k} : G[i] \in Nat
    BY <1>0, FS_Subset
  <2>2. Sum(G, V \cup {k}) = G[k] + Sum(G, V)
    BY <2>1, SumAdd
  <2>3. Part(V \cup {k}) = Part(V) \cup F[k]
    OBVIOUS
  <2>4. Part(V) \cap F[k] = {}
    OBVIOUS
  <2>5. \A x \in Part(V) \cup F[k] : g[x] \in Nat
    OBVIOUS
  <2>6. IsFiniteSet(Part(V)) /\ IsFiniteSet(F[k])
    BY <1>2
  <2>7. Sum(G, V) = Sum(g, Part(V)) /\ G[k] = Sum(g, F[k])
    BY <1>2
  <2> HIDE DEF Part
  <2>8. IsFiniteSet(Part(V) \cup F[k])
    BY <2>6, FS_Union
  <2>9. Sum(g, Part(V) \cup F[k]) = Sum(g, Part(V)) + Sum(g, F[k])
    BY <2>4, <2>5, <2>6, SumUnion
  <2>10. Sum(g, Part(V)) \in Nat /\ Sum(g, F[k]) \in Nat
    BY <2>5, <2>6, SumNat
  <2>11. Sum(G, V \cup {k}) = Sum(g, Part(V \cup {k}))
    <3>1. Sum(G, V \cup {k}) = Sum(g, F[k]) + Sum(g, Part(V))
      BY <2>2, <2>7
    <3>2. @ = Sum(g, Part(V) \cup F[k])
      BY <2>9, <2>10
    <3> QED BY <2>3, <3>1, <3>2
  <2> QED BY <2>3, <2>8, <2>11
<1> HIDE DEF Good
<1>3. I \in Good
  BY <1>1, <1>2, GoodByElement
<1>4. Part(I) = All
  OBVIOUS
<1> QED BY <1>3, <1>4 DEF Good

\* MapThenSumSet is the sum of its operator's table.
LEMMA RangeTokensSum ==
    ASSUME NEW a, NEW b
    PROVE  RangeTokens(a, b)
              = Sum([i \in a..b |-> ItemTokens(context[i])], a..b)
<1> DEFINE S == a..b
           g == [i \in S |-> ItemTokens(context[i])]
           Rec(f) == f = [s \in SUBSET S |->
                             IF s = {} THEN 0
                             ELSE LET x == CHOOSE x \in s : TRUE
                                  IN  ItemTokens(context[x]) + f[s \ {x}]]
<1>1. RangeTokens(a, b) = (CHOOSE f : Rec(f))[S]
  BY DEF RangeTokens, MapThenSumSet, MapThenFoldSet
<1>2. \A f : Rec(f) <=> PartialSums(f, g, S)
  <2>1. \A s \in SUBSET S : s # {} => (CHOOSE x \in s : TRUE) \in S
    BY FirstIn DEF First
  <2> QED BY <2>1 DEF PartialSums
<1> HIDE DEF Rec, S, g
<1>3. (CHOOSE f : Rec(f)) = (CHOOSE f : PartialSums(f, g, S))
  BY <1>2, Zenon
<1>4. RangeTokens(a, b) = Sum(g, S)
  BY <1>1, <1>3 DEF Sum
<1> QED BY <1>4 DEF S, g

\* The same for the other sums.
LEMMA InputTokensSum ==
    ASSUME NEW j
    PROVE  InputTokens(j)
              = Sum([i \in j.first..j.last |-> ItemTokens(j.items[i]) + HeaderTokens], j.first..j.last)
<1> DEFINE S == j.first..j.last
           g == [i \in S |-> ItemTokens(j.items[i]) + HeaderTokens]
           Rec(f) == f = [s \in SUBSET S |->
                             IF s = {} THEN 0
                             ELSE LET x == CHOOSE x \in s : TRUE
                                  IN  (ItemTokens(j.items[x]) + HeaderTokens) + f[s \ {x}]]
<1>1. InputTokens(j) = (CHOOSE f : Rec(f))[S]
  BY DEF InputTokens, MapThenSumSet, MapThenFoldSet
<1>2. \A f : Rec(f) <=> PartialSums(f, g, S)
  <2>1. \A s \in SUBSET S : s # {} => (CHOOSE x \in s : TRUE) \in S
    BY FirstIn DEF First
  <2> QED BY <2>1 DEF PartialSums
<1> HIDE DEF Rec, S, g
<1>3. (CHOOSE f : Rec(f)) = (CHOOSE f : PartialSums(f, g, S))
  BY <1>2, Zenon
<1>4. InputTokens(j) = Sum(g, S)
  BY <1>1, <1>3 DEF Sum
<1> QED BY <1>4 DEF S, g


LEMMA DescendantCountSum ==
    ASSUME NEW j, j.kind # "leaf"
    PROVE  DescendantCount(j)
              = Sum([i \in j.first..j.last |-> summaries[j.items[i].id].descendantCount + 1], j.first..j.last)
<1> DEFINE S == j.first..j.last
           g == [i \in S |-> summaries[j.items[i].id].descendantCount + 1]
           Rec(f) == f = [s \in SUBSET S |->
                             IF s = {} THEN 0
                             ELSE LET x == CHOOSE x \in s : TRUE
                                  IN  (summaries[j.items[x].id].descendantCount + 1) + f[s \ {x}]]
<1>1. DescendantCount(j) = (CHOOSE f : Rec(f))[S]
  BY DEF DescendantCount, MapThenSumSet, MapThenFoldSet
<1>2. \A f : Rec(f) <=> PartialSums(f, g, S)
  <2>1. \A s \in SUBSET S : s # {} => (CHOOSE x \in s : TRUE) \in S
    BY FirstIn DEF First
  <2> QED BY <2>1 DEF PartialSums
<1> HIDE DEF Rec, S, g
<1>3. (CHOOSE f : Rec(f)) = (CHOOSE f : PartialSums(f, g, S))
  BY <1>2, Zenon
<1>4. DescendantCount(j) = Sum(g, S)
  BY <1>1, <1>3 DEF Sum
<1> QED BY <1>4 DEF S, g


LEMMA SourceTokensSum ==
    ASSUME NEW j
    PROVE  SourceTokens(j)
              = Sum([i \in j.first..j.last |-> IF IsMessage(j.items[i])
                                 THEN messages[j.items[i].id].tokens
                                 ELSE summaries[j.items[i].id].sourceTokens], j.first..j.last)
<1> DEFINE S == j.first..j.last
           g == [i \in S |-> IF IsMessage(j.items[i])
                                 THEN messages[j.items[i].id].tokens
                                 ELSE summaries[j.items[i].id].sourceTokens]
           Rec(f) == f = [s \in SUBSET S |->
                             IF s = {} THEN 0
                             ELSE LET x == CHOOSE x \in s : TRUE
                                  IN  (IF IsMessage(j.items[x])
                                 THEN messages[j.items[x].id].tokens
                                 ELSE summaries[j.items[x].id].sourceTokens) + f[s \ {x}]]
<1>1. SourceTokens(j) = (CHOOSE f : Rec(f))[S]
  BY DEF SourceTokens, MapThenSumSet, MapThenFoldSet
<1>2. \A f : Rec(f) <=> PartialSums(f, g, S)
  <2>1. \A s \in SUBSET S : s # {} => (CHOOSE x \in s : TRUE) \in S
    BY FirstIn DEF First
  <2> QED BY <2>1 DEF PartialSums
<1> HIDE DEF Rec, S, g
<1>3. (CHOOSE f : Rec(f)) = (CHOOSE f : PartialSums(f, g, S))
  BY <1>2, Zenon
<1>4. SourceTokens(j) = Sum(g, S)
  BY <1>1, <1>3 DEF Sum
<1> QED BY <1>4 DEF S, g


LEMMA TokensOfSum ==
    ASSUME NEW M
    PROVE  MapThenSumSet(LAMBDA m : messages[m].tokens, M)
              = Sum([m \in M |-> messages[m].tokens], M)
<1> DEFINE S == M
           g == [m \in S |-> messages[m].tokens]
           Rec(f) == f = [s \in SUBSET S |->
                             IF s = {} THEN 0
                             ELSE LET x == CHOOSE x \in s : TRUE
                                  IN  (messages[x].tokens) + f[s \ {x}]]
<1>1. MapThenSumSet(LAMBDA m : messages[m].tokens, M) = (CHOOSE f : Rec(f))[S]
  BY DEF MapThenSumSet, MapThenFoldSet
<1>2. \A f : Rec(f) <=> PartialSums(f, g, S)
  <2>1. \A s \in SUBSET S : s # {} => (CHOOSE x \in s : TRUE) \in S
    BY FirstIn DEF First
  <2> QED BY <2>1 DEF PartialSums
<1> HIDE DEF Rec, S, g
<1>3. (CHOOSE f : Rec(f)) = (CHOOSE f : PartialSums(f, g, S))
  BY <1>2, Zenon
<1>4. MapThenSumSet(LAMBDA m : messages[m].tokens, M) = Sum(g, S)
  BY <1>1, <1>3 DEF Sum
<1> QED BY <1>4 DEF S, g

-----------------------------------------------------------------------------
(* Well-formedness, for any number of daemons.                             *)

RunRow == [req : Requests \cup {NoRun.req},
           previous : Nat, before : Nat, after : Nat,
           acted : BOOLEAN, depth : Nat, round : Nat, last : Nat]

Labels == {"idle", "begin", "evaluate", "selectLeaf", "selectCondensed",
           "before", "summarize", "commit", "after", "event", "finish"}

\* What a pass selected names stored rows of one kind.  With several daemons
\* the rows need no longer be in the list at its ordinals.
ValidJob(j) ==
    /\ j.kind # "none"
    /\ j.first \in Nat \ {0} /\ j.last \in Nat /\ j.first <= j.last
    /\ j.items \in [j.first..j.last -> ContextItem]
    /\ \A i \in j.first..j.last :
          IF j.kind = "leaf"
            THEN IsMessage(j.items[i]) /\ j.items[i].id \in DOMAIN messages
            ELSE ~IsMessage(j.items[i]) /\ j.items[i].id \in DOMAIN summaries

StoreWF ==
    /\ StoreTypeOK
    /\ ReferencesValid

EngineWF ==
    /\ pc \in [Daemons -> Labels]
    /\ run \in [Daemons -> RunRow]
    /\ draft \in [Daemons -> Nat]
    /\ runs \in Nat

JobsWF ==
    /\ DOMAIN job = Daemons
    /\ \A d \in Daemons :
          /\ job[d].kind \in {"none", "leaf", "condensed"}
          /\ job[d].depth \in Nat
          /\ Busy(d) => ValidJob(job[d])

WellFormed == StoreWF /\ EngineWF /\ JobsWF

LEMMA WellFormedTypes == ASSUME WellFormed PROVE TypeOK
<1>1. StoreTypeOK /\ runs \in Nat
  BY DEF WellFormed, StoreWF, EngineWF
<1>2. pc \in [Daemons -> {"idle", "begin", "evaluate", "selectLeaf",
                           "selectCondensed", "before", "summarize", "commit",
                           "after", "event", "finish"}]
  BY DEF WellFormed, EngineWF, Labels
<1>3. ASSUME NEW d \in Daemons
      PROVE  /\ run[d].req \in Requests \cup {NoRun.req}
             /\ \A n \in {"previous", "before", "after", "depth", "round", "last"} :
                   run[d][n] \in Nat
             /\ draft[d] \in Nat
  <2>1. run[d] \in RunRow /\ draft[d] \in Nat
    BY DEF WellFormed, EngineWF
  <2> QED BY <2>1 DEF RunRow
<1>4. \A d \in Daemons :
          /\ job[d].kind \in {"none", "leaf", "condensed"}
          /\ job[d].depth \in Nat
          /\ Busy(d) => job[d].items \in [job[d].first..job[d].last -> ContextItem]
  BY DEF WellFormed, JobsWF, ValidJob
<1> QED
  BY <1>1, <1>2, <1>3, <1>4 DEF TypeOK

\* An item of the list has a count of tokens and stands for stored messages.
LEMMA ItemTokensNat ==
    ASSUME StoreWF, NEW item,
           IF IsMessage(item) THEN item.id \in DOMAIN messages
                              ELSE item.id \in DOMAIN summaries
    PROVE  ItemTokens(item) \in Nat
<1>1. /\ \A m \in DOMAIN messages : messages[m] \in MessageRow
      /\ \A s \in DOMAIN summaries : summaries[s] \in SummaryRow
  BY LenProperties DEF StoreWF, StoreTypeOK
<1>2. CASE IsMessage(item)
  BY <1>1, <1>2 DEF ItemTokens, MessageRow
<1>3. CASE ~IsMessage(item)
  BY <1>1, <1>3 DEF ItemTokens, SummaryRow
<1> QED BY <1>2, <1>3

LEMMA ContextTokensNat ==
    ASSUME StoreWF
    PROVE  getContextTokenCount \in Nat
<1> DEFINE S == 1..Len(context)
           g == [i \in S |-> ItemTokens(context[i])]
<1>1. Len(context) \in Nat /\ DOMAIN context = S
  BY LenProperties DEF StoreWF, StoreTypeOK
<1>2. IsFiniteSet(S)
  BY <1>1, FS_Interval
<1>3. \A i \in S : ItemTokens(context[i]) \in Nat
  BY <1>1, ItemTokensNat DEF StoreWF, ReferencesValid, Transcript
<1>4. \A i \in S : g[i] \in Nat
  BY <1>3
<1>5. getContextTokenCount = Sum(g, S)
  BY RangeTokensSum DEF getContextTokenCount
<1> HIDE DEF S, g
<1> QED BY <1>2, <1>4, <1>5, SumNat

\* The sums over what a pass selected are numbers.
LEMMA JobSumsNat ==
    ASSUME StoreWF, NEW j, ValidJob(j)
    PROVE  /\ InputTokens(j) \in Nat
           /\ DescendantCount(j) \in Nat
           /\ SourceTokens(j) \in Nat
<1> DEFINE S == j.first..j.last
           g1 == [i \in S |-> ItemTokens(j.items[i]) + HeaderTokens]
           g2 == [i \in S |-> summaries[j.items[i].id].descendantCount + 1]
           g3 == [i \in S |-> IF IsMessage(j.items[i])
                                THEN messages[j.items[i].id].tokens
                                ELSE summaries[j.items[i].id].sourceTokens]
<1>1. IsFiniteSet(S)
  <2>1. j.first \in Int /\ j.last \in Int
    BY DEF ValidJob
  <2> QED BY <2>1, FS_Interval
<1>2. /\ \A m \in DOMAIN messages : messages[m] \in MessageRow
      /\ \A s \in DOMAIN summaries : summaries[s] \in SummaryRow
  BY LenProperties DEF StoreWF, StoreTypeOK
<1>3. \A i \in S : IF IsMessage(j.items[i])
                     THEN j.items[i].id \in DOMAIN messages
                     ELSE j.items[i].id \in DOMAIN summaries
  BY DEF ValidJob
<1>4. \A i \in S : g1[i] \in Nat
  <2>1. \A i \in S : ItemTokens(j.items[i]) \in Nat
    <3> HIDE DEF S
    <3> QED BY <1>3, ItemTokensNat
  <2>2. \A i \in S : g1[i] = ItemTokens(j.items[i]) + HeaderTokens
    OBVIOUS
  <2> HIDE DEF g1, S
  <2> QED BY <2>1, <2>2, ConfigAssumption
<1>5. ASSUME j.kind # "leaf" PROVE \A i \in S : g2[i] \in Nat
  <2>1. \A i \in S : j.items[i].id \in DOMAIN summaries
    BY <1>5 DEF ValidJob
  <2>2. \A i \in S : summaries[j.items[i].id].descendantCount \in Nat
    BY <1>2, <2>1 DEF SummaryRow
  <2> QED BY <2>2
<1>6. \A i \in S : g3[i] \in Nat
  BY <1>2, <1>3 DEF MessageRow, SummaryRow
<1>7. InputTokens(j) = Sum(g1, S) /\ SourceTokens(j) = Sum(g3, S)
  BY InputTokensSum, SourceTokensSum
<1>8. j.kind # "leaf" => DescendantCount(j) = Sum(g2, S)
  BY DescendantCountSum
<1> HIDE DEF S, g1, g2, g3
<1>9. InputTokens(j) \in Nat
  BY <1>1, <1>4, <1>7, SumNat
<1>10. SourceTokens(j) \in Nat
  BY <1>1, <1>6, <1>7, SumNat
<1>11. DescendantCount(j) \in Nat
  <2>1. CASE j.kind = "leaf"
    BY <2>1 DEF DescendantCount
  <2>2. CASE j.kind # "leaf"
    BY <1>1, <1>5, <1>8, <2>2, SumNat
  <2> QED BY <2>1, <2>2
<1> QED BY <1>9, <1>10, <1>11

LEMMA StoreWFShape == ASSUME StoreWF PROVE StoreShape
  BY SeqOverRange DEF StoreWF, StoreTypeOK, StoreShape

\* A chunk of the list is a valid job.
LEMMA ChunkValid ==
    ASSUME StoreWF, NEW first \in DOMAIN context, NEW last \in DOMAIN context,
           first <= last, NEW kind \in {"leaf", "condensed"}, NEW depth,
           \A i \in first..last : IsMessage(context[i]) <=> kind = "leaf"
    PROVE  ValidJob(Chunk(kind, depth, first, last))
<1> DEFINE j == Chunk(kind, depth, first, last)
<1>1. DOMAIN context = 1..Len(context) /\ Len(context) \in Nat
  BY LenProperties DEF StoreWF, StoreTypeOK
<1>2. /\ j.kind = kind /\ j.first = first /\ j.last = last
      /\ j.items = [i \in first..last |-> context[i]]
  BY DEF Chunk
<1>3. \A i \in first..last : i \in DOMAIN context
  BY <1>1
<1>4. \A i \in DOMAIN context : context[i] \in ContextItem
  BY <1>1, LenProperties DEF StoreWF, StoreTypeOK
<1> HIDE DEF j
<1>5. j.items \in [first..last -> ContextItem]
  BY <1>2, <1>3, <1>4
<1>6. \A i \in first..last :
         IF kind = "leaf"
           THEN IsMessage(j.items[i]) /\ j.items[i].id \in DOMAIN messages
           ELSE ~IsMessage(j.items[i]) /\ j.items[i].id \in DOMAIN summaries
  <2> TAKE i \in first..last
  <2>1. j.items[i] = context[i] /\ i \in DOMAIN context
    BY <1>2, <1>3
  <2>2. IF IsMessage(context[i]) THEN context[i].id \in DOMAIN messages
                                 ELSE context[i].id \in DOMAIN summaries
    BY <2>1 DEF StoreWF, ReferencesValid, Transcript
  <2> QED BY <2>1, <2>2
<1>7. ValidJob(j)
  BY <1>1, <1>2, <1>5, <1>6 DEF ValidJob
<1> QED BY <1>7 DEF j

\* The tables only grow: a valid job stays valid.
LEMMA JobGrows ==
    ASSUME NEW j, ValidJob(j), DOMAIN messages \subseteq DOMAIN messages',
           DOMAIN summaries \subseteq DOMAIN summaries'
    PROVE  ValidJob(j)'
  BY DEF ValidJob, IsMessage

LEMMA StoreWFStutter == ASSUME StoreWF, UNCHANGED storeVars PROVE StoreWF'
  BY DEF StoreWF, StoreTypeOK, ReferencesValid, Transcript, storeVars, IsMessage

LEMMA StoreWFEvent ==
    ASSUME StoreWF, appendEventMessage(EventTokens)
    PROVE  StoreWF' /\ DOMAIN messages \subseteq DOMAIN messages'
<1> DEFINE row == [kind |-> "event", tokens |-> EventTokens]
<1>1. /\ messages' = Append(messages, row)
      /\ UNCHANGED <<context, summaries>>
  BY DEF appendEventMessage
<1>2. /\ Len(messages) \in Nat /\ DOMAIN messages = 1..Len(messages)
      /\ DOMAIN messages' = 1..(Len(messages) + 1)
      /\ \A m \in DOMAIN messages : messages'[m] = messages[m]
  BY <1>1, AppendRow DEF StoreWF, StoreTypeOK
<1>3. messages' \in Seq(MessageRow)
  BY <1>1, AppendProperties, ConfigAssumption DEF StoreWF, StoreTypeOK, MessageRow
<1>4. Transcript \subseteq Transcript' /\ DOMAIN messages \subseteq DOMAIN messages'
  BY <1>2 DEF Transcript
<1> QED
  BY <1>1, <1>3, <1>4 DEF StoreWF, StoreTypeOK, ReferencesValid, IsMessage

LEMMA StoreWFIngest ==
    ASSUME StoreWF, NEW tokens \in MessageTokens, appendTranscriptMessage(tokens)
    PROVE  StoreWF' /\ DOMAIN messages \subseteq DOMAIN messages'
<1> DEFINE row == [kind |-> "transcript", tokens |-> tokens]
           new == Len(messages) + 1
<1>1. /\ messages' = Append(messages, row)
      /\ context' = Append(context, MessageItem(new))
      /\ summaries' = summaries
  BY DEF appendTranscriptMessage
<1>2. /\ Len(messages) \in Nat /\ DOMAIN messages = 1..Len(messages)
      /\ DOMAIN messages' = 1..new
      /\ \A m \in DOMAIN messages : messages'[m] = messages[m]
      /\ messages'[new] = row
  BY <1>1, AppendRow DEF StoreWF, StoreTypeOK
<1>3. /\ Len(context) \in Nat /\ DOMAIN context = 1..Len(context)
      /\ DOMAIN context' = 1..(Len(context) + 1)
      /\ \A i \in DOMAIN context : context'[i] = context[i]
      /\ context'[Len(context) + 1] = MessageItem(new)
  BY <1>1, AppendRow DEF StoreWF, StoreTypeOK
<1>4. row \in MessageRow /\ MessageItem(new) \in ContextItem
  BY <1>2, ConfigAssumption DEF MessageRow, ContextItem, MessageItem
<1>5. StoreTypeOK'
  BY <1>1, <1>4, AppendProperties DEF StoreWF, StoreTypeOK
<1>6. /\ Transcript \subseteq Transcript' /\ new \in Transcript'
      /\ DOMAIN messages \subseteq DOMAIN messages'
  BY <1>2 DEF Transcript
<1>7. ReferencesValid'
  <2> SUFFICES ASSUME NEW i \in DOMAIN context'
               PROVE  IF IsMessage(context'[i]) THEN context'[i].id \in Transcript'
                      ELSE context'[i].id \in DOMAIN summaries'
    BY DEF ReferencesValid, IsMessage
  <2>1. CASE i \in DOMAIN context
    BY <1>1, <1>3, <1>6, <2>1 DEF StoreWF, ReferencesValid
  <2>2. CASE i = Len(context) + 1
    BY <1>3, <1>6, <2>2 DEF IsMessage, MessageItem
  <2> QED BY <1>3, <2>1, <2>2
<1> QED BY <1>5, <1>6, <1>7 DEF StoreWF

\* The new row is one of the table's.
LEMMA NewSummaryRow ==
    ASSUME StoreWF, NEW j, ValidJob(j), j.depth \in Nat, NEW size \in Nat,
           NEW earliest \in DOMAIN messages, NEW latest \in DOMAIN messages
    PROVE  NewSummary(j, size, earliest, latest) \in SummaryRow
<1>1. earliest \in Nat /\ latest \in Nat
  BY LenProperties DEF StoreWF, StoreTypeOK
<1>2. DescendantCount(j) \in Nat /\ SourceTokens(j) \in Nat
  BY JobSumsNat
<1>3. (IF j.kind = "leaf" THEN 0 ELSE j.depth + 1) \in Nat
  OBVIOUS
<1>4. Sources(j) \in Seq(Nat)
  <2> DEFINE n == j.last - j.first + 1
  <2>1. n \in Nat
    BY DEF ValidJob
  <2>2. \A i \in 1..n : j.first + i - 1 \in j.first..j.last
    BY DEF ValidJob
  <2>3. \A i \in j.first..j.last : j.items[i].id \in Nat
    BY DEF ValidJob, ContextItem
  <2>4. Sources(j) = [i \in 1..n |-> j.items[j.first + i - 1].id]
    BY DEF Sources
  <2> HIDE DEF n
  <2>5. \A i \in 1..n : j.items[j.first + i - 1].id \in Nat
    BY <2>2, <2>3
  <2> QED BY <2>1, <2>4, <2>5, IsASeq
<1> QED
  BY <1>1, <1>2, <1>3, <1>4 DEF NewSummary, SummaryRow

\* The list after a range of it is replaced.  The range is one of the list's,
\* but its items need not be those that were selected.
LEMMA StoreWFCommit ==
    ASSUME StoreWF, NEW j, ValidJob(j), j.depth \in Nat, NEW size \in Nat,
           NEW earliest \in DOMAIN messages, NEW latest \in DOMAIN messages,
           NEW k, k = Len(summaries) + 1, messages' = messages,
           insertSummary(NewSummary(j, size, earliest, latest)),
           replaceContextRangeWithSummary(j.first, j.last, k)
    PROVE  StoreWF' /\ DOMAIN summaries \subseteq DOMAIN summaries'
<1> DEFINE row == NewSummary(j, size, earliest, latest)
           w == j.last - j.first
           M == Len(context) - w
<1>1. summaries' = Append(summaries, row) /\ row \in SummaryRow
  BY NewSummaryRow DEF insertSummary
<1>2. /\ Len(summaries) \in Nat /\ DOMAIN summaries = 1..Len(summaries)
      /\ DOMAIN summaries' = 1..k
      /\ summaries' \in Seq(SummaryRow)
  BY <1>1, AppendRow, AppendProperties DEF StoreWF, StoreTypeOK
<1>3. k \in Nat /\ k \in DOMAIN summaries' /\ DOMAIN summaries \subseteq DOMAIN summaries'
  BY <1>2
<1>4. /\ Len(context) \in Nat /\ DOMAIN context = 1..Len(context)
      /\ \A i \in DOMAIN context : context[i] \in ContextItem
  BY LenProperties DEF StoreWF, StoreTypeOK
<1>5. /\ j.first \in 1..Len(context) /\ j.last \in 1..Len(context)
      /\ j.first <= j.last
  BY <1>4 DEF ValidJob, replaceContextRangeWithSummary, RangeExists
<1>6. w \in Nat /\ M \in Nat /\ j.first \in 1..M
  BY <1>4, <1>5
<1>7. context' = [i \in 1..M |-> IF i < j.first THEN context[i]
                                ELSE IF i = j.first THEN SummaryItem(k)
                                ELSE context[i + w]]
  BY DEF RangeReplaced, replaceContextRangeWithSummary
<1>8. \A i \in 1..M : /\ i > j.first => i + w \in DOMAIN context
                      /\ i < j.first => i \in DOMAIN context
  BY <1>4, <1>5, <1>6
<1> HIDE DEF w, M
<1>9. \A i \in 1..M : \/ context'[i] = SummaryItem(k)
                      \/ \E p \in DOMAIN context : context'[i] = context[p]
  <2> TAKE i \in 1..M
  <2>1. CASE i < j.first
    BY <1>7, <1>8, <2>1
  <2>2. CASE i = j.first
    BY <1>7, <2>2
  <2>3. CASE i > j.first
    BY <1>5, <1>7, <1>8, <2>3
  <2> QED BY <1>5, <1>6, <2>1, <2>2, <2>3
<1>10. SummaryItem(k) \in ContextItem /\ ~IsMessage(SummaryItem(k))
       /\ SummaryItem(k).id = k
  BY <1>3 DEF SummaryItem, ContextItem, IsMessage
<1>11. context' \in Seq(ContextItem) /\ DOMAIN context' = 1..M
  <2>1. \A i \in 1..M : context'[i] \in ContextItem
    BY <1>4, <1>9, <1>10
  <2>2. context' = [i \in 1..M |-> context'[i]]
    BY <1>7
  <2> QED BY <1>6, <2>1, <2>2, IsASeq
<1>12. ReferencesValid'
  <2> SUFFICES ASSUME NEW i \in DOMAIN context'
               PROVE  IF IsMessage(context'[i]) THEN context'[i].id \in Transcript
                      ELSE context'[i].id \in DOMAIN summaries'
    BY DEF ReferencesValid, IsMessage, Transcript
  <2> QED BY <1>3, <1>9, <1>10, <1>11 DEF StoreWF, ReferencesValid
<1> QED
  BY <1>2, <1>3, <1>11, <1>12 DEF StoreWF, StoreTypeOK

\* A run's row after an assignment to its fields.
LEMMA EngineWFRun ==
    ASSUME EngineWF, NEW d \in Daemons, NEW r \in RunRow, NEW label \in Labels,
           run' = [run EXCEPT ![d] = r], Goto(d, label),
           UNCHANGED <<draft, runs>>
    PROVE  EngineWF'
  BY DEF EngineWF, Goto

LEMMA NoRunRow == NoRun \in RunRow
  BY DEF NoRun, RunRow

\* A run that ends leaves the initial values.
LEMMA EndRunWF ==
    ASSUME EngineWF, JobsWF, NEW d \in Daemons, EndRun(d),
           UNCHANGED <<messages, summaries, runs>>
    PROVE  EngineWF' /\ JobsWF'
<1>1. /\ pc' = [pc EXCEPT ![d] = "idle"]
      /\ run' = [run EXCEPT ![d] = NoRun]
      /\ job' = [job EXCEPT ![d] = NoJob]
      /\ draft' = [draft EXCEPT ![d] = 0]
      /\ runs' = runs
  BY DEF EndRun, Goto
<1>2. "idle" \in Labels /\ 0 \in Nat
  BY DEF Labels
<1>3. EngineWF'
  BY <1>1, <1>2, NoRunRow DEF EngineWF
<1>4. \A e \in Daemons : e # d => (Busy(e)' <=> Busy(e)) /\ job'[e] = job[e]
  BY <1>1 DEF JobsWF, EngineWF, Busy
<1>5. job'[d] = NoJob /\ ~Busy(d)' /\ DOMAIN job' = Daemons
  BY <1>1 DEF JobsWF, EngineWF, Busy
<1>6. \A e : ValidJob(job[e])' <=> ValidJob(job'[e])
  BY DEF ValidJob, IsMessage
<1>7. JobsWF'
  <2> SUFFICES ASSUME NEW e \in Daemons
               PROVE  /\ job'[e].kind \in {"none", "leaf", "condensed"}
                      /\ job'[e].depth \in Nat
                      /\ Busy(e)' => ValidJob(job[e])'
    BY <1>5 DEF JobsWF
  <2>1. CASE e = d
    BY <1>5, <2>1 DEF NoJob
  <2>2. CASE e # d
    BY <1>4, <2>2 DEF JobsWF, ValidJob, IsMessage
  <2> QED BY <2>1, <2>2
<1> QED BY <1>3, <1>7

\* A step that selects nothing and stores nothing keeps the jobs.
LEMMA JobsStutter ==
    ASSUME JobsWF, EngineWF, NEW d \in Daemons, NEW label,
           Goto(d, label), label \in {"before", "summarize", "commit"} => Busy(d),
           UNCHANGED job,
           DOMAIN messages \subseteq DOMAIN messages',
           DOMAIN summaries \subseteq DOMAIN summaries'
    PROVE  JobsWF'
<1>1. \A e \in Daemons : Busy(e)' => Busy(e)
  BY DEF Goto, Busy, EngineWF
<1>2. \A j : ValidJob(j) => (ValidJob(j))'
  BY DEF ValidJob, IsMessage
<1> QED
  BY <1>1 DEF JobsWF, ValidJob, IsMessage

\* A pass begins with a valid job.
LEMMA JobsSelect ==
    ASSUME JobsWF, EngineWF, NEW d \in Daemons, NEW label, Goto(d, label),
           NEW j, ValidJob(j), j.kind \in {"leaf", "condensed"}, j.depth \in Nat,
           job' = [job EXCEPT ![d] = j], UNCHANGED <<messages, summaries>>
    PROVE  JobsWF'
<1>1. /\ \A e \in Daemons : e # d => (Busy(e)' <=> Busy(e)) /\ job'[e] = job[e]
      /\ job'[d] = j /\ DOMAIN job' = Daemons
  BY DEF Goto, Busy, EngineWF, JobsWF
<1>2. ASSUME NEW e \in Daemons
      PROVE  /\ job'[e].kind \in {"none", "leaf", "condensed"}
             /\ job'[e].depth \in Nat
             /\ Busy(e)' => ValidJob(job[e])'
  <2>1. CASE e = d
    <3>1. ValidJob(job[e])'
      BY <1>1, <2>1 DEF ValidJob, IsMessage
    <3> QED BY <1>1, <2>1, <3>1
  <2>2. CASE e # d
    BY <1>1, <2>2 DEF JobsWF, ValidJob, IsMessage
  <2> QED BY <2>1, <2>2
<1> QED BY <1>1, <1>2 DEF JobsWF

-----------------------------------------------------------------------------
LEMMA WellFormedInit == Init => WellFormed
<1> SUFFICES ASSUME Init PROVE WellFormed
  OBVIOUS
<1>1. messages = <<>> /\ context = <<>> /\ summaries = <<>>
  BY DEF Init, StoreInit
<1>2. StoreWF
  BY <1>1 DEF StoreWF, StoreTypeOK, ReferencesValid
<1>3. EngineWF
  BY NoRunRow DEF Init, EngineWF, Labels
<1>4. JobsWF
  BY DEF Init, JobsWF, Busy, NoJob
<1> QED BY <1>2, <1>3, <1>4 DEF WellFormed

LEMMA WellFormedStart ==
    ASSUME WellFormed, NEW d \in Daemons, NEW req \in Requests, StartRun(d, req)
    PROVE  WellFormed'
<1> DEFINE r == [NoRun EXCEPT !.req = req, !.round = 1,
                 !.last = IF req.mode = "until" THEN getContextTokenCount
                                                ELSE 0]
<1>1. /\ Goto(d, "begin") /\ run' = [run EXCEPT ![d] = r]
      /\ runs' = runs + 1 /\ UNCHANGED <<messages, context, summaries, job, draft>>
  BY DEF StartRun, storeVars
<1>2. getContextTokenCount \in Nat
  BY ContextTokensNat DEF WellFormed
<1>3. r \in RunRow
  BY <1>2 DEF RunRow, NoRun
<1> HIDE DEF r
<1>4. EngineWF'
  BY <1>1, <1>3 DEF WellFormed, EngineWF, Goto, Labels
<1>5. JobsWF'
  BY <1>1, JobsStutter DEF WellFormed
<1>6. StoreWF'
  BY <1>1, StoreWFStutter DEF WellFormed, storeVars
<1> QED BY <1>4, <1>5, <1>6 DEF WellFormed

\* A step that measures the context or moves on: the run's row stays one.
LEMMA WellFormedMeasure ==
    ASSUME WellFormed, NEW d \in Daemons,
           BeginSweep(d) \/ MeasureBefore(d) \/ MeasureAfter(d)
    PROVE  WellFormed'
<1>1. getContextTokenCount \in Nat
  BY ContextTokensNat DEF WellFormed
<1>2. run[d] \in RunRow /\ run \in [Daemons -> RunRow]
  BY DEF WellFormed, EngineWF
<1>3. UNCHANGED <<messages, context, summaries, job, draft, runs>>
  BY DEF BeginSweep, MeasureBefore, MeasureAfter, storeVars
<1>4. PICK r, label :
         /\ r \in RunRow /\ run' = [run EXCEPT ![d] = r]
         /\ label \in Labels /\ Goto(d, label)
         /\ label \in {"before", "summarize", "commit"} => Busy(d)
  <2>1. CASE BeginSweep(d)
    <3> DEFINE r == [run[d] EXCEPT !.previous = getContextTokenCount,
                                   !.acted = FALSE]
    <3>1. r \in RunRow
      BY <1>1, <1>2 DEF RunRow
    <3>2. run' = [run EXCEPT ![d] = r]
      BY <1>2, <2>1 DEF BeginSweep
    <3>3. /\ "evaluate" \in Labels /\ Goto(d, "evaluate")
          /\ "evaluate" \notin {"before", "summarize", "commit"}
      BY <2>1 DEF BeginSweep, Labels
    <3> HIDE DEF r
    <3> QED BY <3>1, <3>2, <3>3
  <2>2. CASE MeasureBefore(d)
    <3> DEFINE r == [run[d] EXCEPT !.before = getContextTokenCount]
    <3>1. r \in RunRow
      BY <1>1, <1>2 DEF RunRow
    <3>2. run' = [run EXCEPT ![d] = r]
      BY <1>2, <2>2 DEF MeasureBefore
    <3> QED BY <2>2, <3>1, <3>2 DEF MeasureBefore, Labels, Busy
  <2>3. CASE MeasureAfter(d)
    <3> DEFINE r == [run[d] EXCEPT !.after = getContextTokenCount]
    <3>1. r \in RunRow
      BY <1>1, <1>2 DEF RunRow
    <3>2. run' = [run EXCEPT ![d] = r]
      BY <1>2, <2>3 DEF MeasureAfter
    <3>3. /\ "event" \in Labels /\ Goto(d, "event")
          /\ "event" \notin {"before", "summarize", "commit"}
      BY <2>3 DEF MeasureAfter, Labels
    <3> HIDE DEF r
    <3> QED BY <3>1, <3>2, <3>3
  <2> QED BY <2>1, <2>2, <2>3
<1>5. EngineWF'
  BY <1>3, <1>4, EngineWFRun DEF WellFormed
<1>6. JobsWF'
  BY <1>3, <1>4, JobsStutter DEF WellFormed
<1>7. StoreWF'
  BY <1>3, StoreWFStutter DEF WellFormed, storeVars
<1> QED BY <1>5, <1>6, <1>7 DEF WellFormed

LEMMA WellFormedEvaluate ==
    ASSUME WellFormed, NEW d \in Daemons, Evaluate(d)
    PROVE  WellFormed'
<1>1. UNCHANGED <<messages, context, summaries, runs>>
  BY DEF Evaluate, storeVars
<1>2. StoreWF'
  BY <1>1, StoreWFStutter DEF WellFormed, storeVars
<1>3. EngineWF' /\ JobsWF'
  <2>1. CASE EndRun(d)
    BY <1>1, <2>1, EndRunWF DEF WellFormed
  <2>2. CASE Goto(d, "selectLeaf") /\ UNCHANGED <<run, job, draft>>
    BY <1>1, <2>2, JobsStutter DEF WellFormed, EngineWF, Goto, Labels
  <2> QED BY <2>1, <2>2 DEF Evaluate
<1> QED BY <1>2, <1>3 DEF WellFormed

\* A pass selects a range of the list.
LEMMA WellFormedSelect ==
    ASSUME WellFormed, NEW d \in Daemons, SelectLeaf(d) \/ SelectCondensed(d)
    PROVE  WellFormed'
<1>1. UNCHANGED <<messages, context, summaries, run, draft, runs>>
  BY DEF SelectLeaf, SelectCondensed, storeVars
<1>2. StoreWF'
  BY <1>1, StoreWFStutter DEF WellFormed, storeVars
<1>3. PICK j, label :
         /\ ValidJob(j) /\ j.kind \in {"leaf", "condensed"} /\ j.depth \in Nat
         /\ job' = [job EXCEPT ![d] = j]
         /\ label \in Labels /\ Goto(d, label)
  <2>1. CASE SelectLeaf(d)
    <3>1. PICK first, last \in DOMAIN context :
             /\ selectOldestLeafChunk(first, last)
             /\ job' = [job EXCEPT ![d] = Chunk("leaf", 0, first, last)]
      BY <2>1 DEF SelectLeaf
    <3>2. /\ first <= last
          /\ \A i \in first..last : IsMessage(context[i])
      BY <3>1, OldestChunk, StoreWFShape DEF WellFormed
    <3>3. ValidJob(Chunk("leaf", 0, first, last))
      BY <3>2, ChunkValid DEF WellFormed
    <3>4. PICK label \in Labels : Goto(d, label)
      BY <2>1 DEF SelectLeaf, Labels
    <3>5. /\ Chunk("leaf", 0, first, last).kind \in {"leaf", "condensed"}
          /\ Chunk("leaf", 0, first, last).depth \in Nat
      BY DEF Chunk
    <3> QED BY <3>1, <3>3, <3>4, <3>5
  <2>2. CASE SelectCondensed(d)
    <3>1. PICK depth \in DepthsOutsideFreshTail, first, last \in DOMAIN context :
             /\ IsCondensedChoice(d, depth, first, last)
             /\ job' = [job EXCEPT ![d] = Chunk("condensed", depth, first, last)]
      BY <2>2 DEF SelectCondensed
    <3>2. selectOldestChunkAtDepth(depth, first, last)
      BY <3>1 DEF IsCondensedChoice, IsShallowestCandidate, IsCandidate
    <3>3. /\ first <= last
          /\ \A i \in first..last : AtDepth(i, depth)
      BY <3>1, <3>2, OldestChunk, StoreWFShape DEF WellFormed
    <3>4. \A i \in first..last : ~IsMessage(context[i])
      BY <3>3 DEF AtDepth, IsSummary, IsMessage
    <3>5. ValidJob(Chunk("condensed", depth, first, last))
      BY <3>3, <3>4, ChunkValid DEF WellFormed
    <3>6. depth \in Nat
      <4>1. PICK i \in DOMAIN context : /\ IsSummary(context[i])
                                        /\ depth = summaries[context[i].id].depth
        BY DEF DepthsOutsideFreshTail
      <4>2. context[i].id \in DOMAIN summaries
        BY <4>1 DEF WellFormed, StoreWF, ReferencesValid, IsSummary, IsMessage
      <4>3. summaries[context[i].id] \in SummaryRow
        BY <4>2, LenProperties DEF WellFormed, StoreWF, StoreTypeOK
      <4> QED BY <4>1, <4>3 DEF SummaryRow
    <3>7. "before" \in Labels /\ Goto(d, "before")
      BY <2>2 DEF SelectCondensed, Labels
    <3>8. /\ Chunk("condensed", depth, first, last).kind \in {"leaf", "condensed"}
          /\ Chunk("condensed", depth, first, last).depth \in Nat
      BY <3>6 DEF Chunk
    <3> QED BY <3>1, <3>5, <3>7, <3>8
  <2> QED BY <2>1, <2>2
<1>4. JobsWF'
  BY <1>1, <1>3, JobsSelect DEF WellFormed
<1>5. EngineWF'
  BY <1>1, <1>3 DEF WellFormed, EngineWF, Goto
<1> QED BY <1>2, <1>4, <1>5 DEF WellFormed

\* Nothing to select.
LEMMA WellFormedNoChunk ==
    ASSUME WellFormed, NEW d \in Daemons, NoLeafChunk(d) \/ NoCondensedChunk(d)
    PROVE  WellFormed'
<1>1. UNCHANGED <<messages, context, summaries, runs>>
  BY DEF NoLeafChunk, NoCondensedChunk, storeVars
<1>2. StoreWF'
  BY <1>1, StoreWFStutter DEF WellFormed, storeVars
<1>3. EngineWF' /\ JobsWF'
  <2>1. CASE EndRun(d)
    BY <1>1, <2>1, EndRunWF DEF WellFormed
  <2>2. ASSUME NEW label \in {"selectCondensed", "finish"}, Goto(d, label),
               UNCHANGED <<run, job, draft>>
        PROVE  EngineWF' /\ JobsWF'
    <3>1. label \in Labels
      BY DEF Labels
    <3>2. EngineWF'
      BY <1>1, <2>2, <3>1 DEF WellFormed, EngineWF, Goto
    <3>3. JobsWF'
      BY <1>1, <2>2, JobsStutter DEF WellFormed
    <3> QED BY <3>2, <3>3
  <2> QED BY <2>1, <2>2 DEF NoLeafChunk, NoCondensedChunk
<1> QED BY <1>2, <1>3 DEF WellFormed

\* The draft's size is a number: a reply's, or the fallback's.
LEMMA WellFormedSummarize ==
    ASSUME WellFormed, NEW d \in Daemons, Summarize(d)
    PROVE  WellFormed'
<1>1. UNCHANGED <<messages, context, summaries, run, job, runs>>
  BY DEF Summarize, storeVars
<1>2. StoreWF'
  BY <1>1, StoreWFStutter DEF WellFormed, storeVars
<1>3. PICK size \in SummarySizes(InputTokens(job[d])) :
         draft' = [draft EXCEPT ![d] = size]
  BY DEF Summarize
<1>4. InputTokens(job[d]) \in Nat
  BY JobSumsNat DEF WellFormed, JobsWF, Summarize, Busy
<1>5. size \in Nat
  BY <1>3, <1>4, ConfigAssumption DEF SummarySizes, FallbackTokens
<1>6. Goto(d, "commit") /\ "commit" \in Labels /\ Busy(d)
  BY DEF Summarize, Labels, Busy
<1>7. EngineWF'
  BY <1>1, <1>3, <1>5, <1>6 DEF WellFormed, EngineWF, Goto
<1>8. JobsWF'
  BY <1>1, <1>6, JobsStutter DEF WellFormed
<1> QED BY <1>2, <1>7, <1>8 DEF WellFormed

LEMMA WellFormedCommit ==
    ASSUME WellFormed, NEW d \in Daemons, Commit(d)
    PROVE  WellFormed'
<1>1. UNCHANGED <<messages, run, job, draft, runs>> /\ Goto(d, "after")
  BY DEF Commit
<1>2. PICK earliest, latest \in DOMAIN messages :
         insertSummary(NewSummary(job[d], draft[d], earliest, latest))
  BY DEF Commit
<1>3. replaceContextRangeWithSummary(job[d].first, job[d].last, Len(summaries) + 1)
  BY DEF Commit
<1>4. ValidJob(job[d]) /\ job[d].depth \in Nat /\ draft[d] \in Nat
  BY DEF WellFormed, JobsWF, EngineWF, Commit, Busy
<1>5. StoreWF' /\ DOMAIN summaries \subseteq DOMAIN summaries'
  <2>1. PICK j, size, k : j = job[d] /\ size = draft[d] /\ k = Len(summaries) + 1
    OBVIOUS
  <2>2. /\ ValidJob(j) /\ j.depth \in Nat /\ size \in Nat
        /\ insertSummary(NewSummary(j, size, earliest, latest))
        /\ replaceContextRangeWithSummary(j.first, j.last, k)
    BY <1>2, <1>3, <1>4, <2>1
  <2>3. StoreWF /\ messages' = messages
    BY <1>1 DEF WellFormed
  <2> QED BY <2>1, <2>2, <2>3, StoreWFCommit
<1>6. "after" \in Labels /\ "after" \notin {"before", "summarize", "commit"}
  BY DEF Labels
<1>7. EngineWF'
  BY <1>1, <1>6 DEF WellFormed, EngineWF, Goto
<1>8. JobsWF'
  BY <1>1, <1>5, <1>6, JobsStutter DEF WellFormed
<1> QED BY <1>5, <1>7, <1>8 DEF WellFormed

LEMMA WellFormedPersist ==
    ASSUME WellFormed, NEW d \in Daemons, PersistEvent(d)
    PROVE  WellFormed'
<1> DEFINE label == AfterPass(job[d].kind, run[d])
           r == RunAfterPass(job[d].kind, run[d])
<1>1. /\ Goto(d, label)
      /\ run' = [run EXCEPT ![d] = r]
      /\ job' = [job EXCEPT ![d] = NoJob]
      /\ draft' = [draft EXCEPT ![d] = 0]
      /\ UNCHANGED <<context, summaries, runs>>
  BY DEF PersistEvent, WellFormed, EngineWF, storeVars, appendEventMessage
<1>2. StoreWF' /\ DOMAIN messages \subseteq DOMAIN messages'
  <2>1. CASE appendEventMessage(EventTokens)
    BY <2>1, StoreWFEvent DEF WellFormed
  <2>2. CASE UNCHANGED storeVars
    BY <2>2, StoreWFStutter DEF WellFormed, storeVars
  <2> QED BY <2>1, <2>2 DEF PersistEvent
<1>3. label \in {"selectLeaf", "selectCondensed", "finish"}
  BY DEF AfterPass
<1>4. r \in RunRow
  <2>1. run[d] \in RunRow
    BY DEF WellFormed, EngineWF
  <2>2. /\ (IF Progress(run[d]) THEN run[d].after ELSE run[d].previous) \in Nat
        /\ \A b : (IF b THEN run[d].depth + 1 ELSE run[d].depth) \in Nat
    BY <2>1 DEF RunRow
  <2> QED BY <2>1, <2>2 DEF RunRow, RunAfterPass
<1> HIDE DEF label, r
<1>5. EngineWF'
  <2>1. label \in Labels
    BY <1>3 DEF Labels
  <2> QED BY <1>1, <1>4, <2>1 DEF WellFormed, EngineWF, Goto
<1>6. JobsWF'
  <2>1. /\ \A e \in Daemons : e # d => (Busy(e)' <=> Busy(e)) /\ job'[e] = job[e]
        /\ job'[d] = NoJob /\ ~Busy(d)' /\ DOMAIN job' = Daemons
    BY <1>1, <1>3 DEF Goto, Busy, WellFormed, EngineWF, JobsWF
  <2>2. ASSUME NEW e \in Daemons
        PROVE  /\ job'[e].kind \in {"none", "leaf", "condensed"}
               /\ job'[e].depth \in Nat
               /\ Busy(e)' => ValidJob(job[e])'
    <3>1. CASE e = d
      BY <2>1, <3>1 DEF NoJob
    <3>2. CASE e # d
      BY <1>1, <1>2, <2>1, <3>2 DEF WellFormed, JobsWF, ValidJob, IsMessage
    <3> QED BY <3>1, <3>2
  <2> QED BY <2>1, <2>2 DEF JobsWF
<1> QED BY <1>2, <1>5, <1>6 DEF WellFormed

LEMMA WellFormedFinish ==
    ASSUME WellFormed, NEW d \in Daemons, Finish(d)
    PROVE  WellFormed'
<1>1. UNCHANGED <<messages, context, summaries, runs>>
  BY DEF Finish, storeVars
<1>2. StoreWF'
  BY <1>1, StoreWFStutter DEF WellFormed, storeVars
<1>3. EngineWF' /\ JobsWF'
  <2>1. CASE EndRun(d)
    BY <1>1, <2>1, EndRunWF DEF WellFormed
  <2>2. CASE ~EndRun(d)
    <3> DEFINE next == run[d].round + 1
               r == [run[d] EXCEPT !.round = next, !.last = getContextTokenCount]
    <3>1. run \in [Daemons -> RunRow] /\ run[d] \in RunRow
      BY DEF WellFormed, EngineWF
    <3>2. getContextTokenCount \in Nat
      BY ContextTokensNat DEF WellFormed
    <3>3. r \in RunRow
      <4>1. next \in Nat
        BY <3>1 DEF RunRow
      <4> HIDE DEF next
      <4> QED BY <3>1, <3>2, <4>1 DEF RunRow
    <3>4. Goto(d, "begin") /\ run' = [run EXCEPT ![d] = r] /\ UNCHANGED <<job, draft>>
      BY <2>2, <3>1 DEF Finish
    <3>5. "begin" \in Labels
      BY DEF Labels
    <3> HIDE DEF r
    <3>6. EngineWF'
      BY <1>1, <3>3, <3>4, <3>5, EngineWFRun DEF WellFormed
    <3>7. JobsWF'
      BY <1>1, <3>4, JobsStutter DEF WellFormed
    <3> QED BY <3>6, <3>7
  <2> QED BY <2>1, <2>2
<1> QED BY <1>2, <1>3 DEF WellFormed

LEMMA WellFormedOther ==
    ASSUME WellFormed,
           \/ UNCHANGED vars
           \/ \E tokens \in MessageTokens : Ingest(tokens)
           \/ \E d \in Daemons : RunStops(d)
    PROVE  WellFormed'
<1>1. CASE UNCHANGED vars
  <2>1. StoreWF'
    BY <1>1, StoreWFStutter DEF WellFormed, vars, storeVars
  <2> QED BY <1>1, <2>1 DEF WellFormed, vars, EngineWF, JobsWF, Busy, ValidJob,
                            IsMessage
<1>2. ASSUME NEW tokens \in MessageTokens, Ingest(tokens) PROVE WellFormed'
  <2>1. StoreWF' /\ DOMAIN messages \subseteq DOMAIN messages'
    BY <1>2, StoreWFIngest DEF WellFormed, Ingest
  <2>2. UNCHANGED <<summaries, pc, run, job, draft, runs>>
    BY <1>2 DEF Ingest, appendTranscriptMessage
  <2> QED BY <2>1, <2>2 DEF WellFormed, EngineWF, JobsWF, Busy, ValidJob, IsMessage
<1>3. ASSUME NEW d \in Daemons, RunStops(d) PROVE WellFormed'
  <2>1. EndRun(d) /\ UNCHANGED <<messages, context, summaries, runs>>
    BY <1>3 DEF RunStops, storeVars
  <2>2. StoreWF'
    BY <2>1, StoreWFStutter DEF WellFormed, storeVars
  <2> QED BY <2>1, <2>2, EndRunWF DEF WellFormed
<1> QED BY <1>1, <1>2, <1>3

LEMMA WellFormedStep == ASSUME WellFormed, [Next]_vars PROVE WellFormed'
<1>1. ASSUME NEW d \in Daemons, Step(d) PROVE WellFormed'
  BY <1>1, WellFormedEvaluate, WellFormedSelect, WellFormedNoChunk,
     WellFormedMeasure, WellFormedSummarize, WellFormedCommit,
     WellFormedPersist, WellFormedFinish DEF Step
<1> QED
  BY <1>1, WellFormedStart, WellFormedOther DEF Next

\* Whatever the number of daemons that share the store, its rows and the
\* engine's own state keep their types: the sums a pass computes are numbers
\* and what it selected names stored rows when it commits.
THEOREM CompactionWellFormed == Spec => []TypeOK
<1>1. Init => WellFormed
  BY WellFormedInit
<1>2. WellFormed /\ [Next]_vars => WellFormed'
  BY WellFormedStep
<1>3. WellFormed => TypeOK
  BY WellFormedTypes
<1> QED BY <1>1, <1>2, <1>3, PTL DEF Spec

-----------------------------------------------------------------------------
(* What is reached from an element along links that go downwards.          *)

\* A set of natural numbers that is not empty has a least element.
LEMMA LeastNumber ==
    ASSUME NEW T, T \subseteq Nat, T # {}
    PROVE  \E x \in T : \A y \in T : x <= y
<1> DEFINE R == OpToRel(<, Nat)
<1>1. IsWellFoundedOn(R, Nat)
  BY NatLessThanWellFounded
<1>2. \A x, y \in Nat : <<y, x>> \in R <=> y < x
  BY DEF OpToRel
<1> HIDE DEF R
<1>3. PICK x \in T : \A y \in T : ~(<<y, x>> \in R)
  BY <1>1, WFMin
<1>4. ASSUME NEW y \in T PROVE x <= y
  <2>1. x \in Nat /\ y \in Nat /\ ~(<<y, x>> \in R)
    BY <1>3
  <2>2. ~(y < x)
    BY <1>2, <2>1
  <2> QED BY <2>1, <2>2
<1> QED BY <1>4

\* A set of numbers that holds k when it holds all numbers below k of 1..n
\* holds all of them.
LEMMA Upwards ==
    ASSUME NEW n \in Nat, NEW Good,
           \A k \in 1..n : (\A i \in 1..(k - 1) : i \in Good) => k \in Good
    PROVE  \A k \in 1..n : k \in Good
<1> DEFINE Bad == {k \in 1..n : k \notin Good}
<1> SUFFICES ASSUME Bad # {} PROVE FALSE
  OBVIOUS
<1>1. Bad \subseteq Nat
  OBVIOUS
<1>2. \A k : k \in Bad <=> k \in 1..n /\ k \notin Good
  OBVIOUS
<1> HIDE DEF Bad
<1>3. PICK k \in Bad : \A i \in Bad : k <= i
  BY <1>1, LeastNumber
<1>4. \A i \in 1..(k - 1) : i \in 1..n /\ ~(k <= i)
  BY <1>1, <1>2, <1>3
<1>5. \A i \in 1..(k - 1) : i \in Good
  BY <1>2, <1>3, <1>4
<1> QED BY <1>2, <1>3, <1>5

\* a[t] is what is reached from t of 1..n along the links C.
Reaches(a, C, n) ==
    a = [t \in 1..n |-> C[t] \cup UNION {a[u] : u \in C[t]}]

Reach(C, n) == CHOOSE a : Reaches(a, C, n)

Downwards(C, n) == \A t \in 1..n : C[t] \subseteq 1..(t - 1)

LEMMA ReachesExist ==
    ASSUME NEW n \in Nat, NEW C, Downwards(C, n)
    PROVE  Reaches(Reach(C, n), C, n)
<1> DEFINE Good == {k \in Nat : k <= n => \E a : Reaches(a, C, k)}
<1>1. 0 \in Good
  <2>1. Reaches([t \in 1..0 |-> {}], C, 0)
    BY DEF Reaches
  <2> QED BY <2>1
<1>2. ASSUME NEW k \in Nat, k \in Good PROVE k + 1 \in Good
  <2> SUFFICES ASSUME k + 1 <= n PROVE \E a : Reaches(a, C, k + 1)
    OBVIOUS
  <2>1. PICK a : Reaches(a, C, k)
    BY <1>2
  <2> DEFINE top == C[k + 1] \cup UNION {a[u] : u \in C[k + 1]}
             b == [t \in 1..(k + 1) |-> IF t = k + 1 THEN top ELSE a[t]]
  <2>2. \A t \in 1..(k + 1) : C[t] \subseteq 1..k
    BY DEF Downwards
  <2>3. \A u \in 1..k : b[u] = a[u]
    OBVIOUS
  <2>4. \A t \in 1..k : a[t] = C[t] \cup UNION {a[u] : u \in C[t]}
    BY <2>1 DEF Reaches
  <2>5. \A t \in 1..(k + 1) : b[t] = C[t] \cup UNION {a[u] : u \in C[t]}
    BY <2>4
  <2>6. \A t \in 1..(k + 1) : {b[u] : u \in C[t]} = {a[u] : u \in C[t]}
    <3> HIDE DEF b
    <3> QED BY <2>2, <2>3
  <2>7. b = [t \in 1..(k + 1) |-> b[t]]
    OBVIOUS
  <2> HIDE DEF b
  <2>8. Reaches(b, C, k + 1)
    BY <2>5, <2>6, <2>7 DEF Reaches
  <2> QED BY <2>8
<1>3. ASSUME NEW k \in 1..n, \A i \in 1..(k - 1) : i \in Good
      PROVE  k \in Good
  <2> HIDE DEF Good
  <2>1. k - 1 \in Nat /\ (k - 1) + 1 = k
    OBVIOUS
  <2>2. k - 1 \in Good
    <3>1. k - 1 = 0 \/ k - 1 \in 1..(k - 1)
      OBVIOUS
    <3> QED BY <1>1, <1>3, <3>1
  <2> QED BY <1>2, <2>1, <2>2
<1>4. n \in Good
  <2> HIDE DEF Good
  <2>1. n = 0 \/ n \in 1..n
    OBVIOUS
  <2> QED BY <1>1, <1>3, <2>1, Upwards
<1>5. \E a : Reaches(a, C, n)
  BY <1>4
<1> QED BY <1>5 DEF Reach

\* What is reached from t: its links, and what is reached from them.
LEMMA ReachNext ==
    ASSUME NEW n \in Nat, NEW C, Downwards(C, n), NEW t \in 1..n
    PROVE  Reach(C, n)[t] = C[t] \cup UNION {Reach(C, n)[u] : u \in C[t]}
<1> DEFINE a == Reach(C, n)
<1>1. Reaches(a, C, n)
  BY ReachesExist
<1> HIDE DEF a
<1>2. a = [v \in 1..n |-> C[v] \cup UNION {a[u] : u \in C[v]}]
  BY <1>1 DEF Reaches
<1>3. a[t] = C[t] \cup UNION {a[u] : u \in C[t]}
  BY <1>2
<1> QED BY <1>3 DEF a

\* It is all below t.
LEMMA ReachBelow ==
    ASSUME NEW n \in Nat, NEW C, Downwards(C, n)
    PROVE  \A t \in 1..n : Reach(C, n)[t] \subseteq 1..(t - 1)
<1> DEFINE a == Reach(C, n)
           Good == {t \in 1..n : a[t] \subseteq 1..(t - 1)}
<1>1. \A t \in 1..n : a[t] = C[t] \cup UNION {a[u] : u \in C[t]}
  BY ReachNext
<1> HIDE DEF a
<1>2. ASSUME NEW t \in 1..n, \A i \in 1..(t - 1) : i \in Good
      PROVE  t \in Good
  <2> SUFFICES ASSUME NEW x \in a[t] PROVE x \in 1..(t - 1)
    OBVIOUS
  <2>1. C[t] \subseteq 1..(t - 1)
    BY DEF Downwards
  <2>2. CASE x \in C[t]
    BY <2>1, <2>2
  <2>3. CASE \E u \in C[t] : x \in a[u]
    <3>1. PICK u \in C[t] : x \in a[u]
      BY <2>3
    <3>2. u \in 1..(t - 1) /\ x \in 1..(u - 1)
      BY <1>2, <2>1, <3>1
    <3> QED BY <3>2
  <2> QED BY <1>1, <2>2, <2>3
<1>3. \A t \in 1..n : t \in Good
  <2> HIDE DEF Good
  <2> QED BY <1>2, Upwards
<1> QED BY <1>3 DEF a

\* It depends on the links of what is below t alone.
LEMMA ReachSame ==
    ASSUME NEW n \in Nat, NEW m \in Nat, n <= m, NEW C, NEW D,
           Downwards(C, n), Downwards(D, m), \A t \in 1..n : D[t] = C[t]
    PROVE  \A t \in 1..n : Reach(D, m)[t] = Reach(C, n)[t]
<1> DEFINE a == Reach(C, n)
           b == Reach(D, m)
           Good == {t \in 1..n : b[t] = a[t]}
<1>1. \A t \in 1..n : a[t] = C[t] \cup UNION {a[u] : u \in C[t]}
  BY ReachNext
<1>2. \A t \in 1..n : b[t] = C[t] \cup UNION {b[u] : u \in C[t]}
  <2>1. \A t \in 1..m : b[t] = D[t] \cup UNION {b[u] : u \in D[t]}
    BY ReachNext
  <2>2. \A t \in 1..n : t \in 1..m
    OBVIOUS
  <2> HIDE DEF b
  <2> QED BY <2>1, <2>2
<1> HIDE DEF a, b
<1>3. ASSUME NEW t \in 1..n, \A i \in 1..(t - 1) : i \in Good
      PROVE  t \in Good
  <2>1. C[t] \subseteq 1..(t - 1)
    BY DEF Downwards
  <2>2. \A u \in C[t] : b[u] = a[u]
    BY <1>3, <2>1
  <2>3. {b[u] : u \in C[t]} = {a[u] : u \in C[t]}
    BY <2>2
  <2> QED BY <1>1, <1>2, <2>3
<1>4. \A t \in 1..n : t \in Good
  <2> HIDE DEF Good
  <2> QED BY <1>3, Upwards
<1> QED BY <1>4 DEF a, b

\* The range of t holds those of all elements of A[t].
Nests(A, lo, hi, n) ==
    \A t \in 1..n : \A u \in A[t] : lo[t] <= lo[u] /\ hi[u] <= hi[t]

\* A range that holds the ranges of all links holds those of all it reaches.
LEMMA ReachNested ==
    ASSUME NEW n \in Nat, NEW C, Downwards(C, n), NEW lo, NEW hi,
           \A t \in 1..n : lo[t] \in Int /\ hi[t] \in Int,
           Nests(C, lo, hi, n)
    PROVE  Nests(Reach(C, n), lo, hi, n)
<1> DEFINE a == Reach(C, n)
           Good == {t \in 1..n : \A u \in a[t] : lo[t] <= lo[u] /\ hi[u] <= hi[t]}
<1>1. \A t \in 1..n : a[t] = C[t] \cup UNION {a[u] : u \in C[t]}
  BY ReachNext
<1>2. \A t \in 1..n : a[t] \subseteq 1..(t - 1)
  BY ReachBelow
<1> HIDE DEF a
<1>3. ASSUME NEW t \in 1..n, \A i \in 1..(t - 1) : i \in Good
      PROVE  t \in Good
  <2> SUFFICES ASSUME NEW x \in a[t] PROVE lo[t] <= lo[x] /\ hi[x] <= hi[t]
    OBVIOUS
  <2>1. C[t] \subseteq 1..(t - 1)
    BY DEF Downwards
  <2>2. CASE x \in C[t]
    BY <2>2 DEF Nests
  <2>3. CASE \E u \in C[t] : x \in a[u]
    <3>1. PICK u \in C[t] : x \in a[u]
      BY <2>3
    <3>2. u \in Good /\ u \in 1..n /\ x \in 1..n
      BY <1>2, <1>3, <2>1, <3>1
    <3>3. lo[u] <= lo[x] /\ hi[x] <= hi[u]
      BY <3>1, <3>2
    <3>4. lo[t] <= lo[u] /\ hi[u] <= hi[t]
      BY <3>1 DEF Nests
    <3> QED BY <3>2, <3>3, <3>4
  <2> QED BY <1>1, <2>2, <2>3
<1>4. \A t \in 1..n : t \in Good
  <2> HIDE DEF Good
  <2> QED BY <1>3, Upwards
<1> QED BY <1>4 DEF a, Nests

-----------------------------------------------------------------------------
(* The counters of a summary.                                              *)

\* The summaries that row t of table T was built from, the links of each row,
\* and what is reached along them.
RowSources(T, t) == {T[t].sources[x] : x \in DOMAIN T[t].sources}

RowLinks(T) ==
    [t \in DOMAIN T |-> IF T[t].depth = 0 THEN {} ELSE RowSources(T, t)]

RowAncestors(T, s) ==
    (CHOOSE f : f = [t \in DOMAIN T |->
                        IF T[t].depth = 0 THEN {}
                        ELSE RowSources(T, t) \cup UNION {f[u] : u \in RowSources(T, t)}])[s]

Below == RowLinks(summaries)

Tok == [m \in DOMAIN messages |-> messages[m].tokens]

LEMMA AncestorsOfTable ==
    ASSUME NEW s
    PROVE  /\ Ancestors(s) = RowAncestors(summaries, s)
           /\ Ancestors(s)' = RowAncestors(summaries', s)
  BY DEF Ancestors, SourceIds, RowAncestors, RowSources

LEMMA BelowRow ==
    /\ \A t \in DOMAIN summaries :
          Below[t] = IF summaries[t].depth = 0 THEN {} ELSE SourceIds(t)
    /\ \A t \in DOMAIN summaries' :
          Below'[t] = IF summaries'[t].depth = 0 THEN {} ELSE SourceIds(t)'
  BY DEF Below, RowLinks, RowSources, SourceIds

LEMMA AncestorsReach ==
    ASSUME NEW T, NEW n, DOMAIN T = 1..n, NEW s
    PROVE  RowAncestors(T, s) = Reach(RowLinks(T), n)[s]
<1> DEFINE C == RowLinks(T)
           Rec(f) == f = [t \in DOMAIN T |->
                             IF T[t].depth = 0 THEN {}
                             ELSE RowSources(T, t)
                                    \cup UNION {f[u] : u \in RowSources(T, t)}]
<1>1. RowAncestors(T, s) = (CHOOSE f : Rec(f))[s]
  BY DEF RowAncestors
<1>2. ASSUME NEW f PROVE Rec(f) <=> Reaches(f, C, n)
  <2>1. ASSUME NEW t \in 1..n
        PROVE  (IF T[t].depth = 0 THEN {}
                ELSE RowSources(T, t) \cup UNION {f[u] : u \in RowSources(T, t)})
               = C[t] \cup UNION {f[u] : u \in C[t]}
    <3>1. CASE T[t].depth = 0
      <4>1. C[t] = {}
        BY <2>1, <3>1 DEF RowLinks
      <4> QED BY <3>1, <4>1
    <3>2. CASE T[t].depth # 0
      <4>1. C[t] = RowSources(T, t)
        BY <2>1, <3>2 DEF RowLinks
      <4> QED BY <3>2, <4>1
    <3> QED BY <3>1, <3>2
  <2>2. [t \in DOMAIN T |->
            IF T[t].depth = 0 THEN {}
            ELSE RowSources(T, t) \cup UNION {f[u] : u \in RowSources(T, t)}]
        = [t \in 1..n |-> C[t] \cup UNION {f[u] : u \in C[t]}]
    <3> HIDE DEF C
    <3> QED BY <2>1
  <2> QED BY <2>2 DEF Reaches
<1> HIDE DEF Rec, C
<1>3. (CHOOSE f : Rec(f)) = (CHOOSE f : Reaches(f, C, n))
  BY <1>2, Zenon
<1> QED BY <1>1, <1>3 DEF Reach, C

\* A summary's range is not empty and holds those of its sources.
SpanNested(s) ==
    /\ summaries[s].earliest <= summaries[s].latest
    /\ summaries[s].depth # 0 =>
          \A t \in SourceIds(s) :
              /\ summaries[s].earliest <= summaries[t].earliest
              /\ summaries[t].latest <= summaries[s].latest

Counted(s) ==
    /\ summaries[s].descendantCount = Cardinality(Ancestors(s))
    /\ summaries[s].sourceTokens = Sum(Tok, InSpan(s))

CountsInv ==
    \A s \in DOMAIN summaries : SpanNested(s) /\ Counted(s)

\* What the store's invariant says of tables and links.
LEMMA StoreFacts ==
    ASSUME IInv
    PROVE  /\ Len(messages) \in Nat /\ DOMAIN messages = 1..Len(messages)
           /\ Len(context) \in Nat /\ DOMAIN context = 1..Len(context)
           /\ Len(summaries) \in Nat /\ DOMAIN summaries = 1..Len(summaries)
           /\ Downwards(Below, Len(summaries))
           /\ \A m \in DOMAIN messages : Tok[m] = messages[m].tokens /\ Tok[m] \in Nat
           /\ \A s : IsFiniteSet(InSpan(s)) /\ InSpan(s) \subseteq DOMAIN messages
<1>1. /\ Len(messages) \in Nat /\ DOMAIN messages = 1..Len(messages)
      /\ Len(context) \in Nat /\ DOMAIN context = 1..Len(context)
      /\ Len(summaries) \in Nat /\ DOMAIN summaries = 1..Len(summaries)
      /\ \A m \in DOMAIN messages : messages[m] \in MessageRow
  BY LenProperties DEF IInv, StoreShape
<1>2. Downwards(Below, Len(summaries))
  <2> SUFFICES ASSUME NEW t \in 1..Len(summaries) PROVE Below[t] \subseteq 1..(t - 1)
    BY DEF Downwards
  <2>1. CASE summaries[t].depth = 0
    BY <1>1, <2>1, BelowRow
  <2>2. CASE summaries[t].depth # 0
    BY <1>1, <2>2, BelowRow DEF IInv, LineageTiles, CondensedLineage
  <2> QED BY <2>1, <2>2
<1>3. \A m \in DOMAIN messages : Tok[m] = messages[m].tokens /\ Tok[m] \in Nat
  BY <1>1 DEF Tok, MessageRow
<1>4. IsFiniteSet(DOMAIN messages)
  BY <1>1, FS_Interval
<1>5. \A s : InSpan(s) \subseteq DOMAIN messages
  BY DEF InSpan, Transcript
<1>6. \A s : IsFiniteSet(InSpan(s))
  BY <1>4, <1>5, FS_Subset
<1> QED BY <1>1, <1>2, <1>3, <1>5, <1>6

LEMMA CountsAreExact ==
    ASSUME IInv, CountsInv PROVE CountsExact
<1> SUFFICES ASSUME NEW s \in DOMAIN summaries
             PROVE  /\ summaries[s].descendantCount = Cardinality(Ancestors(s))
                    /\ summaries[s].sourceTokens =
                          MapThenSumSet(LAMBDA m : messages[m].tokens, InSpan(s))
  BY DEF CountsExact
<1> DEFINE M == InSpan(s)
           g == [m \in M |-> messages[m].tokens]
<1>1. /\ IsFiniteSet(M) /\ M \subseteq DOMAIN messages
      /\ \A m \in M : Tok[m] = g[m]
  <2>1. IsFiniteSet(M) /\ M \subseteq DOMAIN messages
    BY StoreFacts
  <2> HIDE DEF M
  <2> QED BY <2>1, StoreFacts
<1>2. MapThenSumSet(LAMBDA m : messages[m].tokens, M) = Sum(g, M)
  BY TokensOfSum
<1>3. Sum(g, M) = Sum(Tok, M)
  <2> HIDE DEF M, g
  <2> QED BY <1>1, SumSame
<1> QED BY <1>2, <1>3 DEF CountsInv, Counted

\* Messages that are added count for no summary that is there.
LEMMA CountsMessages ==
    ASSUME IInv, CountsInv, summaries' = summaries,
           \A m \in DOMAIN messages : /\ m \in DOMAIN messages'
                                      /\ messages'[m] = messages[m],
           \A s \in DOMAIN summaries : InSpan(s)' = InSpan(s)
    PROVE  CountsInv'
<1> SUFFICES ASSUME NEW s \in DOMAIN summaries
             PROVE  SpanNested(s)' /\ Counted(s)'
  BY DEF CountsInv
<1>1. SpanNested(s) /\ Counted(s)
  BY DEF CountsInv
<1>2. SpanNested(s)'
  BY <1>1 DEF SpanNested, SourceIds
<1>3. Ancestors(s)' = Ancestors(s)
  BY DEF Ancestors, SourceIds
<1>4. Sum(Tok', InSpan(s)) = Sum(Tok, InSpan(s))
  <2>1. /\ IsFiniteSet(InSpan(s)) /\ InSpan(s) \subseteq DOMAIN messages
    BY StoreFacts
  <2>2. \A m \in InSpan(s) : Tok'[m] = Tok[m]
    BY <2>1 DEF Tok
  <2> QED BY <2>1, <2>2, SumSame
<1> QED BY <1>1, <1>2, <1>3, <1>4 DEF Counted

\* The transcript messages an item of the list stands for.
Covers(item) == {m \in Transcript : Earliest(item) <= m /\ m <= Latest(item)}

\* The facts about a chunk of the list and its commit used below.
LEMMA ChunkFacts ==
    ASSUME IInv, CountsInv, NEW j, FreshChunk(j)
    PROVE  /\ IsFiniteSet(j.first..j.last)
           /\ j.first \in j.first..j.last
           /\ \A i \in j.first..j.last :
                 /\ i \in DOMAIN context
                 /\ j.items[i] = context[i]
                 /\ Earliest(context[i]) \in Int /\ Latest(context[i]) \in Int
                 /\ Earliest(context[i]) <= Latest(context[i])
           /\ \A i, e \in j.first..j.last : i < e =>
                 Latest(context[i]) < Earliest(context[e])
<1>1. /\ Len(context) \in Nat /\ DOMAIN context = 1..Len(context)
      /\ Len(messages) \in Nat /\ DOMAIN messages = 1..Len(messages)
  BY StoreFacts
<1>2. /\ j.first \in DOMAIN context /\ j.last \in DOMAIN context
      /\ j.first <= j.last
      /\ \A i \in j.first..j.last : j.items[i] = context[i]
  BY DEF FreshChunk
<1>3. j.first \in Int /\ j.last \in Int
  BY <1>1, <1>2
<1>4. IsFiniteSet(j.first..j.last) /\ j.first \in j.first..j.last
  BY <1>2, <1>3, FS_Interval
<1>5. \A i \in j.first..j.last : i \in DOMAIN context
  BY <1>1, <1>2
<1>6. \A i \in DOMAIN context :
         /\ Earliest(context[i]) \in DOMAIN messages
         /\ Latest(context[i]) \in DOMAIN messages
  BY DEF IInv, ReferencesValid, SummariesValid, Earliest, Latest, IsMessage,
         Transcript
<1>7. \A i \in DOMAIN context : Earliest(context[i]) <= Latest(context[i])
  <2> TAKE i \in DOMAIN context
  <2>1. CASE IsMessage(context[i])
    BY <1>1, <1>6, <2>1 DEF Earliest, Latest
  <2>2. CASE ~IsMessage(context[i])
    <3>1. context[i].id \in DOMAIN summaries
      BY <2>2 DEF IInv, ReferencesValid
    <3> QED BY <2>2, <3>1 DEF CountsInv, SpanNested, Earliest, Latest
  <2> QED BY <2>1, <2>2
<1>8. \A i, e \in j.first..j.last : i < e =>
         Latest(context[i]) < Earliest(context[e])
  BY <1>5 DEF IInv, ContextTiles
<1>9. \A i \in DOMAIN context : Earliest(context[i]) \in Int /\ Latest(context[i]) \in Int
  BY <1>1, <1>6
<1>10. \A i \in j.first..j.last :
          /\ i \in DOMAIN context
          /\ j.items[i] = context[i]
          /\ Earliest(context[i]) \in Int /\ Latest(context[i]) \in Int
          /\ Earliest(context[i]) <= Latest(context[i])
  <2> TAKE i \in j.first..j.last
  <2>1. i \in DOMAIN context /\ j.items[i] = context[i]
    BY <1>2, <1>5
  <2> QED BY <1>7, <1>9, <2>1
<1> QED BY <1>4, <1>8, <1>10

\* What two items of a chunk cover is apart, and together it is the range of
\* the new summary.
LEMMA ChunkCovers ==
    ASSUME IInv, CountsInv, NEW j, FreshChunk(j),
           NEW earliest \in DOMAIN messages, NEW latest \in DOMAIN messages,
           Spans(j, earliest, latest)
    PROVE  /\ \A i, e \in j.first..j.last : i # e =>
                 Covers(context[i]) \cap Covers(context[e]) = {}
           /\ UNION {Covers(context[i]) : i \in j.first..j.last}
                 = {m \in Transcript : earliest <= m /\ m <= latest}
<1> DEFINE I == j.first..j.last
<1>1. /\ \A i \in I : /\ j.items[i] = context[i]
                      /\ Earliest(context[i]) \in Int /\ Latest(context[i]) \in Int
      /\ \A i, e \in I : i < e => Latest(context[i]) < Earliest(context[e])
  BY ChunkFacts
<1>2. \A m \in Transcript : m \in Int
  BY StoreFacts DEF Transcript
<1>3. earliest \in Int /\ latest \in Int
  BY StoreFacts
<1>4. ASSUME NEW i \in I, NEW e \in I, i < e
      PROVE  Covers(context[i]) \cap Covers(context[e]) = {}
  <2> SUFFICES ASSUME NEW m \in Covers(context[i]), m \in Covers(context[e])
               PROVE  FALSE
    OBVIOUS
  <2>1. /\ m \in Int /\ m <= Latest(context[i]) /\ Earliest(context[e]) <= m
    BY <1>2 DEF Covers
  <2>2. Latest(context[i]) < Earliest(context[e])
    BY <1>1, <1>4
  <2> QED BY <1>1, <2>1, <2>2
<1>5. \A i, e \in I : i # e => i < e \/ e < i
  OBVIOUS
<1>6. \A i, e \in I : i # e => Covers(context[i]) \cap Covers(context[e]) = {}
  <2> HIDE DEF I
  <2> QED BY <1>4, <1>5
<1>7. ASSUME NEW m \in Transcript, earliest <= m, m <= latest
      PROVE  \E i \in I : m \in Covers(context[i])
  BY <1>7, SpanCovered DEF Covers
<1>8. ASSUME NEW i \in I, NEW m \in Covers(context[i])
      PROVE  m \in Transcript /\ earliest <= m /\ m <= latest
  <2>1. earliest <= Earliest(context[i]) /\ Latest(context[i]) <= latest
    BY <1>1 DEF Spans
  <2>2. m \in Transcript /\ Earliest(context[i]) <= m /\ m <= Latest(context[i])
    BY DEF Covers
  <2> QED BY <1>1, <1>2, <1>3, <2>1, <2>2
<1> HIDE DEF I
<1>9. UNION {Covers(context[i]) : i \in I}
         = {m \in Transcript : earliest <= m /\ m <= latest}
  BY <1>7, <1>8
<1> QED BY <1>6, <1>9 DEF I

\* One element's sum is its summand.
LEMMA SumOne ==
    ASSUME NEW g, NEW y, g[y] \in Nat PROVE Sum(g, {y}) = g[y]
<1>1. IsFiniteSet({}) /\ y \notin {} /\ {} \cup {y} = {y}
  BY FS_EmptySet
<1>2. Sum(g, {} \cup {y}) = g[y] + Sum(g, {})
  BY <1>1, SumAdd
<1> QED BY <1>1, <1>2, SumEmpty

\* The source tokens of the new row are those of its range.
LEMMA CommitSourceTokens ==
    ASSUME IInv, CountsInv, NEW j, FreshChunk(j),
           NEW earliest \in DOMAIN messages, NEW latest \in DOMAIN messages,
           Spans(j, earliest, latest)
    PROVE  SourceTokens(j) = Sum(Tok, {m \in Transcript : earliest <= m /\ m <= latest})
<1> DEFINE I == j.first..j.last
           F == [i \in I |-> Covers(context[i])]
           G == [i \in I |-> IF IsMessage(j.items[i])
                               THEN messages[j.items[i].id].tokens
                               ELSE summaries[j.items[i].id].sourceTokens]
<1>1. IsFiniteSet(I) /\ \A i \in I : i \in DOMAIN context /\ j.items[i] = context[i]
  BY ChunkFacts
<1>2. ASSUME NEW i \in I
      PROVE  /\ IsFiniteSet(F[i])
             /\ \A m \in F[i] : Tok[m] \in Nat
             /\ G[i] = Sum(Tok, F[i])
  <2>1. F[i] \subseteq DOMAIN messages
    BY DEF Covers, Transcript
  <2>2. IsFiniteSet(DOMAIN messages)
    <3>1. Len(messages) \in Int /\ DOMAIN messages = 1..Len(messages)
      BY StoreFacts
    <3> HIDE DEF I, F, G
    <3> QED BY <3>1, FS_Interval
  <2>3. IsFiniteSet(F[i])
    <3> HIDE DEF F
    <3> QED BY <2>1, <2>2, FS_Subset
  <2>4. \A m \in F[i] : Tok[m] \in Nat
    <3> HIDE DEF F
    <3> QED BY <2>1, StoreFacts
  <2>5. CASE IsMessage(context[i])
    <3>1. context[i].id \in Transcript /\ context[i].id \in DOMAIN messages
      BY <1>1, <2>5 DEF IInv, ReferencesValid, Transcript
    <3>2. \A m \in Transcript : m \in Int
      BY StoreFacts DEF Transcript
    <3>3. Covers(context[i]) = {context[i].id}
      BY <2>5, <3>1, <3>2 DEF Covers, Earliest, Latest
    <3>4. G[i] = Tok[context[i].id] /\ Tok[context[i].id] \in Nat
      <4>1. G[i] = messages[context[i].id].tokens
        BY <1>1, <2>5
      <4> QED BY <3>1, <4>1, StoreFacts
    <3>5. F[i] = {context[i].id}
      BY <3>3
    <3> HIDE DEF F, G
    <3> QED BY <2>3, <2>4, <3>4, <3>5, SumOne
  <2>6. CASE ~IsMessage(context[i])
    <3>1. context[i].id \in DOMAIN summaries
      BY <1>1, <2>6 DEF IInv, ReferencesValid
    <3>2. F[i] = InSpan(context[i].id)
      BY <2>6 DEF Covers, InSpan, Earliest, Latest
    <3>3. G[i] = summaries[context[i].id].sourceTokens
      BY <1>1, <2>6
    <3> HIDE DEF F, G
    <3> QED BY <2>3, <2>4, <3>1, <3>2, <3>3 DEF CountsInv, Counted
  <2> QED BY <2>5, <2>6
<1>3. \A i, e \in I : i # e => F[i] \cap F[e] = {}
  BY ChunkCovers
<1> DEFINE Within == {m \in Transcript : earliest <= m /\ m <= latest}
<1>4. \A m : m \in Within <=> \E i \in I : m \in F[i]
  <2>1. UNION {Covers(context[i]) : i \in I} = Within
    BY ChunkCovers
  <2>2. \A i \in I : F[i] = Covers(context[i])
    OBVIOUS
  <2> HIDE DEF F, I, Within
  <2> QED BY <2>1, <2>2
<1>5. SourceTokens(j) = Sum(G, I)
  BY SourceTokensSum
<1>6. DOMAIN F = I
  OBVIOUS
<1> HIDE DEF I, F, G, Within
<1>7. IsFiniteSet(Within) /\ Sum(G, I) = Sum(Tok, Within)
  <2>1. IsFiniteSet(I)
    BY <1>1
  <2>2. \A i \in I : /\ IsFiniteSet(F[i])
                     /\ \A m \in F[i] : Tok[m] \in Nat
                     /\ G[i] = Sum(Tok, F[i])
    BY <1>2
  <2> QED BY <1>3, <1>4, <1>6, <2>1, <2>2, SumFibres
<1> QED BY <1>5, <1>7 DEF Within

\* The summaries below the new row, and what its counter adds up: an item and
\* the summaries below it lie within the item's range, so no two items share
\* one.
LEMMA CommitDescendants ==
    ASSUME IInv, CountsInv, NEW j, FreshChunk(j), j.kind # "leaf",
           NEW n, n = Len(summaries), NEW All,
           \A x : x \in All <=>
               \E i \in j.first..j.last :
                   x \in {context[i].id} \cup Reach(Below, n)[context[i].id]
    PROVE  /\ \A i \in j.first..j.last : context[i].id \in 1..n
           /\ DescendantCount(j) = Cardinality(All)
<1> DEFINE I == j.first..j.last
           R == Reach(Below, n)
           F == [i \in I |-> {context[i].id} \cup R[context[i].id]]
           G == [i \in I |-> summaries[j.items[i].id].descendantCount + 1]
           ones == [x \in 1..n |-> 1]
           lo == [t \in 1..n |-> summaries[t].earliest]
           hi == [t \in 1..n |-> summaries[t].latest]
<1>0. DOMAIN F = I /\ \A i \in I : F[i] = {context[i].id} \cup R[context[i].id]
  OBVIOUS
<1>1. /\ n \in Nat /\ DOMAIN summaries = 1..n /\ Downwards(Below, n)
      /\ DOMAIN messages = 1..Len(messages) /\ Len(messages) \in Nat
  BY StoreFacts
<1>2. /\ IsFiniteSet(I)
      /\ \A i \in I : /\ i \in DOMAIN context
                      /\ j.items[i] = context[i]
                      /\ Earliest(context[i]) \in Int /\ Latest(context[i]) \in Int
      /\ \A i, e \in I : i < e => Latest(context[i]) < Earliest(context[e])
  BY ChunkFacts
<1>3. \A i \in I : /\ context[i].id \in 1..n
                   /\ Earliest(context[i]) = lo[context[i].id]
                   /\ Latest(context[i]) = hi[context[i].id]
  <2> TAKE i \in I
  <2>1. ~IsMessage(context[i]) /\ i \in DOMAIN context
    BY <1>2 DEF FreshChunk, AtDepth, IsSummary, IsMessage
  <2>2. context[i].id \in 1..n
    BY <1>1, <2>1 DEF IInv, ReferencesValid
  <2> QED BY <2>1, <2>2 DEF Earliest, Latest
<1>4. \A t \in 1..n : lo[t] \in Int /\ hi[t] \in Int /\ lo[t] <= hi[t]
  <2> TAKE t \in 1..n
  <2>1. summaries[t].earliest \in DOMAIN messages /\ summaries[t].latest \in DOMAIN messages
    BY <1>1 DEF IInv, SummariesValid
  <2>2. summaries[t].earliest <= summaries[t].latest
    BY <1>1 DEF CountsInv, SpanNested
  <2> QED BY <1>1, <2>1, <2>2
<1>5. \A t \in 1..n : \A u \in Below[t] : lo[t] <= lo[u] /\ hi[u] <= hi[t]
  <2> TAKE t \in 1..n
  <2> TAKE u \in Below[t]
  <2>1. summaries[t].depth # 0 /\ u \in SourceIds(t)
    <3>1. Below[t] = IF summaries[t].depth = 0 THEN {} ELSE SourceIds(t)
      BY <1>1, BelowRow
    <3> QED BY <3>1
  <2>2. u \in 1..n
    BY <1>1 DEF Downwards
  <2>3. /\ summaries[t].earliest <= summaries[u].earliest
        /\ summaries[u].latest <= summaries[t].latest
    BY <1>1, <2>1 DEF CountsInv, SpanNested
  <2>4. lo[u] = summaries[u].earliest /\ hi[u] = summaries[u].latest
    BY <2>2
  <2>5. lo[t] = summaries[t].earliest /\ hi[t] = summaries[t].latest
    OBVIOUS
  <2> QED BY <2>3, <2>4, <2>5
<1>6. \A t \in 1..n : R[t] \subseteq 1..(t - 1)
  BY <1>1, ReachBelow
<1>7. \A t \in 1..n : \A u \in R[t] : lo[t] <= lo[u] /\ hi[u] <= hi[t]
  <2>1. \A t \in 1..n : lo[t] \in Int /\ hi[t] \in Int
    BY <1>4
  <2> HIDE DEF lo, hi, I, F, G, ones
  <2>2. Nests(Below, lo, hi, n)
    BY <1>5 DEF Nests
  <2>3. Nests(R, lo, hi, n)
    BY <1>1, <2>1, <2>2, ReachNested
  <2> QED BY <2>3 DEF Nests
<1>8. \A t \in 1..n : summaries[t].descendantCount = Cardinality(R[t])
  <2> TAKE t \in 1..n
  <2>1. summaries[t].descendantCount = Cardinality(Ancestors(t))
    BY <1>1 DEF CountsInv, Counted
  <2>2. Ancestors(t) = R[t]
    BY <1>1, AncestorsOfTable, AncestorsReach DEF Below
  <2> QED BY <2>1, <2>2
<1> HIDE DEF R, lo, hi
<1>9. ASSUME NEW t \in 1..n
      PROVE  /\ IsFiniteSet(R[t]) /\ t \notin R[t]
             /\ IsFiniteSet({t} \cup R[t])
             /\ Cardinality(R[t]) \in Nat
             /\ Cardinality({t} \cup R[t]) = Cardinality(R[t]) + 1
             /\ {t} \cup R[t] \subseteq 1..n
  <2>1. IsFiniteSet(1..(t - 1))
    BY <1>1, FS_Interval
  <2>2. IsFiniteSet(R[t]) /\ Cardinality(R[t]) \in Nat
    BY <1>6, <2>1, FS_Subset, FS_CardinalityType
  <2>3. t \notin R[t] /\ R[t] \subseteq 1..n
    BY <1>1, <1>6
  <2>4. R[t] \cup {t} = {t} \cup R[t]
    OBVIOUS
  <2>5. /\ IsFiniteSet(R[t] \cup {t})
        /\ Cardinality(R[t] \cup {t}) = Cardinality(R[t]) + 1
    BY <2>2, <2>3, FS_AddElement
  <2> QED BY <2>2, <2>3, <2>4, <2>5
<1>10. \A i \in I : /\ IsFiniteSet(F[i])
                    /\ \A x \in F[i] : ones[x] \in Nat
                    /\ G[i] = Sum(ones, F[i])
  <2> TAKE i \in I
  <2>1. PICK t \in 1..n : t = context[i].id
    BY <1>3
  <2>2. F[i] = {t} \cup R[t]
    BY <2>1
  <2>3. G[i] = Cardinality(R[t]) + 1
    BY <1>2, <1>8, <2>1
  <2>4. \A x \in F[i] : ones[x] = 1
    BY <1>9, <2>2
  <2> HIDE DEF F, G, ones
  <2>5. IsFiniteSet(F[i])
    BY <1>9, <2>2
  <2>6. Sum(ones, F[i]) = Cardinality(F[i])
    BY <2>4, <2>5, SumOnes
  <2>7. Cardinality(F[i]) = Cardinality(R[t]) + 1
    BY <1>9, <2>2
  <2> QED BY <2>3, <2>4, <2>5, <2>6, <2>7
<1>11. ASSUME NEW i \in I, NEW x \in F[i]
       PROVE  /\ x \in 1..n
              /\ Earliest(context[i]) <= lo[x] /\ hi[x] <= Latest(context[i])
  <2>1. PICK t \in 1..n : t = context[i].id
    BY <1>3
  <2>2. x \in {t} \cup R[t]
    BY <2>1
  <2>3. x \in 1..n
    BY <1>9, <2>2
  <2>4. lo[t] <= lo[x] /\ hi[x] <= hi[t]
    BY <1>4, <1>7, <2>2
  <2> QED BY <1>3, <2>1, <2>3, <2>4
<1>12. ASSUME NEW i \in I, NEW e \in I, i < e PROVE F[i] \cap F[e] = {}
  <2> HIDE DEF F
  <2> SUFFICES ASSUME NEW x \in F[i], x \in F[e] PROVE FALSE
    OBVIOUS
  <2>1. x \in 1..n /\ hi[x] <= Latest(context[i]) /\ Earliest(context[e]) <= lo[x]
    BY <1>11
  <2>2. Latest(context[i]) < Earliest(context[e])
    BY <1>2, <1>12
  <2>3. /\ Latest(context[i]) \in Int /\ Earliest(context[e]) \in Int
        /\ lo[x] \in Int /\ hi[x] \in Int /\ lo[x] <= hi[x]
    BY <1>2, <1>4, <2>1
  <2> QED BY <2>1, <2>2, <2>3
<1>13. \A i, e \in I : i # e => F[i] \cap F[e] = {}
  <2>1. \A i, e \in I : i # e => i < e \/ e < i
    OBVIOUS
  <2> HIDE DEF F, I
  <2> QED BY <1>12, <2>1
<1>14. \A x : x \in All <=> \E i \in I : x \in F[i]
  BY <1>0 DEF R
<1>15. DescendantCount(j) = Sum(G, I)
  BY DescendantCountSum
<1>16. \A x \in All : ones[x] = 1
  <2>1. \A x \in All : x \in 1..n
    BY <1>11, <1>14
  <2> QED BY <2>1
<1> HIDE DEF I, F, G, ones
<1>17. IsFiniteSet(I)
  BY <1>2
<1>18. IsFiniteSet(All) /\ Sum(G, I) = Sum(ones, All)
  BY <1>0, <1>10, <1>13, <1>14, <1>17, SumFibres
<1>19. Sum(ones, All) = Cardinality(All)
  BY <1>16, <1>18, SumOnes
<1> QED BY <1>3, <1>15, <1>18, <1>19 DEF I

\* The new row's counters are exact, and the others' still are.
LEMMA CommitCounts ==
    ASSUME IInv, CountsInv, NEW j, FreshChunk(j), NEW k, NEW size,
           NEW earliest, NEW latest, CommitOf(j, k, size, earliest, latest)
    PROVE  CountsInv'
<1> DEFINE row == NewSummary(j, size, earliest, latest)
           I == j.first..j.last
<1>1. /\ k \in Nat /\ DOMAIN summaries = 1..(k - 1)
      /\ DOMAIN summaries' = 1..k
      /\ \A s \in DOMAIN summaries : summaries'[s] = summaries[s]
      /\ summaries'[k] = row
      /\ summaries' \in Seq({summaries'[s] : s \in DOMAIN summaries'})
      /\ Transcript' = Transcript
  BY CommitRow
<1>2. StoreShape' /\ SummariesValid' /\ ReferencesValid' /\ ContextTiles' /\ LineageTiles'
  BY CommitShape, CommitTiles, CommitLineage
<1>3. PICK n \in Nat : /\ n = Len(summaries) /\ k = n + 1 /\ n = k - 1
                       /\ DOMAIN summaries = 1..n /\ Downwards(Below, n)
  <2>1. /\ Len(summaries) \in Nat /\ DOMAIN summaries = 1..Len(summaries)
        /\ Downwards(Below, Len(summaries))
    BY StoreFacts
  <2>2. k = Len(summaries) + 1
    BY DEF CommitOf
  <2>3. Len(summaries) = k - 1
    BY <2>1, <2>2
  <2> QED BY <2>1, <2>2, <2>3
<1>4. \A s \in 1..n : InSpan(s)' = InSpan(s) /\ SourceIds(s)' = SourceIds(s)
  BY <1>1, <1>3 DEF InSpan, SourceIds
<1>5. SourceIds(k)' = {context[i].id : i \in I}
  <2>1. SourceIds(k)' = {Sources(j)[x] : x \in DOMAIN Sources(j)}
    BY <1>1 DEF SourceIds, NewSummary
  <2> QED BY <2>1, NewSources
<1>6. /\ row.earliest = earliest /\ row.latest = latest
      /\ row.descendantCount = DescendantCount(j)
      /\ row.sourceTokens = SourceTokens(j)
      /\ row.depth = IF j.kind = "leaf" THEN 0 ELSE j.depth + 1
  BY DEF NewSummary
<1>7. /\ earliest \in DOMAIN messages /\ latest \in DOMAIN messages
      /\ Spans(j, earliest, latest) /\ messages' = messages
  BY DEF CommitOf
<1>8. /\ j.first \in I
      /\ \A i \in I : /\ i \in DOMAIN context
                      /\ j.items[i] = context[i]
                      /\ Earliest(context[i]) \in Int /\ Latest(context[i]) \in Int
                      /\ Earliest(context[i]) <= Latest(context[i])
  BY ChunkFacts
<1>9. \A i \in I : earliest <= Earliest(context[i]) /\ Latest(context[i]) <= latest
  BY <1>7, <1>8 DEF Spans
<1>10. earliest \in Int /\ latest \in Int
  BY <1>7, StoreFacts
<1> HIDE DEF row
<1>11. ASSUME NEW s \in 1..n PROVE SpanNested(s)'
  <2>1. SpanNested(s)
    BY <1>3 DEF CountsInv
  <2>2. ASSUME summaries[s].depth # 0 PROVE SourceIds(s) \subseteq 1..n
    BY <1>3, <2>2 DEF IInv, LineageTiles, CondensedLineage
  <2> QED BY <1>1, <1>3, <1>4, <2>1, <2>2 DEF SpanNested
<1>12. SpanNested(k)'
  <2>1. earliest <= latest
    BY <1>8, <1>9, <1>10
  <2>2. ASSUME j.kind # "leaf", NEW t \in SourceIds(k)'
        PROVE  earliest <= summaries'[t].earliest /\ summaries'[t].latest <= latest
    <3>1. PICK i \in I : t = context[i].id
      BY <1>5
    <3>2. ~IsMessage(context[i])
      BY <1>8, <2>2 DEF FreshChunk, AtDepth, IsSummary, IsMessage
    <3>3. t \in 1..n
      BY <1>3, <1>8, <3>1, <3>2 DEF IInv, ReferencesValid
    <3>4. /\ Earliest(context[i]) = summaries[t].earliest
          /\ Latest(context[i]) = summaries[t].latest
      BY <3>1, <3>2 DEF Earliest, Latest
    <3> QED BY <1>1, <1>3, <1>9, <3>3, <3>4
  <2> QED BY <1>1, <1>6, <2>1, <2>2 DEF SpanNested
<1>13. Downwards(Below', k) /\ \A t \in 1..n : Below'[t] = Below[t]
  <2>1. ASSUME NEW t \in 1..k PROVE Below'[t] \subseteq 1..(t - 1)
    <3>1. CASE summaries'[t].depth = 0
      BY <1>1, <3>1, BelowRow
    <3>2. CASE summaries'[t].depth # 0
      BY <1>1, <1>2, <3>2, BelowRow DEF LineageTiles, CondensedLineage
    <3> QED BY <3>1, <3>2
  <2>2. ASSUME NEW t \in 1..n PROVE Below'[t] = Below[t]
    <3>1. t \in DOMAIN summaries /\ t \in DOMAIN summaries'
      BY <1>1, <1>3
    <3> QED BY <1>1, <1>4, <3>1, BelowRow
  <2> QED BY <2>1, <2>2 DEF Downwards
<1>14. \A t \in 1..n : Reach(Below', k)[t] = Reach(Below, n)[t]
  <2>1. n <= k /\ k \in Nat
    BY <1>3
  <2> QED BY <1>3, <1>13, <2>1, ReachSame
<1>15. /\ \A s : Ancestors(s)' = Reach(Below', k)[s]
       /\ \A s : Ancestors(s) = Reach(Below, n)[s]
  <2>1. /\ \A s : RowAncestors(summaries', s) = Reach(RowLinks(summaries'), k)[s]
        /\ \A s : RowAncestors(summaries, s) = Reach(RowLinks(summaries), n)[s]
    BY <1>1, <1>3, AncestorsReach
  <2> QED BY <2>1, AncestorsOfTable DEF Below
<1>16. Tok' = Tok
  BY <1>7 DEF Tok
<1>17. ASSUME NEW s \in 1..n PROVE Counted(s)'
  <2>1. Counted(s)
    BY <1>3 DEF CountsInv
  <2>2. Ancestors(s)' = Ancestors(s)
    BY <1>14, <1>15
  <2> QED BY <1>1, <1>3, <1>4, <1>16, <2>1, <2>2 DEF Counted
<1>18. InSpan(k)' = {m \in Transcript : earliest <= m /\ m <= latest}
  BY <1>1, <1>6 DEF InSpan
<1>19. summaries'[k].sourceTokens = Sum(Tok', InSpan(k)')
  BY <1>1, <1>6, <1>7, <1>16, <1>18, CommitSourceTokens
<1>20. summaries'[k].descendantCount = Cardinality(Ancestors(k)')
  <2>1. k \in 1..k
    BY <1>3
  <2>2. Ancestors(k)' = Below'[k] \cup UNION {Reach(Below', k)[u] : u \in Below'[k]}
    <3>1. PICK C : C = Below'
      OBVIOUS
    <3>2. Downwards(C, k) /\ k \in Nat
      BY <1>1, <1>13, <3>1
    <3>3. Reach(C, k)[k] = C[k] \cup UNION {Reach(C, k)[u] : u \in C[k]}
      BY <2>1, <3>2, ReachNext
    <3> QED BY <1>15, <3>1, <3>3
  <2>3. CASE j.kind = "leaf"
    <3>1. Below'[k] = {}
      BY <1>1, <1>6, <2>1, <2>3, BelowRow
    <3>2. Ancestors(k)' = {}
      BY <2>2, <3>1
    <3> QED BY <1>1, <1>6, <2>3, <3>2, FS_EmptySet DEF DescendantCount
  <2>4. CASE j.kind # "leaf"
    <3> DEFINE All == UNION {{context[i].id} \cup Reach(Below, n)[context[i].id]
                                : i \in I}
    <3>0. \A x : x \in All <=>
             \E i \in I : x \in {context[i].id} \cup Reach(Below, n)[context[i].id]
      OBVIOUS
    <3>1. /\ \A i \in I : context[i].id \in 1..n
          /\ DescendantCount(j) = Cardinality(All)
      <4> HIDE DEF All
      <4> QED BY <1>3, <2>4, <3>0, CommitDescendants
    <3>2. j.depth \in Nat
      <4>1. /\ j.depth = summaries[context[j.first].id].depth
            /\ context[j.first].id \in DOMAIN summaries
        BY <1>3, <1>8, <2>4, <3>1 DEF FreshChunk, AtDepth
      <4> QED BY <4>1 DEF IInv, SummariesValid
    <3>3. summaries'[k].depth # 0
      BY <1>1, <1>6, <2>4, <3>2
    <3>4. Below'[k] = {context[i].id : i \in I}
      BY <1>1, <1>5, <2>1, <3>3, BelowRow
    <3>5. Ancestors(k)' = All
      <4>1. ASSUME NEW x \in Ancestors(k)' PROVE x \in All
        <5>1. CASE x \in Below'[k]
          BY <3>4, <5>1
        <5>2. CASE \E u \in Below'[k] : x \in Reach(Below', k)[u]
          <6>1. PICK i \in I : x \in Reach(Below', k)[context[i].id]
            BY <3>4, <5>2
          <6>2. x \in Reach(Below, n)[context[i].id]
            BY <1>14, <3>1, <6>1
          <6> QED BY <6>2
        <5> QED BY <2>2, <5>1, <5>2
      <4>2. ASSUME NEW x \in All PROVE x \in Ancestors(k)'
        <5>1. PICK i \in I : x \in {context[i].id} \cup Reach(Below, n)[context[i].id]
          OBVIOUS
        <5>2. PICK t \in 1..n : t = context[i].id
          BY <3>1
        <5>3. t \in Below'[k] /\ Reach(Below', k)[t] = Reach(Below, n)[t]
          BY <1>14, <3>4, <5>2
        <5>4. x = t \/ x \in Reach(Below', k)[t]
          BY <5>1, <5>2, <5>3
        <5> QED BY <2>2, <5>3, <5>4
      <4> HIDE DEF All
      <4> QED BY <4>1, <4>2
    <3> QED BY <1>1, <1>6, <3>1, <3>5
  <2> QED BY <2>3, <2>4
<1>21. \A s \in 1..k : s \in 1..n \/ s = k
  BY <1>3
<1>22. Counted(k)'
  BY <1>19, <1>20 DEF Counted
<1> QED BY <1>1, <1>11, <1>12, <1>17, <1>21, <1>22 DEF CountsInv

\* A message that is appended has no part in a range that is there.
LEMMA SpansAppend ==
    ASSUME IInv, CountsInv, NEW row, messages' = Append(messages, row),
           summaries' = summaries
    PROVE  CountsInv'
<1>1. /\ Len(messages) \in Nat /\ DOMAIN messages = 1..Len(messages)
      /\ DOMAIN messages' = 1..(Len(messages) + 1)
      /\ \A m \in DOMAIN messages : messages'[m] = messages[m]
  BY AppendRow DEF IInv, StoreShape
<1>2. ASSUME NEW s \in DOMAIN summaries PROVE InSpan(s)' = InSpan(s)
  <2>1. summaries[s].latest \in DOMAIN messages
    BY DEF IInv, SummariesValid
  <2>2. ASSUME NEW m \in DOMAIN messages', m <= summaries[s].latest
        PROVE  m \in DOMAIN messages
    BY <1>1, <2>1, <2>2
  <2>3. ASSUME NEW m \in InSpan(s)' PROVE m \in InSpan(s)
    <3>1. /\ m \in DOMAIN messages' /\ messages'[m].kind = "transcript"
          /\ summaries[s].earliest <= m /\ m <= summaries[s].latest
      BY DEF InSpan, Transcript
    <3>2. m \in DOMAIN messages
      BY <2>2, <3>1
    <3> QED BY <1>1, <3>1, <3>2 DEF InSpan, Transcript
  <2>4. ASSUME NEW m \in InSpan(s) PROVE m \in InSpan(s)'
    BY <1>1 DEF InSpan, Transcript
  <2> QED BY <2>3, <2>4
<1>3. \A m \in DOMAIN messages : m \in DOMAIN messages' /\ messages'[m] = messages[m]
  BY <1>1
<1> QED BY <1>2, <1>3, CountsMessages

LEMMA CountsStutter ==
    ASSUME IInv, CountsInv, UNCHANGED storeVars
    PROVE  CountsInv'
<1>1. messages' = messages /\ summaries' = summaries
  BY DEF storeVars
<1>2. \A s : InSpan(s)' = InSpan(s)
  BY <1>1 DEF InSpan, Transcript
<1> QED BY <1>1, <1>2, CountsMessages

LEMMA CountsStep ==
    ASSUME OneDaemon, IInv, CountsInv, [Next]_vars
    PROVE  CountsInv'
<1>1. CASE UNCHANGED vars
  BY <1>1, CountsStutter DEF vars, storeVars
<1>2. ASSUME NEW tokens \in MessageTokens, Ingest(tokens)
      PROVE  CountsInv'
  BY <1>2, SpansAppend DEF Ingest, appendTranscriptMessage
<1>3. ASSUME NEW d \in Daemons, NEW req \in Requests, StartRun(d, req)
      PROVE  CountsInv'
  BY <1>3, CountsStutter DEF StartRun
<1>4. ASSUME NEW d \in Daemons, Commit(d)
      PROVE  CountsInv'
  <2>1. FreshChunk(job[d])
    BY <1>4 DEF IInv, ChunkFresh, Busy, Commit
  <2>2. PICK earliest, latest \in DOMAIN messages :
           CommitOf(job[d], Len(summaries) + 1, draft[d], earliest, latest)
    BY <1>4 DEF Commit, CommitOf, insertSummary, replaceContextRangeWithSummary
  <2>3. PICK j, k, size : j = job[d] /\ k = Len(summaries) + 1 /\ size = draft[d]
    OBVIOUS
  <2>4. FreshChunk(j) /\ CommitOf(j, k, size, earliest, latest)
    BY <2>1, <2>2, <2>3
  <2> QED BY <2>4, CommitCounts
<1>5. ASSUME NEW d \in Daemons, PersistEvent(d)
      PROVE  CountsInv'
  BY <1>5, CountsStutter, SpansAppend DEF PersistEvent, appendEventMessage
<1>6. ASSUME NEW d \in Daemons, Step(d), ~Commit(d), ~PersistEvent(d)
      PROVE  CountsInv'
  <2>1. UNCHANGED storeVars
    BY <1>6 DEF Step, BeginSweep, Evaluate, SelectLeaf, NoLeafChunk,
                SelectCondensed, NoCondensedChunk, MeasureBefore, Summarize,
                MeasureAfter, Finish
  <2> QED BY <2>1, CountsStutter
<1>7. ASSUME NEW d \in Daemons, RunStops(d)
      PROVE  CountsInv'
  BY <1>7, CountsStutter DEF RunStops
<1> QED
  BY <1>1, <1>2, <1>3, <1>4, <1>5, <1>6, <1>7 DEF Next

\* With one daemon, descendantCount is the number of distinct summaries below
\* a summary and sourceMessageTokenCount the tokens of the messages of its
\* range: the sums that leafPass and condensedPass add up count nothing twice.
THEOREM CountsExactAlways == OneDaemon => (Spec => []CountsExact)
<1> SUFFICES ASSUME OneDaemon PROVE Spec => []CountsExact
  OBVIOUS
<1>1. Spec => []IInv
  BY Inv
<1>2. Init => CountsInv
  BY DEF Init, StoreInit, CountsInv
<1>3. IInv /\ CountsInv /\ [Next]_vars => CountsInv'
  BY CountsStep
<1>4. IInv /\ CountsInv => CountsExact
  BY CountsAreExact
<1> QED
  BY <1>1, <1>2, <1>3, <1>4, PTL DEF Spec

-----------------------------------------------------------------------------
(* Ascending sequences.                                                    *)

\* q lists the numbers of S, each once, from the least on.
Ascending(q, S) ==
    /\ q \in Seq(Nat)
    /\ \A i, j \in DOMAIN q : i < j => q[i] < q[j]
    /\ \A i \in DOMAIN q : q[i] \in S
    /\ \A x \in S : \E i \in DOMAIN q : q[i] = x

LEMMA AscendingParts ==
    ASSUME NEW q, NEW S, Ascending(q, S)
    PROVE  /\ Len(q) \in Nat /\ DOMAIN q = 1..Len(q)
           /\ \A i \in 1..Len(q) : q[i] \in Nat /\ q[i] \in S
           /\ \A i, j \in 1..Len(q) : i < j => q[i] < q[j]
           /\ \A x \in S : \E i \in 1..Len(q) : q[i] = x
<1>1. q \in Seq(Nat)
  BY DEF Ascending
<1>2. /\ Len(q) \in Nat /\ DOMAIN q = 1..Len(q)
      /\ \A i \in 1..Len(q) : q[i] \in Nat
  BY <1>1, LenProperties
<1> QED BY <1>2 DEF Ascending

\* Two of them that list the same numbers agree as far as the first goes.
LEMMA AscendingAgree ==
    ASSUME NEW q, NEW r, NEW S, Ascending(q, S), Ascending(r, S)
    PROVE  \A k \in 1..Len(q) : k \in 1..Len(r) /\ r[k] = q[k]
<1> DEFINE Good == {k \in 1..Len(q) : k \in 1..Len(r) /\ r[k] = q[k]}
<1>1. /\ Len(q) \in Nat
      /\ \A i \in 1..Len(q) : q[i] \in Nat /\ q[i] \in S
      /\ \A i, j \in 1..Len(q) : i < j => q[i] < q[j]
      /\ \A x \in S : \E i \in 1..Len(q) : q[i] = x
  BY AscendingParts
<1>2. /\ Len(r) \in Nat
      /\ \A i \in 1..Len(r) : r[i] \in Nat /\ r[i] \in S
      /\ \A i, j \in 1..Len(r) : i < j => r[i] < r[j]
      /\ \A x \in S : \E i \in 1..Len(r) : r[i] = x
  BY AscendingParts
<1>3. ASSUME NEW k \in 1..Len(q), \A i \in 1..(k - 1) : i \in Good
      PROVE  k \in Good
  <2>1. q[k] \in Nat /\ q[k] \in S /\ k \in Nat
    BY <1>1
  <2>2. PICK m \in 1..Len(r) : r[m] = q[k]
    BY <1>2, <2>1
  <2>3. ~(m < k)
    <3> SUFFICES ASSUME m < k PROVE FALSE
      OBVIOUS
    <3>1. m \in 1..(k - 1) /\ m \in 1..Len(q)
      BY <1>1, <1>2
    <3>2. r[m] = q[m]
      BY <1>3, <3>1
    <3>3. q[m] < q[k] /\ q[m] \in Nat
      BY <1>1, <3>1
    <3> QED BY <2>1, <2>2, <3>2, <3>3
  <2>4. k \in 1..Len(r)
    BY <1>2, <2>1, <2>3
  <2>5. ~(k < m)
    <3> SUFFICES ASSUME k < m PROVE FALSE
      OBVIOUS
    <3>1. r[k] < r[m] /\ r[k] \in S /\ r[k] \in Nat
      BY <1>2, <2>4
    <3>2. PICK p \in 1..Len(q) : q[p] = r[k]
      BY <1>1, <3>1
    <3>3. CASE p < k
      <4>1. p \in 1..(k - 1)
        BY <1>1, <2>1, <3>3
      <4>2. r[p] = q[p] /\ p \in 1..Len(r)
        BY <1>3, <4>1
      <4>3. r[p] < r[k]
        BY <1>2, <2>4, <3>3, <4>2
      <4> QED BY <3>1, <3>2, <4>2, <4>3
    <3>4. CASE p = k
      BY <2>2, <3>1, <3>2, <3>4
    <3>5. CASE k < p
      <4>1. q[k] < q[p]
        BY <1>1, <3>5
      <4> QED BY <2>1, <2>2, <3>1, <3>2, <4>1
    <3> QED BY <1>1, <2>1, <3>3, <3>4, <3>5
  <2>6. m = k
    BY <1>2, <2>1, <2>3, <2>5
  <2> QED BY <2>2, <2>4, <2>6
<1>4. \A k \in 1..Len(q) : k \in Good
  <2> HIDE DEF Good
  <2> QED BY <1>1, <1>3, Upwards
<1> QED BY <1>4

\* There is one list of S.
LEMMA AscendingUnique ==
    ASSUME NEW q, NEW r, NEW S, Ascending(q, S), Ascending(r, S)
    PROVE  q = r
<1>1. /\ Len(q) \in Nat /\ DOMAIN q = 1..Len(q)
      /\ Len(r) \in Nat /\ DOMAIN r = 1..Len(r)
  BY AscendingParts
<1>2. /\ \A k \in 1..Len(q) : k \in 1..Len(r) /\ r[k] = q[k]
      /\ \A k \in 1..Len(r) : k \in 1..Len(q) /\ q[k] = r[k]
  BY AscendingAgree
<1>3. Len(q) = Len(r)
  <2>1. Len(q) = 0 \/ Len(q) \in 1..Len(q)
    BY <1>1
  <2>2. Len(r) = 0 \/ Len(r) \in 1..Len(r)
    BY <1>1
  <2>3. Len(q) <= Len(r)
    BY <1>1, <1>2, <2>1
  <2>4. Len(r) <= Len(q)
    BY <1>1, <1>2, <2>2
  <2>5. \A a, b \in Nat : a <= b /\ b <= a => a = b
    OBVIOUS
  <2> QED BY <1>1, <2>3, <2>4, <2>5, Zenon
<1>4. q \in Seq(Nat) /\ r \in Seq(Nat)
  BY DEF Ascending
<1>5. \A k \in 1..Len(q) : q[k] = r[k]
  BY <1>2
<1>6. q = [k \in 1..Len(q) |-> q[k]] /\ r = [k \in 1..Len(r) |-> r[k]]
  BY <1>1, <1>4, SeqDef
<1> QED BY <1>3, <1>5, <1>6

\* The list of no numbers, and of one.
LEMMA AscendingEmpty ==
    ASSUME NEW q, Ascending(q, {}) PROVE q = <<>>
<1>1. Len(q) \in Nat /\ \A i \in 1..Len(q) : q[i] \in {}
  BY AscendingParts
<1>2. Len(q) = 0
  <2>1. Len(q) # 0 => Len(q) \in 1..Len(q)
    BY <1>1
  <2> QED BY <1>1, <2>1
<1> QED BY <1>2, EmptySeq DEF Ascending

LEMMA EmptyAscending == Ascending(<<>>, {})
  BY EmptySeq DEF Ascending

LEMMA AscendingOne ==
    ASSUME NEW m \in Nat PROVE Ascending(<<m>>, {m})
<1>1. <<m>> \in Seq(Nat) /\ DOMAIN <<m>> = 1..1 /\ <<m>>[1] = m
  OBVIOUS
<1> QED BY <1>1 DEF Ascending

\* A list may follow another if its numbers are larger.
LEMMA AscendingJoin ==
    ASSUME NEW q, NEW S, Ascending(q, S), NEW r, NEW T, Ascending(r, T),
           \A x \in S : \A y \in T : x < y
    PROVE  Ascending(q \o r, S \cup T)
<1>1. /\ Len(q) \in Nat
      /\ \A i \in 1..Len(q) : q[i] \in Nat /\ q[i] \in S
      /\ \A i, j \in 1..Len(q) : i < j => q[i] < q[j]
      /\ \A x \in S : \E i \in 1..Len(q) : q[i] = x
  BY AscendingParts
<1>2. /\ Len(r) \in Nat
      /\ \A i \in 1..Len(r) : r[i] \in Nat /\ r[i] \in T
      /\ \A i, j \in 1..Len(r) : i < j => r[i] < r[j]
      /\ \A x \in T : \E i \in 1..Len(r) : r[i] = x
  BY AscendingParts
<1>3. PICK l, n : l = Len(q) /\ n = Len(r)
  OBVIOUS
<1>4. q \in Seq(Nat) /\ r \in Seq(Nat)
  BY DEF Ascending
<1>5. PICK w : w = q \o r
  OBVIOUS
<1>6. /\ w \in Seq(Nat) /\ Len(w) = l + n
      /\ \A i \in 1..(l + n) : w[i] = IF i <= l THEN q[i] ELSE r[i - l]
  BY <1>3, <1>4, <1>5, ConcatProperties
<1>7. DOMAIN w = 1..(l + n)
  BY <1>6, LenProperties
<1>8. l \in Nat /\ n \in Nat
  BY <1>1, <1>2, <1>3
<1>9. \A i \in 1..(l + n) : \/ i \in 1..l /\ w[i] = q[i]
                            \/ i > l /\ i - l \in 1..n /\ w[i] = r[i - l]
  BY <1>6, <1>8
<1>10. ASSUME NEW i \in 1..(l + n), NEW j \in 1..(l + n), i < j PROVE w[i] < w[j]
  <2>1. CASE i \in 1..l /\ j \in 1..l
    BY <1>1, <1>3, <1>6, <1>10, <2>1
  <2>2. CASE i \in 1..l /\ j > l
    <3>1. w[i] = q[i] /\ w[j] = r[j - l] /\ j - l \in 1..n
      BY <1>6, <1>8, <1>9, <2>2
    <3>2. q[i] \in S /\ r[j - l] \in T
      BY <1>1, <1>2, <1>3, <2>2, <3>1
    <3> QED BY <3>1, <3>2
  <2>3. CASE i > l /\ j > l
    <3>1. PICK a, b : a = i - l /\ b = j - l
      OBVIOUS
    <3>2. a \in 1..n /\ b \in 1..n /\ a < b /\ w[i] = r[a] /\ w[j] = r[b]
      BY <1>6, <1>8, <1>10, <2>3, <3>1
    <3> QED BY <1>2, <1>3, <3>2
  <2> QED BY <1>8, <1>10, <2>1, <2>2, <2>3
<1>11. ASSUME NEW i \in 1..(l + n) PROVE w[i] \in S \cup T
  BY <1>1, <1>2, <1>3, <1>9
<1>12. ASSUME NEW x \in S \cup T PROVE \E i \in 1..(l + n) : w[i] = x
  <2>1. CASE x \in S
    <3>1. PICK i \in 1..l : q[i] = x
      BY <1>1, <1>3, <2>1
    <3>2. i \in 1..(l + n) /\ i <= l
      BY <1>8
    <3> QED BY <1>6, <3>1, <3>2
  <2>2. CASE x \in T
    <3>1. PICK i \in 1..n : r[i] = x
      BY <1>2, <1>3, <2>2
    <3>2. PICK e : e = l + i
      OBVIOUS
    <3>3. e \in 1..(l + n) /\ ~(e <= l) /\ e - l = i
      BY <1>8, <3>2
    <3> QED BY <1>6, <3>1, <3>3
  <2> QED BY <2>1, <2>2
<1>13. Ascending(w, S \cup T)
  BY <1>6, <1>7, <1>10, <1>11, <1>12 DEF Ascending
<1> QED BY <1>5, <1>13

-----------------------------------------------------------------------------
(* Flattening: f[i] is the first i sequences of qs, joined.                *)

Joins(f, qs, n) ==
    f = [i \in 1..n |-> IF i = 1 THEN qs[i] ELSE f[i - 1] \o qs[i]]

Joined(qs, n) == CHOOSE f : Joins(f, qs, n)

LEMMA FlattenSeqJoins ==
    ASSUME NEW qs
    PROVE  FlattenSeq(qs) = IF Len(qs) = 0 THEN qs ELSE Joined(qs, Len(qs))[Len(qs)]
  BY DEF FlattenSeq, Joined, Joins

LEMMA JoinsExist ==
    ASSUME NEW n \in Nat, NEW qs PROVE Joins(Joined(qs, n), qs, n)
<1> DEFINE Good == {k \in Nat : \E f : Joins(f, qs, k)}
<1>1. 0 \in Good
  <2>1. Joins([i \in 1..0 |-> {}], qs, 0)
    BY DEF Joins
  <2> QED BY <2>1
<1>2. ASSUME NEW k \in Nat, k \in Good PROVE k + 1 \in Good
  <2>1. PICK f : Joins(f, qs, k)
    BY <1>2
  <2> DEFINE top == IF k + 1 = 1 THEN qs[k + 1] ELSE f[k] \o qs[k + 1]
             g == [i \in 1..(k + 1) |-> IF i = k + 1 THEN top ELSE f[i]]
  <2>2. \A i \in 1..k : g[i] = f[i]
    OBVIOUS
  <2>3. \A i \in 1..k : f[i] = IF i = 1 THEN qs[i] ELSE f[i - 1] \o qs[i]
    BY <2>1 DEF Joins
  <2>4. g[k + 1] = top
    OBVIOUS
  <2>5. g = [i \in 1..(k + 1) |-> g[i]]
    OBVIOUS
  <2> HIDE DEF g
  <2>6. ASSUME NEW i \in 1..(k + 1)
        PROVE  g[i] = IF i = 1 THEN qs[i] ELSE g[i - 1] \o qs[i]
    <3>1. CASE i = k + 1
      <4>1. i # 1 => i - 1 = k /\ k \in 1..k
        BY <3>1
      <4> QED BY <2>2, <2>4, <3>1, <4>1
    <3>2. CASE i \in 1..k
      <4>1. i # 1 => i - 1 \in 1..k
        BY <3>2
      <4> QED BY <2>2, <2>3, <3>2, <4>1
    <3> QED BY <3>1, <3>2
  <2> HIDE DEF top
  <2>7. Joins(g, qs, k + 1)
    BY <2>5, <2>6 DEF Joins
  <2> QED BY <2>7
<1>3. ASSUME NEW k \in 1..n, \A i \in 1..(k - 1) : i \in Good
      PROVE  k \in Good
  <2> HIDE DEF Good
  <2>1. k - 1 \in Nat /\ (k - 1) + 1 = k
    OBVIOUS
  <2>2. k - 1 \in Good
    <3>1. k - 1 = 0 \/ k - 1 \in 1..(k - 1)
      OBVIOUS
    <3> QED BY <1>1, <1>3, <3>1
  <2> QED BY <1>2, <2>1, <2>2
<1>4. n \in Good
  <2> HIDE DEF Good
  <2>1. n = 0 \/ n \in 1..n
    OBVIOUS
  <2> QED BY <1>1, <1>3, <2>1, Upwards
<1> QED BY <1>4 DEF Joined

\* Lists of sets that lie one behind the other.
ListsApart(qs, P, n) ==
    /\ \A i \in 1..n : Ascending(qs[i], P[i])
    /\ \A i, j \in 1..n : i < j => \A x \in P[i] : \A y \in P[j] : x < y

\* Joined, they are the list of all their numbers.
LEMMA FlattenAscending ==
    ASSUME NEW qs, NEW n \in Nat, Len(qs) = n, n = 0 => qs = <<>>,
           NEW P, ListsApart(qs, P, n),
           NEW All, \A x : x \in All <=> \E i \in 1..n : x \in P[i]
    PROVE  Ascending(FlattenSeq(qs), All)
<1>1. FlattenSeq(qs) = IF n = 0 THEN qs ELSE Joined(qs, n)[n]
  BY FlattenSeqJoins
<1>2. CASE n = 0
  <2>1. All = {}
    BY <1>2
  <2> QED BY <1>1, <1>2, <2>1, EmptyAscending
<1>3. CASE n # 0
  <2> DEFINE f == Joined(qs, n)
             Upto(k) == {x \in All : \E i \in 1..k : x \in P[i]}
             Good == {k \in 1..n : Ascending(f[k], Upto(k))}
  <2>1. \A k \in 1..n : f[k] = IF k = 1 THEN qs[k] ELSE f[k - 1] \o qs[k]
    <3>1. Joins(f, qs, n)
      BY JoinsExist
    <3> HIDE DEF f
    <3> QED BY <3>1 DEF Joins
  <2> HIDE DEF f
  <2>2. ASSUME NEW k \in 1..n, \A i \in 1..(k - 1) : i \in Good
        PROVE  k \in Good
    <3>1. Ascending(qs[k], P[k])
      BY DEF ListsApart
    <3>2. CASE k = 1
      <4>1. Upto(k) = P[k]
        BY <3>2
      <4> HIDE DEF Upto
      <4> QED BY <2>1, <3>1, <3>2, <4>1
    <3>3. CASE k # 1
      <4>1. k - 1 \in 1..(k - 1) /\ k - 1 \in 1..n
        BY <3>3
      <4>2. Ascending(f[k - 1], Upto(k - 1))
        BY <2>2, <4>1
      <4>3. \A x \in Upto(k - 1) : \A y \in P[k] : x < y
        <5> SUFFICES ASSUME NEW x \in Upto(k - 1), NEW y \in P[k] PROVE x < y
          OBVIOUS
        <5>1. PICK i \in 1..(k - 1) : x \in P[i]
          OBVIOUS
        <5>2. i \in 1..n /\ i < k
          BY <5>1
        <5> QED BY <5>1, <5>2 DEF ListsApart
      <4>4. Upto(k) = Upto(k - 1) \cup P[k]
        <5>1. \A i \in 1..k : i = k \/ i \in 1..(k - 1)
          OBVIOUS
        <5>2. \A i \in 1..(k - 1) : i \in 1..k
          OBVIOUS
        <5>3. k \in 1..k /\ k \in 1..n
          OBVIOUS
        <5> QED BY <5>1, <5>2, <5>3
      <4>5. f[k] = f[k - 1] \o qs[k]
        BY <2>1, <3>3
      <4> HIDE DEF Upto
      <4>6. Ascending(f[k - 1] \o qs[k], Upto(k - 1) \cup P[k])
        BY <3>1, <4>2, <4>3, AscendingJoin
      <4> QED BY <4>4, <4>5, <4>6
    <3> QED BY <3>2, <3>3
  <2>3. n \in Good
    <3> HIDE DEF Good
    <3>1. n \in 1..n
      BY <1>3
    <3> QED BY <2>2, <3>1, Upwards
  <2>4. Upto(n) = All
    OBVIOUS
  <2> HIDE DEF Upto
  <2> QED BY <1>1, <1>3, <2>3, <2>4 DEF f
<1> QED BY <1>2, <1>3

-----------------------------------------------------------------------------
(* Expanding a summary down its links.                                     *)

\* f[t] is what row t of table T leads to, for the first n rows.
Expands(f, T, n) ==
    f = [t \in 1..n |->
            IF T[t].depth = 0 THEN T[t].sources
            ELSE FlattenSeq([x \in DOMAIN T[t].sources |-> f[T[t].sources[x]]])]

Expansion(T, n) == CHOOSE f : Expands(f, T, n)

LEMMA ExpandedRow ==
    ASSUME NEW n, DOMAIN summaries = 1..n, NEW s
    PROVE  Expanded(s) = Expansion(summaries, n)[s]
  BY DEF Expanded, Expansion, Expands

\* A row is a source of a later row only.
LinksBack(T, n) ==
    \A t \in 1..n : T[t].depth # 0 =>
        \A x \in DOMAIN T[t].sources : T[t].sources[x] \in 1..(t - 1)

LEMMA ExpansionExists ==
    ASSUME NEW n \in Nat, NEW T, LinksBack(T, n)
    PROVE  Expands(Expansion(T, n), T, n)
<1> DEFINE Good == {k \in Nat : k <= n => \E f : Expands(f, T, k)}
<1>1. 0 \in Good
  <2>1. Expands([t \in 1..0 |-> {}], T, 0)
    BY DEF Expands
  <2> QED BY <2>1
<1>2. ASSUME NEW k \in Nat, k \in Good PROVE k + 1 \in Good
  <2> SUFFICES ASSUME k + 1 <= n PROVE \E f : Expands(f, T, k + 1)
    OBVIOUS
  <2>1. PICK f : Expands(f, T, k)
    BY <1>2
  <2> DEFINE Of(h, t) ==
                IF T[t].depth = 0 THEN T[t].sources
                ELSE FlattenSeq([x \in DOMAIN T[t].sources |-> h[T[t].sources[x]]])
             g == [t \in 1..(k + 1) |-> IF t = k + 1 THEN Of(f, k + 1) ELSE f[t]]
  <2>2. \A t \in 1..k : g[t] = f[t]
    OBVIOUS
  <2>3. \A t \in 1..k : f[t] = Of(f, t)
    BY <2>1 DEF Expands
  <2>4. \A t \in 1..(k + 1) : g[t] = Of(f, t)
    <3> HIDE DEF Of
    <3> QED BY <2>3
  <2>5. g = [t \in 1..(k + 1) |-> g[t]]
    OBVIOUS
  <2> HIDE DEF g
  <2>6. ASSUME NEW t \in 1..(k + 1) PROVE Of(g, t) = Of(f, t)
    <3>1. CASE T[t].depth = 0
      BY <3>1
    <3>2. CASE T[t].depth # 0
      <4>1. \A x \in DOMAIN T[t].sources : T[t].sources[x] \in 1..k
        BY <3>2 DEF LinksBack
      <4>2. [x \in DOMAIN T[t].sources |-> g[T[t].sources[x]]]
              = [x \in DOMAIN T[t].sources |-> f[T[t].sources[x]]]
        BY <2>2, <4>1
      <4> QED BY <4>2
    <3> QED BY <3>1, <3>2
  <2>7. g = [t \in 1..(k + 1) |-> Of(g, t)]
    <3> HIDE DEF Of
    <3> QED BY <2>4, <2>5, <2>6
  <2>8. Expands(g, T, k + 1)
    BY <2>7 DEF Expands
  <2> QED BY <2>8
<1>3. ASSUME NEW k \in 1..n, \A i \in 1..(k - 1) : i \in Good
      PROVE  k \in Good
  <2> HIDE DEF Good
  <2>1. k - 1 \in Nat /\ (k - 1) + 1 = k
    OBVIOUS
  <2>2. k - 1 \in Good
    <3>1. k - 1 = 0 \/ k - 1 \in 1..(k - 1)
      OBVIOUS
    <3> QED BY <1>1, <1>3, <3>1
  <2> QED BY <1>2, <2>1, <2>2
<1>4. n \in Good
  <2> HIDE DEF Good
  <2>1. n = 0 \/ n \in 1..n
    OBVIOUS
  <2> QED BY <1>1, <1>3, <2>1, Upwards
<1>5. \E f : Expands(f, T, n)
  BY <1>4
<1> QED BY <1>5 DEF Expansion

\* The links of a leaf are in the order of the messages; the ranges of the
\* sources of a condensed summary are apart and in the order of its links.
LinksInOrder(s) ==
    LET src == summaries[s].sources
    IN  \A x, y \in DOMAIN src : x < y =>
            IF summaries[s].depth = 0 THEN src[x] < src[y]
            ELSE summaries[src[x]].latest < summaries[src[y]].earliest

AllInOrder == \A s \in DOMAIN summaries : LinksInOrder(s)

\* Down the links of a summary lie the transcript messages of its range, in
\* their order.
LEMMA ExpandedAscending ==
    ASSUME IInv, CountsInv, WellFormed, AllInOrder,
           NEW s \in DOMAIN summaries
    PROVE  Ascending(Expanded(s), InSpan(s))
<1>1. PICK n \in Nat : n = Len(summaries) /\ DOMAIN summaries = 1..n
  BY StoreFacts
<1>a. \A t \in 1..n : /\ summaries[t].sources \in Seq(Nat)
                      /\ summaries[t].earliest \in Nat /\ summaries[t].latest \in Nat
  <2>1. summaries \in Seq(SummaryRow)
    BY DEF WellFormed, StoreWF, StoreTypeOK
  <2>2. \A t \in 1..n : summaries[t] \in SummaryRow
    BY <1>1, <2>1, LenProperties
  <2> QED BY <2>2 DEF SummaryRow
<1>b. \A t : \A m \in InSpan(t) :
         /\ m \in Transcript /\ m \in Nat
         /\ summaries[t].earliest <= m /\ m <= summaries[t].latest
  <2>1. \A t : \A m \in InSpan(t) : m \in DOMAIN messages
    BY DEF InSpan, Transcript
  <2>2. \A m \in DOMAIN messages : m \in Nat
    BY StoreFacts
  <2> QED BY <2>1, <2>2 DEF InSpan
<1> DEFINE f == Expansion(summaries, n)
           Good == {t \in 1..n : Ascending(f[t], InSpan(t))}
<1>2. LinksBack(summaries, n)
  BY <1>1 DEF LinksBack, IInv, LineageTiles, CondensedLineage, SourceIds
<1>3. \A t \in 1..n : f[t] =
         IF summaries[t].depth = 0 THEN summaries[t].sources
         ELSE FlattenSeq([x \in DOMAIN summaries[t].sources |->
                             f[summaries[t].sources[x]]])
  <2>1. Expands(f, summaries, n)
    BY <1>2, ExpansionExists
  <2> HIDE DEF f
  <2> QED BY <2>1 DEF Expands
<1> HIDE DEF f
<1>4. ASSUME NEW t \in 1..n, \A i \in 1..(t - 1) : i \in Good
      PROVE  t \in Good
  <2>1. PICK src : src = summaries[t].sources
    OBVIOUS
  <2>2. src \in Seq(Nat)
    BY <1>a, <2>1
  <2>3. Len(src) \in Nat /\ DOMAIN src = 1..Len(src)
    BY <2>2, LenProperties
  <2>4. SourceIds(t) = {src[x] : x \in DOMAIN src}
    BY <2>1 DEF SourceIds
  <2>5. CASE summaries[t].depth = 0
    <3>1. InSpan(t) = {src[x] : x \in DOMAIN src}
      BY <1>1, <2>4, <2>5 DEF IInv, LineageTiles, LeafLineage
    <3>2. \A x, y \in DOMAIN src : x < y => src[x] < src[y]
      BY <1>1, <2>1, <2>5 DEF AllInOrder, LinksInOrder
    <3>3. Ascending(src, InSpan(t))
      BY <2>2, <3>1, <3>2 DEF Ascending
    <3> QED BY <1>3, <2>1, <2>5, <3>3
  <2>6. CASE summaries[t].depth # 0
    <3> DEFINE qs == [x \in DOMAIN src |-> f[src[x]]]
               P == [x \in DOMAIN src |-> InSpan(src[x])]
    <3>1. f[t] = FlattenSeq(qs)
      BY <1>3, <2>1, <2>6
    <3>2. \A x \in DOMAIN src : src[x] \in 1..(t - 1) /\ src[x] \in 1..n
      BY <1>2, <2>1, <2>6 DEF LinksBack
    <3>3. \A x \in DOMAIN src : Ascending(qs[x], P[x])
      BY <1>4, <3>2
    <3>4. ASSUME NEW x \in DOMAIN src, NEW y \in DOMAIN src, x < y,
                 NEW a \in P[x], NEW b \in P[y]
          PROVE  a < b
      <4>1. summaries[src[x]].latest < summaries[src[y]].earliest
        BY <1>1, <2>1, <2>6, <3>4 DEF AllInOrder, LinksInOrder
      <4>2. a \in InSpan(src[x]) /\ b \in InSpan(src[y])
        BY <3>4
      <4>3. /\ a \in Nat /\ a <= summaries[src[x]].latest
            /\ b \in Nat /\ summaries[src[y]].earliest <= b
        BY <1>b, <4>2
      <4>4. summaries[src[x]].latest \in Nat /\ summaries[src[y]].earliest \in Nat
        BY <1>a, <3>2, <3>4
      <4> QED BY <4>1, <4>3, <4>4
    <3>5. ASSUME NEW m PROVE m \in InSpan(t) <=> \E x \in DOMAIN src : m \in P[x]
      <4>1. ASSUME m \in InSpan(t) PROVE \E x \in DOMAIN src : m \in P[x]
        <5>1. m \in UNION {InSpan(u) : u \in SourceIds(t)}
          BY <1>1, <2>6, <4>1 DEF IInv, LineageTiles, CondensedLineage
        <5> QED BY <2>4, <5>1
      <4>2. ASSUME NEW x \in DOMAIN src, m \in P[x] PROVE m \in InSpan(t)
        <5>1. /\ summaries[t].earliest <= summaries[src[x]].earliest
              /\ summaries[src[x]].latest <= summaries[t].latest
          BY <1>1, <2>4, <2>6 DEF CountsInv, SpanNested
        <5>2. m \in InSpan(src[x])
          BY <4>2
        <5>3. /\ m \in Transcript /\ m \in Nat
              /\ summaries[src[x]].earliest <= m /\ m <= summaries[src[x]].latest
          BY <1>b, <5>2
        <5>4. PICK u \in 1..n : u = src[x]
          BY <3>2
        <5>5. /\ summaries[t].earliest \in Nat /\ summaries[t].latest \in Nat
              /\ summaries[u].earliest \in Nat /\ summaries[u].latest \in Nat
          BY <1>a
        <5>6. summaries[t].earliest <= m /\ m <= summaries[t].latest
          BY <5>1, <5>3, <5>4, <5>5
        <5> QED BY <5>3, <5>6 DEF InSpan
      <4> QED BY <4>1, <4>2
    <3>6. qs \in Seq({qs[x] : x \in DOMAIN src})
      BY <2>3, IsASeq
    <3>7. Len(qs) = Len(src) /\ (Len(src) = 0 => qs = <<>>)
      <4>1. DOMAIN qs = 1..Len(src)
        BY <2>3
      <4> HIDE DEF qs
      <4>2. Len(qs) \in Nat /\ DOMAIN qs = 1..Len(qs)
        BY <3>6, LenProperties
      <4>3. Len(qs) = Len(src)
        BY <2>3, <4>1, <4>2
      <4> QED BY <3>6, <4>3, EmptySeq
    <3> HIDE DEF qs, P
    <3>8. ListsApart(qs, P, Len(src))
      BY <2>3, <3>3, <3>4 DEF ListsApart
    <3>9. \A m : m \in InSpan(t) <=> \E x \in 1..Len(src) : m \in P[x]
      BY <2>3, <3>5
    <3>10. Ascending(FlattenSeq(qs), InSpan(t))
      BY <2>3, <3>7, <3>8, <3>9, FlattenAscending
    <3> QED BY <3>1, <3>10
  <2> QED BY <2>5, <2>6
<1>5. \A t \in 1..n : t \in Good
  <2> HIDE DEF Good
  <2> QED BY <1>4, Upwards
<1>6. Expanded(s) = f[s]
  BY <1>1, ExpandedRow DEF f
<1> QED BY <1>1, <1>5, <1>6

-----------------------------------------------------------------------------
(* The context list, expanded, is the transcript.                          *)

LEMMA ContextAscending ==
    ASSUME IInv, CountsInv, WellFormed, AllInOrder
    PROVE  Ascending(ContextMessages, Transcript)
<1> DEFINE qs == [i \in DOMAIN context |->
                     IF IsMessage(context[i]) THEN <<context[i].id>>
                                              ELSE Expanded(context[i].id)]
           P == [i \in DOMAIN context |-> Covers(context[i])]
<1>1. PICK n \in Nat : n = Len(context) /\ DOMAIN context = 1..n
  BY StoreFacts
<1>2. \A m \in Transcript : m \in Nat
  BY StoreFacts DEF Transcript
<1>3. \A i \in 1..n : Earliest(context[i]) \in Nat /\ Latest(context[i]) \in Nat
  <2>1. \A i \in DOMAIN context : /\ Earliest(context[i]) \in DOMAIN messages
                                  /\ Latest(context[i]) \in DOMAIN messages
    BY DEF IInv, ReferencesValid, SummariesValid, Earliest, Latest, IsMessage,
           Transcript
  <2>2. \A m \in DOMAIN messages : m \in Nat
    BY StoreFacts
  <2> QED BY <1>1, <2>1, <2>2
<1>4. ASSUME NEW i \in 1..n PROVE Ascending(qs[i], P[i])
  <2>1. CASE IsMessage(context[i])
    <3>1. context[i].id \in Transcript /\ context[i].id \in Nat
      BY <1>1, <1>2, <2>1 DEF IInv, ReferencesValid
    <3>2. qs[i] = <<context[i].id>>
      BY <1>1, <2>1
    <3>3. P[i] = {context[i].id}
      <4>1. P[i] = Covers(context[i])
        BY <1>1
      <4>2. Earliest(context[i]) = context[i].id /\ Latest(context[i]) = context[i].id
        BY <2>1 DEF Earliest, Latest
      <4>3. \A m \in Nat : context[i].id <= m /\ m <= context[i].id => m = context[i].id
        BY <3>1
      <4>4. context[i].id <= context[i].id
        BY <3>1
      <4> QED BY <1>2, <3>1, <4>1, <4>2, <4>3, <4>4 DEF Covers
    <3> QED BY <3>1, <3>2, <3>3, AscendingOne
  <2>2. CASE ~IsMessage(context[i])
    <3>1. context[i].id \in DOMAIN summaries
      BY <1>1, <2>2 DEF IInv, ReferencesValid
    <3>2. qs[i] = Expanded(context[i].id)
      BY <1>1, <2>2
    <3>3. P[i] = InSpan(context[i].id)
      BY <1>1, <2>2 DEF Covers, Earliest, Latest, InSpan
    <3> QED BY <3>1, <3>2, <3>3, ExpandedAscending
  <2> QED BY <2>1, <2>2
<1>5. ASSUME NEW i \in 1..n, NEW j \in 1..n, i < j,
             NEW a \in P[i], NEW b \in P[j]
      PROVE  a < b
  <2>1. Latest(context[i]) < Earliest(context[j])
    BY <1>1, <1>5 DEF IInv, ContextTiles
  <2>2. a \in Covers(context[i]) /\ b \in Covers(context[j])
    BY <1>1, <1>5
  <2>3. /\ a \in Nat /\ a <= Latest(context[i])
        /\ b \in Nat /\ Earliest(context[j]) <= b
    BY <1>2, <2>2 DEF Covers
  <2> QED BY <1>3, <2>1, <2>3
<1>6. ASSUME NEW m PROVE m \in Transcript <=> \E i \in 1..n : m \in P[i]
  <2>1. \A i \in 1..n : P[i] = Covers(context[i])
    BY <1>1
  <2> HIDE DEF P
  <2> QED BY <1>1, <2>1 DEF Covers, IInv, ContextTiles
<1>7. qs \in Seq({qs[i] : i \in DOMAIN context})
  BY <1>1, IsASeq
<1>8. Len(qs) = n /\ (n = 0 => qs = <<>>)
  <2>1. DOMAIN qs = 1..n
    BY <1>1
  <2> HIDE DEF qs
  <2>2. Len(qs) \in Nat /\ DOMAIN qs = 1..Len(qs)
    BY <1>7, LenProperties
  <2>3. Len(qs) = n
    BY <2>1, <2>2
  <2> QED BY <1>7, <2>3, EmptySeq
<1>9. ContextMessages = FlattenSeq(qs)
  BY DEF ContextMessages
<1> HIDE DEF qs, P
<1>10. ListsApart(qs, P, n)
  BY <1>4, <1>5 DEF ListsApart
<1> QED BY <1>6, <1>8, <1>9, <1>10, FlattenAscending

-----------------------------------------------------------------------------
(* The order of links is kept.                                             *)

\* Rows that are there keep their links.
LEMMA OrderStutter ==
    ASSUME AllInOrder, summaries' = summaries PROVE AllInOrder'
  BY DEF AllInOrder, LinksInOrder

\* The new row's links are in the order of the chunk.
LEMMA OrderCommit ==
    ASSUME IInv, CountsInv, AllInOrder, NEW j, FreshChunk(j), NEW k, NEW size,
           NEW earliest, NEW latest, CommitOf(j, k, size, earliest, latest)
    PROVE  AllInOrder'
<1>1. /\ k \in Nat /\ DOMAIN summaries = 1..(k - 1)
      /\ DOMAIN summaries' = 1..k
      /\ \A s \in DOMAIN summaries : summaries'[s] = summaries[s]
      /\ summaries'[k] = NewSummary(j, size, earliest, latest)
      /\ summaries' \in Seq({summaries'[s] : s \in DOMAIN summaries'})
      /\ Transcript' = Transcript
  BY CommitRow
<1>2. ASSUME NEW s \in DOMAIN summaries PROVE LinksInOrder(s)'
  <2>1. LinksInOrder(s) /\ summaries'[s] = summaries[s]
    BY <1>1 DEF AllInOrder
  <2>2. CASE summaries[s].depth = 0
    BY <2>1, <2>2 DEF LinksInOrder
  <2>3. CASE summaries[s].depth # 0
    <3>1. \A x \in DOMAIN summaries[s].sources :
             summaries[s].sources[x] \in DOMAIN summaries
      BY <1>1, <2>3 DEF IInv, LineageTiles, CondensedLineage, SourceIds
    <3>2. \A x \in DOMAIN summaries[s].sources :
             summaries'[summaries[s].sources[x]] = summaries[summaries[s].sources[x]]
      BY <1>1, <3>1
    <3> QED BY <2>1, <2>3, <3>2 DEF LinksInOrder
  <2> QED BY <2>2, <2>3
<1>3. LinksInOrder(k)'
  <2>1. /\ \A i \in j.first..j.last :
              /\ i \in DOMAIN context
              /\ j.items[i] = context[i]
        /\ \A i, e \in j.first..j.last : i < e =>
              Latest(context[i]) < Earliest(context[e])
    BY ChunkFacts
  <2>2. j.first \in Int /\ j.last \in Int
    BY StoreFacts DEF FreshChunk
  <2>3. PICK src : src = Sources(j)
    OBVIOUS
  <2>4. /\ summaries'[k].sources = src
        /\ summaries'[k].depth = IF j.kind = "leaf" THEN 0 ELSE j.depth + 1
    BY <1>1, <2>3 DEF NewSummary
  <2>5. ASSUME NEW x \in DOMAIN src, NEW y \in DOMAIN src, x < y
        PROVE  \E a, b \in j.first..j.last :
                  a < b /\ src[x] = context[a].id /\ src[y] = context[b].id
    <3>1. x \in 1..(j.last - j.first + 1) /\ y \in 1..(j.last - j.first + 1)
      BY <2>3, <2>5 DEF Sources
    <3>2. PICK a, b : a = j.first + x - 1 /\ b = j.first + y - 1
      OBVIOUS
    <3>3. a \in j.first..j.last /\ b \in j.first..j.last /\ a < b
      BY <2>2, <2>5, <3>1, <3>2
    <3>4. src[x] = j.items[a].id /\ src[y] = j.items[b].id
      BY <2>3, <3>1, <3>2 DEF Sources
    <3> QED BY <2>1, <3>3, <3>4
  <2>6. CASE j.kind = "leaf"
    <3>1. \A i \in j.first..j.last : IsMessage(context[i])
      BY <2>6 DEF FreshChunk
    <3>2. \A x, y \in DOMAIN src : x < y => src[x] < src[y]
      BY <2>1, <2>5, <3>1 DEF Earliest, Latest
    <3> QED BY <2>4, <2>6, <3>2 DEF LinksInOrder
  <2>7. CASE j.kind # "leaf"
    <3>1. \A i \in j.first..j.last : ~IsMessage(context[i]) /\ AtDepth(i, j.depth)
      BY <2>7 DEF FreshChunk, AtDepth, IsSummary, IsMessage
    <3>2. \A i \in j.first..j.last : context[i].id \in DOMAIN summaries
      BY <2>1, <3>1 DEF IInv, ReferencesValid
    <3>3. summaries'[k].depth # 0
      <4>1. j.first \in j.first..j.last
        BY ChunkFacts
      <4>2. j.depth = summaries[context[j.first].id].depth
        BY <3>1, <4>1 DEF AtDepth
      <4>3. j.depth \in Nat
        BY <3>2, <4>1, <4>2 DEF IInv, SummariesValid
      <4> QED BY <2>4, <2>7, <4>3
    <3>4. ASSUME NEW x \in DOMAIN src, NEW y \in DOMAIN src, x < y
          PROVE  summaries'[src[x]].latest < summaries'[src[y]].earliest
      <4>1. PICK a, b \in j.first..j.last :
               a < b /\ src[x] = context[a].id /\ src[y] = context[b].id
        BY <2>5, <3>4
      <4>2. Latest(context[a]) < Earliest(context[b])
        BY <2>1, <4>1
      <4>3. summaries[src[x]].latest < summaries[src[y]].earliest
        BY <3>1, <4>1, <4>2 DEF Earliest, Latest
      <4>4. src[x] \in DOMAIN summaries /\ src[y] \in DOMAIN summaries
        BY <3>2, <4>1
      <4> QED BY <1>1, <4>3, <4>4
    <3> QED BY <2>4, <3>3, <3>4 DEF LinksInOrder
  <2> QED BY <2>6, <2>7
<1>4. \A s \in 1..k : s \in DOMAIN summaries \/ s = k
  BY <1>1
<1> QED BY <1>1, <1>2, <1>3, <1>4 DEF AllInOrder

\* Only a commit adds a row.
LEMMA OrderStep ==
    ASSUME OneDaemon, IInv, CountsInv, AllInOrder, [Next]_vars
    PROVE  AllInOrder'
<1>1. CASE UNCHANGED summaries
  BY <1>1, OrderStutter
<1>2. ASSUME NEW d \in Daemons, Commit(d)
      PROVE  AllInOrder'
  <2>1. FreshChunk(job[d])
    BY <1>2 DEF IInv, ChunkFresh, Busy, Commit
  <2>2. PICK earliest, latest \in DOMAIN messages :
           CommitOf(job[d], Len(summaries) + 1, draft[d], earliest, latest)
    BY <1>2 DEF Commit, CommitOf, insertSummary, replaceContextRangeWithSummary
  <2>3. PICK j, k, size : j = job[d] /\ k = Len(summaries) + 1 /\ size = draft[d]
    OBVIOUS
  <2>4. FreshChunk(j) /\ CommitOf(j, k, size, earliest, latest)
    BY <2>1, <2>2, <2>3
  <2> QED BY <2>4, OrderCommit
<1>3. UNCHANGED summaries \/ \E d \in Daemons : Commit(d)
  BY DEF Next, vars, storeVars, Ingest, appendTranscriptMessage, StartRun, Step,
         BeginSweep, Evaluate, SelectLeaf, NoLeafChunk, SelectCondensed,
         NoCondensedChunk, MeasureBefore, Summarize, MeasureAfter, PersistEvent,
         appendEventMessage, Finish, RunStops
<1> QED BY <1>1, <1>2, <1>3

-----------------------------------------------------------------------------
(* What a step does to the list.                                           *)

\* The transcript only grows, by a message whose id is larger than the others.
LEMMA TranscriptStep ==
    ASSUME IInv, [Next]_vars
    PROVE  \/ Transcript' = Transcript
           \/ \E new \in Nat : /\ Transcript' = Transcript \cup {new}
                               /\ \A m \in Transcript : m < new
<1>1. CASE UNCHANGED messages
  BY <1>1 DEF Transcript
<1>2. CASE appendEventMessage(EventTokens)
  <2> DEFINE row == [kind |-> "event", tokens |-> EventTokens]
  <2>1. messages' = Append(messages, row)
    BY <1>2 DEF appendEventMessage
  <2>2. /\ Len(messages) \in Nat /\ DOMAIN messages = 1..Len(messages)
        /\ DOMAIN messages' = 1..(Len(messages) + 1)
        /\ \A m \in DOMAIN messages : messages'[m] = messages[m]
        /\ messages'[Len(messages) + 1] = row
    BY <2>1, AppendRow DEF IInv, StoreShape
  <2> QED BY <2>2 DEF Transcript
<1>3. ASSUME NEW tokens \in MessageTokens, Ingest(tokens)
      PROVE  \E new \in Nat : /\ Transcript' = Transcript \cup {new}
                              /\ \A m \in Transcript : m < new
  <2> DEFINE row == [kind |-> "transcript", tokens |-> tokens]
  <2>1. messages' = Append(messages, row)
    BY <1>3 DEF Ingest, appendTranscriptMessage
  <2>2. /\ Len(messages) \in Nat /\ DOMAIN messages = 1..Len(messages)
        /\ DOMAIN messages' = 1..(Len(messages) + 1)
        /\ \A m \in DOMAIN messages : messages'[m] = messages[m]
        /\ messages'[Len(messages) + 1] = row
    BY <2>1, AppendRow DEF IInv, StoreShape
  <2>3. Transcript' = Transcript \cup {Len(messages) + 1}
    BY <2>2 DEF Transcript
  <2>4. \A m \in Transcript : m < Len(messages) + 1
    BY <2>2 DEF Transcript
  <2>5. Len(messages) + 1 \in Nat
    BY <2>2
  <2> QED BY <2>3, <2>4, <2>5
<1>4. \/ UNCHANGED messages
      \/ appendEventMessage(EventTokens)
      \/ \E tokens \in MessageTokens : Ingest(tokens)
  BY DEF Next, vars, storeVars, StartRun, Step, BeginSweep, Evaluate,
         SelectLeaf, NoLeafChunk, SelectCondensed, NoCondensedChunk,
         MeasureBefore, Summarize, Commit, insertSummary,
         replaceContextRangeWithSummary, MeasureAfter, PersistEvent, Finish,
         RunStops
<1> QED BY <1>1, <1>2, <1>3, <1>4

\* A list that has one more number, larger than the others, has it at its end.
LEMMA AscendingGrows ==
    ASSUME NEW q, NEW r, NEW S, NEW new \in Nat, Ascending(q, S),
           Ascending(r, S \cup {new}), \A m \in S : m < new
    PROVE  /\ Len(r) = Len(q) + 1
           /\ SubSeq(r, 1, Len(q)) = q
           /\ \A i \in DOMAIN q : q[i] < r[Len(r)]
<1>1. Ascending(q \o <<new>>, S \cup {new})
  BY AscendingOne, AscendingJoin
<1>2. r = q \o <<new>>
  BY <1>1, AscendingUnique
<1>3. /\ Len(q) \in Nat /\ DOMAIN q = 1..Len(q)
      /\ \A i \in 1..Len(q) : q[i] \in S
  BY AscendingParts
<1>4. q \in Seq(Nat)
  BY DEF Ascending
<1>5. Len(r) = Len(q) + 1 /\ r[Len(q) + 1] = new
  BY <1>2, <1>4
<1>6. SubSeq(r, 1, Len(q)) = q
  BY <1>2, <1>4
<1> QED BY <1>3, <1>5, <1>6

\* What is held of the conversation is its transcript, in order.
ContextIsTranscript == Ascending(ContextMessages, Transcript)

\* Two ascending lists of the transcript are one step of the history apart.
LEMMA HistoryStep ==
    ASSUME IInv, [Next]_vars, ContextIsTranscript, ContextIsTranscript'
    PROVE  [History!Extend]_ContextMessages
<1>1. CASE Transcript' = Transcript
  <2>1. PICK q, r, S : /\ q = ContextMessages /\ r = ContextMessages'
                       /\ S = Transcript
    OBVIOUS
  <2>2. Ascending(q, S) /\ Ascending(r, S)
    BY <1>1, <2>1 DEF ContextIsTranscript, Ascending
  <2>3. q = r
    BY <2>2, AscendingUnique
  <2> QED BY <2>1, <2>3
<1>2. ASSUME NEW new \in Nat, Transcript' = Transcript \cup {new},
             \A m \in Transcript : m < new
      PROVE  History!Extend
  <2>1. PICK q, r, S : /\ q = ContextMessages /\ r = ContextMessages'
                       /\ S = Transcript
    OBVIOUS
  <2>2. /\ Ascending(q, S) /\ Ascending(r, S \cup {new})
        /\ \A m \in S : m < new
    BY <1>2, <2>1 DEF ContextIsTranscript, Ascending
  <2>3. /\ Len(r) = Len(q) + 1
        /\ SubSeq(r, 1, Len(q)) = q
        /\ \A i \in DOMAIN q : q[i] < r[Len(r)]
    BY <2>2, AscendingGrows
  <2> QED BY <2>1, <2>3 DEF History!Extend
<1> QED BY <1>1, <1>2, TranscriptStep

\* With one daemon, compaction is lossless: expanding every context item down
\* the links that insertSummary stored gives the transcript messages in the
\* order they were appended, and replaceContextRangeWithSummary never changes
\* that list.
THEOREM LosslessAlways == OneDaemon => (Spec => Lossless)
<1> SUFFICES ASSUME OneDaemon PROVE Spec => Lossless
  OBVIOUS
<1> DEFINE Together == IInv /\ CountsInv /\ WellFormed /\ AllInOrder
<1>1. Init => Together
  <2>1. Init => CountsInv /\ AllInOrder
    BY DEF Init, StoreInit, CountsInv, AllInOrder
  <2> QED BY <2>1, InitInv, WellFormedInit
<1>2. Together /\ [Next]_vars => Together'
  BY NextInv, CountsStep, WellFormedStep, OrderStep
<1>3. Together => ContextIsTranscript
  BY ContextAscending DEF ContextIsTranscript
<1>4. Init => History!HistoryInit
  <2> SUFFICES ASSUME Init PROVE ContextMessages = <<>>
    BY DEF History!HistoryInit
  <2>1. Ascending(ContextMessages, Transcript)
    BY <1>1, ContextAscending
  <2>2. Transcript = {}
    BY DEF Init, StoreInit, Transcript
  <2> QED BY <2>1, <2>2, AscendingEmpty
<1>5. /\ Together /\ [Next]_vars
      /\ ContextIsTranscript /\ ContextIsTranscript'
      => [History!Extend]_ContextMessages
  BY HistoryStep
<1> QED
  BY <1>1, <1>2, <1>3, <1>4, <1>5, PTL
     DEF Spec, Lossless, History!HistorySpec
=============================================================================
