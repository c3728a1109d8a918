----------------------------- MODULE Compaction -----------------------------
(***************************************************************************)
(* The compaction engine at work on one conversation.  Each daemon runs at *)
(* most one compaction of a session at a time (the compactingNow guard of  *)
(* the /compact route); transcript ingestion is not under that guard and   *)
(* appends to the context whenever the engine waits.                       *)
(*                                                                         *)
(* A run is cut into actions where the code awaits: between two actions of *)
(* a run anything else may happen.  What a pass read before the call to    *)
(* the model -- the chunk and its ordinals -- is used after it.            *)
(*                                                                         *)
(* A cancelled invocation, an error of the summarizer or of the store, and *)
(* a crash of the daemon all end a run where it stands and change nothing  *)
(* that is stored: RunStops.  A write whose commit permit was granted      *)
(* completes even when the run is cancelled meanwhile; here that is the    *)
(* write followed by RunStops.                                             *)
(***************************************************************************)
EXTENDS ContextStore

CONSTANTS
    Daemons,                 \* daemon processes that share the store
    Requests,                \* requests: [mode, force, hard]
    MessageTokens,           \* token counts a transcript message can have
    ReplyTokens,             \* token counts a reply of the model can have
    HeaderTokens,            \* tokens of the timestamp before each source
    FallbackMaxTokens,       \* FALLBACK_MAX_CHARS, in tokens
    FallbackSuffixTokens,    \* tokens of the "[Truncated from ...]" line
    EventTokens,             \* tokens of a compaction event's text
    FreshTailCount, LeafChunkTokens, LeafMinFanout, CondensedMinFanout,
    CondensedMinFanoutHard, CondensedTargetTokens, IncrementalMaxDepth,
    ThresholdTokens,         \* floor(contextThreshold * tokenBudget)
    TargetTokens, MaxRounds, \* of compactUntilUnder
    MaxTranscript,           \* bound: transcript messages ingested
    MaxRuns                  \* bound: compactions started

ASSUME ConfigAssumption ==
    /\ MessageTokens \subseteq Nat /\ ReplyTokens \subseteq Nat
    /\ HeaderTokens \in Nat /\ EventTokens \in Nat
    /\ FallbackMaxTokens \in Nat /\ FallbackSuffixTokens \in Nat
    /\ FreshTailCount \in Nat /\ LeafChunkTokens \in Nat \ {0}
    /\ CondensedTargetTokens \in Nat /\ IncrementalMaxDepth \in Nat
    /\ {LeafMinFanout, CondensedMinFanout, CondensedMinFanoutHard}
         \subseteq Nat \ {0}
    /\ Requests \subseteq [mode : {"sweep", "incremental", "until"},
                           force : BOOLEAN, hard : BOOLEAN]
    /\ \A req \in Requests : /\ req.mode = "until" => req.force
                             /\ req.hard => req.mode = "sweep"

VARIABLES
    pc,    \* where the run of each daemon is; "idle" is no run
    run,   \* the run's request and the token counts it compares
    job,   \* the pass being made: the chunk that was selected for it
    draft, \* the token count of the summary written for it
    runs   \* compactions started so far

vars == <<messages, context, summaries, pc, run, job, draft, runs>>

NoRun == [req |-> [mode |-> "sweep", force |-> FALSE, hard |-> FALSE],
          previous |-> 0, before |-> 0, after |-> 0,
          acted |-> FALSE, depth |-> 0, round |-> 0, last |-> 0]
NoJob == [kind |-> "none", first |-> 1, last |-> 0, items |-> <<>>,
          depth |-> 0]

Init ==
    /\ StoreInit
    /\ pc = [d \in Daemons |-> "idle"]
    /\ run = [d \in Daemons |-> NoRun]
    /\ job = [d \in Daemons |-> NoJob]
    /\ draft = [d \in Daemons |-> 0]
    /\ runs = 0

-----------------------------------------------------------------------------
(* Selection of the chunk of a pass.                                       *)

RawAfter(i) == {j \in DOMAIN context : j > i /\ IsMessage(context[j])}

\* Fault: the fresh tail is one message short.
OutsideShorterTail(i) ==
    \/ Cardinality(RawAfter(i)) >= FreshTailCount - 1
    \/ RawAfter(i) = RawAfter(0)

\* Position i lies before the fresh tail: the last FreshTailCount raw
\* messages of the context, or all of them when there are fewer.
OutsideFreshTail(i) ==
    \/ Cardinality(RawAfter(i)) >= FreshTailCount
    \/ RawAfter(i) = RawAfter(0)

RawTokensOutsideFreshTail ==
    MapThenSumSet(LAMBDA i : ItemTokens(context[i]),
                  {i \in RawAfter(0) : OutsideFreshTail(i)})

\* first..last is the oldest run of eligible positions before the fresh tail,
\* cut so that it holds at most LeafChunkTokens, or a single larger item.
IsOldestChunk(Eligible(_), first, last) ==
    LET Open(i) == i \in DOMAIN context /\ OutsideFreshTail(i) /\ Eligible(i)
    IN  /\ first <= last
        /\ \A i \in 1..last : Open(i) <=> i >= first
        /\ \A i \in first..(last - 1) :
              /\ RangeTokens(first, i) < LeafChunkTokens
              /\ RangeTokens(first, i + 1) <= LeafChunkTokens
        /\ Open(last + 1) /\ RangeTokens(first, last) < LeafChunkTokens
              => RangeTokens(first, last + 1) > LeafChunkTokens

selectOldestLeafChunk(first, last) ==
    IsOldestChunk(LAMBDA i : IsMessage(context[i]), first, last)

AtDepth(i, depth) ==
    IsSummary(context[i]) /\ summaries[context[i].id].depth = depth

selectOldestChunkAtDepth(depth, first, last) ==
    IsOldestChunk(LAMBDA i : AtDepth(i, depth), first, last)

resolveFanoutForDepth(depth, hard) ==
    IF hard THEN CondensedMinFanoutHard
    ELSE IF depth = 0 THEN LeafMinFanout
    ELSE CondensedMinFanout

resolveCondensedMinChunkTokens ==
    IF CondensedTargetTokens >= LeafChunkTokens \div 10
      THEN CondensedTargetTokens ELSE LeafChunkTokens \div 10

\* The chunk at `depth` is long and large enough for a condensed pass.
IsCandidate(depth, hard, first, last) ==
    /\ selectOldestChunkAtDepth(depth, first, last)
    /\ last - first + 1 >= resolveFanoutForDepth(depth, hard)
    /\ RangeTokens(first, last) >= resolveCondensedMinChunkTokens

HasCandidate(depth, hard) ==
    \E first, last \in DOMAIN context : IsCandidate(depth, hard, first, last)

DepthsOutsideFreshTail ==
    {summaries[context[i].id].depth :
        i \in {j \in DOMAIN context :
                  OutsideFreshTail(j) /\ IsSummary(context[j])}}

IsShallowestCandidate(depth, hard, first, last) ==
    /\ depth \in DepthsOutsideFreshTail
    /\ IsCandidate(depth, hard, first, last)
    /\ \A other \in DepthsOutsideFreshTail :
          other < depth => ~HasCandidate(other, hard)

Chunk(kind, depth, first, last) ==
    [kind |-> kind, first |-> first, last |-> last,
     items |-> [i \in first..last |-> context[i]],
     depth |-> depth]

-----------------------------------------------------------------------------
(* Summarization.                                                          *)

\* Tokens of the text given to the model: each source and its timestamp.
InputTokens(j) ==
    MapThenSumSet(LAMBDA i : ItemTokens(j.items[i]) + HeaderTokens,
                  j.first..j.last)

FallbackTokens(input) ==
    (IF input > FallbackMaxTokens THEN FallbackMaxTokens ELSE input)
        + FallbackSuffixTokens

\* A normal or an aggressive reply is taken if it is smaller than its input;
\* when neither is, the truncated input is.
SummarySizes(input) ==
    {t \in ReplyTokens : t < input} \cup {FallbackTokens(input)}

\* Fault: the first source is not linked.
SourcesButFirst(j) == [n \in 1..(j.last - j.first) |-> j.items[j.first + n].id]

Sources(j) == [n \in 1..(j.last - j.first + 1) |-> j.items[j.first + n - 1].id]

\* earliest and latest are the ends of what the chunk's items stand for.
Spans(j, earliest, latest) ==
    /\ \E i \in j.first..j.last : earliest = Earliest(j.items[i])
    /\ \E i \in j.first..j.last : latest = Latest(j.items[i])
    /\ \A i \in j.first..j.last :
          /\ earliest <= Earliest(j.items[i])
          /\ Latest(j.items[i]) <= latest

\* Fault: the sources themselves are not counted.
DescendantCountBelow(j) ==
    IF j.kind = "leaf" THEN 0
    ELSE MapThenSumSet(LAMBDA i : summaries[j.items[i].id].descendantCount,
                       j.first..j.last)

DescendantCount(j) ==
    IF j.kind = "leaf" THEN 0
    ELSE MapThenSumSet(
            LAMBDA i : summaries[j.items[i].id].descendantCount + 1,
            j.first..j.last)

SourceTokens(j) ==
    MapThenSumSet(
        LAMBDA i : IF IsMessage(j.items[i])
                     THEN messages[j.items[i].id].tokens
                     ELSE summaries[j.items[i].id].sourceTokens,
        j.first..j.last)

\* Fault: the depth of a condensed summary goes down instead of up.
NewSummaryDepthDown(j, size, earliest, latest) ==
    [depth |-> IF j.kind = "leaf" THEN 0 ELSE j.depth - 1,
     sources |-> Sources(j), tokens |-> size,
     earliest |-> earliest, latest |-> latest,
     descendantCount |-> DescendantCount(j), sourceTokens |-> SourceTokens(j)]

NewSummary(j, size, earliest, latest) ==
    [depth |-> IF j.kind = "leaf" THEN 0 ELSE j.depth + 1,
     sources |-> Sources(j), tokens |-> size,
     earliest |-> earliest, latest |-> latest,
     descendantCount |-> DescendantCount(j), sourceTokens |-> SourceTokens(j)]

-----------------------------------------------------------------------------
(* The steps of a run.                                                     *)

Goto(d, label) == pc' = [pc EXCEPT ![d] = label]

EndRun(d) ==
    /\ Goto(d, "idle")
    /\ run' = [run EXCEPT ![d] = NoRun]
    /\ job' = [job EXCEPT ![d] = NoJob]
    /\ draft' = [draft EXCEPT ![d] = 0]

\* /compact: refused while this daemon already compacts the session.
\* compactUntilUnder returns at once when the context is below its target.
StartRun(d, req) ==
    /\ pc[d] = "idle"
    /\ runs < MaxRuns
    /\ req.mode = "until" => getContextTokenCount >= TargetTokens
    /\ runs' = runs + 1
    /\ Goto(d, "begin")
    /\ run' = [run EXCEPT ![d] = [NoRun EXCEPT !.req = req, !.round = 1,
                 !.last = IF req.mode = "until" THEN getContextTokenCount
                                                ELSE 0]]
    /\ UNCHANGED <<storeVars, job, draft>>

\* tokensBefore of a sweep or of an incremental compaction.
BeginSweep(d) ==
    /\ pc[d] = "begin"
    /\ Goto(d, "evaluate")
    /\ run' = [run EXCEPT ![d].previous = getContextTokenCount,
                          ![d].acted = FALSE]
    /\ UNCHANGED <<storeVars, job, draft, runs>>

\* Nothing to do: neither forced nor over a threshold, or an empty context.
NotNeeded(d) ==
    \/ /\ ~run[d].req.force
       /\ run[d].previous <= ThresholdTokens
       /\ RawTokensOutsideFreshTail < LeafChunkTokens
    \/ context = <<>>

Evaluate(d) ==
    /\ pc[d] = "evaluate"
    /\ \/ /\ NotNeeded(d)
          /\ EndRun(d)
       \/ /\ ~NotNeeded(d)
          /\ Goto(d, "selectLeaf")
          /\ UNCHANGED <<run, job, draft>>
    /\ UNCHANGED <<storeVars, runs>>

SelectLeaf(d) ==
    /\ pc[d] = "selectLeaf"
    /\ \E first, last \in DOMAIN context :
          /\ selectOldestLeafChunk(first, last)
          /\ job' = [job EXCEPT ![d] = Chunk("leaf", 0, first, last)]
    /\ Goto(d, IF run[d].req.mode = "incremental" THEN "summarize" ELSE "before")
    /\ UNCHANGED <<storeVars, run, draft, runs>>

\* No raw message before the fresh tail: a sweep goes on to its second phase,
\* an incremental compaction is over.
NoLeafChunk(d) ==
    /\ pc[d] = "selectLeaf"
    /\ ~\E first, last \in DOMAIN context : selectOldestLeafChunk(first, last)
    /\ IF run[d].req.mode = "incremental"
         THEN EndRun(d)
         ELSE Goto(d, "selectCondensed") /\ UNCHANGED <<run, job, draft>>
    /\ UNCHANGED <<storeVars, runs>>

\* A sweep takes the shallowest depth that has a candidate, an incremental
\* compaction only the depth it has come to.
IsCondensedChoice(d, depth, first, last) ==
    IF run[d].req.mode = "incremental"
      THEN depth = run[d].depth /\ IsCandidate(depth, FALSE, first, last)
      ELSE IsShallowestCandidate(depth, run[d].req.hard, first, last)

SelectCondensed(d) ==
    /\ pc[d] = "selectCondensed"
    /\ \E depth \in DepthsOutsideFreshTail, first, last \in DOMAIN context :
          /\ IsCondensedChoice(d, depth, first, last)
          /\ job' = [job EXCEPT ![d] = Chunk("condensed", depth, first, last)]
    /\ Goto(d, "before")
    /\ UNCHANGED <<storeVars, run, draft, runs>>

NoCondensedChunk(d) ==
    /\ pc[d] = "selectCondensed"
    /\ ~\E depth \in DepthsOutsideFreshTail, first, last \in DOMAIN context :
            IsCondensedChoice(d, depth, first, last)
    /\ Goto(d, "finish")
    /\ UNCHANGED <<storeVars, run, job, draft, runs>>

\* passTokensBefore
MeasureBefore(d) ==
    /\ pc[d] = "before"
    /\ Goto(d, "summarize")
    /\ run' = [run EXCEPT ![d].before = getContextTokenCount]
    /\ UNCHANGED <<storeVars, job, draft, runs>>

Summarize(d) ==
    /\ pc[d] = "summarize"
    /\ \E size \in SummarySizes(InputTokens(job[d])) :
          draft' = [draft EXCEPT ![d] = size]
    /\ Goto(d, "commit")
    /\ UNCHANGED <<storeVars, run, job, runs>>

\* One transaction: the summary, its links and the context change.
Commit(d) ==
    /\ pc[d] = "commit"
    /\ \E earliest, latest \in DOMAIN messages :
          /\ Spans(job[d], earliest, latest)
          /\ insertSummary(NewSummary(job[d], draft[d], earliest, latest))
    /\ replaceContextRangeWithSummary(job[d].first, job[d].last,
                                      Len(summaries) + 1)
    /\ Goto(d, "after")
    /\ UNCHANGED <<messages, run, job, draft, runs>>

\* passTokensAfter
MeasureAfter(d) ==
    /\ pc[d] = "after"
    /\ Goto(d, "event")
    /\ run' = [run EXCEPT ![d].after = getContextTokenCount]
    /\ UNCHANGED <<storeVars, job, draft, runs>>

\* The pass saved tokens, against its own start and against the last pass.
Progress(r) == r.after < r.before /\ r.after < r.previous

\* Where the run goes after a pass.
AfterPass(kind, r) ==
    IF r.req.mode = "incremental"
    THEN IF kind = "leaf"
         THEN IF IncrementalMaxDepth > 0 THEN "selectCondensed" ELSE "finish"
         ELSE IF r.after < r.before /\ r.depth + 1 < IncrementalMaxDepth
              THEN "selectCondensed" ELSE "finish"
    ELSE IF kind = "leaf"
         THEN IF Progress(r) THEN "selectLeaf" ELSE "selectCondensed"
         ELSE IF Progress(r) THEN "selectCondensed" ELSE "finish"

RunAfterPass(kind, r) ==
    [r EXCEPT !.acted = TRUE, !.before = 0, !.after = 0,
              !.previous = IF Progress(r) THEN r.after ELSE @,
              !.depth = IF r.req.mode = "incremental" /\ kind = "condensed"
                          THEN @ + 1 ELSE @]

\* The pass is recorded in the history, or fails to be, and the loop goes on.
PersistEvent(d) ==
    /\ pc[d] = "event"
    /\ appendEventMessage(EventTokens) \/ UNCHANGED storeVars
    /\ Goto(d, AfterPass(job[d].kind, run[d]))
    /\ run' = [run EXCEPT ![d] = RunAfterPass(job[d].kind, @)]
    /\ job' = [job EXCEPT ![d] = NoJob]
    /\ draft' = [draft EXCEPT ![d] = 0]
    /\ UNCHANGED runs

\* compactUntilUnder sweeps again while it is over the target, the sweep
\* helped and rounds are left.
SweepAgain(r, tokensAfter) ==
    /\ r.req.mode = "until"
    /\ tokensAfter > TargetTokens
    /\ r.acted /\ tokensAfter < r.last
    /\ r.round < MaxRounds

\* Fault: compactUntilUnder counts no rounds and asks for no progress.
FinishUncounted(d) ==
    /\ pc[d] = "finish"
    /\ IF run[d].req.mode = "until" /\ getContextTokenCount > TargetTokens
         THEN Goto(d, "begin") /\ UNCHANGED <<run, job, draft>>
         ELSE EndRun(d)
    /\ UNCHANGED <<storeVars, runs>>

Finish(d) ==
    /\ pc[d] = "finish"
    /\ IF SweepAgain(run[d], getContextTokenCount)
         THEN /\ Goto(d, "begin")
              /\ run' = [run EXCEPT ![d].round = @ + 1,
                                    ![d].last = getContextTokenCount]
              /\ UNCHANGED <<job, draft>>
         ELSE EndRun(d)
    /\ UNCHANGED <<storeVars, runs>>

RunStops(d) ==
    /\ pc[d] # "idle"
    /\ EndRun(d)
    /\ UNCHANGED <<storeVars, runs>>

\* /ingest, or the transcript read at the start of /compact.
Ingest(tokens) ==
    /\ Cardinality(Transcript) < MaxTranscript
    /\ appendTranscriptMessage(tokens)
    /\ UNCHANGED <<pc, run, job, draft, runs>>

Step(d) ==
    \/ BeginSweep(d) \/ Evaluate(d)
    \/ SelectLeaf(d) \/ NoLeafChunk(d)
    \/ SelectCondensed(d) \/ NoCondensedChunk(d)
    \/ MeasureBefore(d) \/ Summarize(d) \/ Commit(d)
    \/ MeasureAfter(d) \/ PersistEvent(d) \/ Finish(d)

Next ==
    \/ \E tokens \in MessageTokens : Ingest(tokens)
    \/ \E d \in Daemons, req \in Requests : StartRun(d, req)
    \/ \E d \in Daemons : Step(d)
    \/ \E d \in Daemons : RunStops(d)

Spec == Init /\ [][Next]_vars

\* A run takes its next step eventually: the daemon's event loop resumes it,
\* and every call to a model ends, by reply, error or timeout.
FairSpec == Spec /\ \A d \in Daemons : WF_vars(Step(d))

-----------------------------------------------------------------------------
(* Properties.                                                             *)

Busy(d) == pc[d] \in {"before", "summarize", "commit"}

\* Type correctness of the store and of the engine's own state.
TypeOK ==
    /\ StoreTypeOK
    /\ pc \in [Daemons -> {"idle", "begin", "evaluate", "selectLeaf",
                           "selectCondensed", "before", "summarize", "commit",
                           "after", "event", "finish"}]
    /\ runs \in Nat
    /\ \A d \in Daemons :
          /\ run[d].req \in Requests \cup {NoRun.req}
          /\ \A n \in {"previous", "before", "after", "depth", "round", "last"} :
                run[d][n] \in Nat
          /\ job[d].kind \in {"none", "leaf", "condensed"}
          /\ job[d].depth \in Nat /\ draft[d] \in Nat
          /\ Busy(d) => job[d].items \in [job[d].first..job[d].last -> ContextItem]

\* The chunk's ordinals still name the items that were read, and these are
\* of the kind that was looked for.
FreshChunk(j) ==
    /\ j.kind \in {"leaf", "condensed"}
    /\ {j.first, j.last} \subseteq DOMAIN context /\ j.first <= j.last
    /\ j.items = [i \in j.first..j.last |-> context[i]]
    /\ \A i \in j.first..j.last :
          IF j.kind = "leaf" THEN IsMessage(context[i]) ELSE AtDepth(i, j.depth)

\* What a pass selected is still what its ordinals name when it commits: the
\* context may have grown behind the chunk while the model was answering, but
\* nothing at or before it has moved.  (selectOldestLeafChunk and
\* selectOldestChunkAtDepth against replaceContextRangeWithSummary.)
ChunkFresh == \A d \in Daemons : Busy(d) => FreshChunk(job[d])

\* The context list stands for the whole transcript, once and in order,
\* however passes and ingestion interleave: the items' message spans do not
\* overlap, increase along the list, and leave no transcript message out.
\* (leafPass, condensedPass, replaceContextRangeWithSummary.)
ContextTiles ==
    /\ \A i, j \in DOMAIN context :
          i < j => Latest(context[i]) < Earliest(context[j])
    /\ \A m \in Transcript : \E i \in DOMAIN context :
          Earliest(context[i]) <= m /\ m <= Latest(context[i])

\* The transcript messages of a summary's time range.
InSpan(s) ==
    {m \in Transcript : summaries[s].earliest <= m /\ m <= summaries[s].latest}

SourceIds(s) == {summaries[s].sources[n] : n \in DOMAIN summaries[s].sources}

LeafLineage(s) == SourceIds(s) = InSpan(s)

CondensedLineage(s) ==
    /\ \A t \in SourceIds(s) :
          t \in 1..(s - 1) /\ summaries[t].depth = summaries[s].depth - 1
    /\ InSpan(s) \subseteq UNION {InSpan(t) : t \in SourceIds(s)}

\* No summary hides a message: a leaf's links name every transcript message
\* of its time range and nothing else, and the sources of a condensed summary
\* are one level below it and account for all of its range.
\* (linkSummaryToMessages, linkSummaryToParents, earliestAt, latestAt.)
LineageTiles ==
    \A s \in DOMAIN summaries :
        IF summaries[s].depth = 0 THEN LeafLineage(s) ELSE CondensedLineage(s)

\* A stored summary is never orphaned or used twice: it is in the context
\* list at one place, or it is a source of one other summary, whatever run
\* was stopped before or between its transactions.
SummariesReferenced ==
    \A s \in DOMAIN summaries :
        Cardinality({i \in DOMAIN context : context[i] = SummaryItem(s)})
        + Cardinality({t \in DOMAIN summaries :
              summaries[t].depth > 0 /\ s \in SourceIds(t)}) = 1

TailKept ==
    \A i \in DOMAIN context :
        (IsMessage(context[i]) /\ Cardinality(RawAfter(i)) < FreshTailCount)
           => \E n \in DOMAIN context' : context'[n] = context[i]

\* The last FreshTailCount raw messages of the context stay raw: a commit
\* never folds one into a summary, though the tail it was computed from is
\* older than the list it is applied to.
FreshTailProtected == [][TailKept]_vars

\* The summaries that a summary was built from, directly or not.
Ancestors(s) ==
    LET anc[t \in DOMAIN summaries] ==
          IF summaries[t].depth = 0 THEN {}
          ELSE SourceIds(t) \cup UNION {anc[u] : u \in SourceIds(t)}
    IN  anc[s]

\* descendantCount is the number of distinct summaries below a summary, and
\* sourceMessageTokenCount the tokens of the messages of its range: neither
\* counts anything twice.
CountsExact ==
    \A s \in DOMAIN summaries :
        LET sum == summaries[s]
        IN  /\ sum.descendantCount = Cardinality(Ancestors(s))
            /\ sum.sourceTokens =
                  MapThenSumSet(LAMBDA m : messages[m].tokens, InSpan(s))

\* Every run ends: no sequence of passes, of rounds or of interleaved appends
\* keeps a sweep going.
RunEnds == \A d \in Daemons : pc[d] # "idle" ~> pc[d] = "idle"

\* docs/architecture.md on the three-level escalation: "This ensures
\* compaction always makes progress, even if the LLM produces poor output."
PassSavesTokens ==
    [][\A d \in Daemons : Commit(d) => getContextTokenCount' < getContextTokenCount]_vars
=============================================================================
