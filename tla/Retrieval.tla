------------------------------ MODULE Retrieval ------------------------------
(***************************************************************************)
(* Reading summaries back: RetrievalEngine.expand on the links that        *)
(* compaction stores.  linkSummaryToParents(s, sources) writes one row     *)
(* [summary |-> s, parent |-> source, ordinal] per source.                 *)
(***************************************************************************)
EXTENDS MCCompaction

\* Table summary_parents.
SummaryParents ==
    UNION {{[summary |-> s, parent |-> summaries[s].sources[n], ordinal |-> n] :
                n \in DOMAIN summaries[s].sources} :
            s \in {t \in DOMAIN summaries : summaries[t].depth > 0}}

\* The summaries of the rows whose parent is s, by ordinal.
getSummaryChildren(s) ==
    LET found == {row \in SummaryParents : row.parent = s}
        sorted == SetToSortSeq(found, LAMBDA a, b : a.ordinal < b.ordinal)
    IN  [n \in DOMAIN sorted |-> sorted[n].summary]

EmptyResult == [children |-> <<>>, found |-> <<>>, tokens |-> 0, truncated |-> FALSE]

\* List an entry in `field`, or mark the result truncated at the token cap.
List(result, field, id, tokens, cap) ==
    IF result.tokens + tokens > cap THEN [result EXCEPT !.truncated = TRUE]
    ELSE [result EXCEPT ![field] = Append(@, id), !.tokens = @ + tokens]

RECURSIVE expandRecursive(_, _, _, _, _)
expandRecursive(s, depth, includeMessages, cap, result) ==
    IF depth <= 0 THEN result
    ELSE IF summaries[s].depth > 0
    THEN FoldLeft(
           LAMBDA res, child :
             IF res.truncated THEN res
             ELSE LET listed == List(res, "children", child, summaries[child].tokens, cap)
                  IN  IF listed.truncated THEN listed
                      ELSE expandRecursive(child, depth - 1, includeMessages, cap, listed),
           result, getSummaryChildren(s))
    ELSE IF includeMessages
    THEN FoldLeft(
           LAMBDA res, m : IF res.truncated THEN res
                           ELSE List(res, "found", m, messages[m].tokens, cap),
           result, summaries[s].sources)
    ELSE result

expand(s, depth, includeMessages, cap) ==
    expandRecursive(s, depth, includeMessages, cap, EmptyResult)

-----------------------------------------------------------------------------
\* retrieval.ts on expand: "Condensed summaries: returns child summaries,
\* recursing up to `depth`."  docs/agent-tools.md: "`lcm_expand` walks the
\* summary DAG downward: for a condensed node it returns that node's child
\* summaries as snippets [...]".  With room for all, the children of a condensed
\* summary are the summaries it was built from.
ExpandListsSources ==
    \A s \in DOMAIN summaries : summaries[s].depth > 0 =>
        LET room == MapThenSumSet(LAMBDA t : summaries[t].tokens, DOMAIN summaries)
        IN  expand(s, 1, FALSE, room).children = summaries[s].sources
=============================================================================
