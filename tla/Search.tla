------------------------------- MODULE Search -------------------------------
(***************************************************************************)
(* Full-text candidates: which index answers a question, how rows of the   *)
(* documents become chunks, how hits of two history pools are merged, and  *)
(* how windows of a long chunk become an excerpt.                          *)
(***************************************************************************)
EXTENDS Sorting

Take(seq, n) == SubSeq(seq, 1, Min({n, Len(seq)}))
-----------------------------------------------------------------------------
(* fts_fallback_chunks.  A row is [doc, path, section, version, score];    *)
(* path is NoPath for text without a source.                               *)

NoPath == "none"

ChunkKey(row) == IF row.path = NoPath THEN <<row.doc>> ELSE <<row.path, row.section>>

\* Mutant: the first row of a section stays, however old.
NewestFirstMet(rows, i) == rows[i]

\* The row of the highest version takes the place of the first of its section.
Newest(rows, i) ==
    LET same == {j \in DOMAIN rows : ChunkKey(rows[j]) = ChunkKey(rows[i])}
        version == Max({rows[j].version : j \in same})
    IN  rows[Min({j \in same : rows[j].version = version})]

Deduplicated(rows) ==
    LET first == {i \in DOMAIN rows : \A j \in 1..(i - 1) : ChunkKey(rows[j]) # ChunkKey(rows[i])}
        order == Only([i \in DOMAIN rows |-> i], first)
    IN  [n \in DOMAIN order |-> Newest(rows, order[n])]

SourceKey(row) == IF row.path # NoPath THEN <<row.path>> ELSE <<NoPath, row.doc>>

\* One of each source in turn, sources in the order of their best row.
RoundRobin(rows, limit) ==
    IF limit = 0 \/ Len(rows) <= limit THEN Take(rows, limit)
    ELSE LET turn(i) == Cardinality({j \in 1..(i - 1) : SourceKey(rows[j]) = SourceKey(rows[i])})
             lead(i) == Min({j \in DOMAIN rows : SourceKey(rows[j]) = SourceKey(rows[i])})
             order == Sorted(DOMAIN rows, [i \in DOMAIN rows |-> <<turn(i), lead(i)>>])
         IN  Take([i \in DOMAIN rows |-> rows[order[i]]], limit)

Chunks(rows, limit) == RoundRobin(Deduplicated(rows), limit)

\* Which rows are fetched, best first: those of the trigram index for CJK text of three
\* or more, of LIKE for shorter, of the word index for the rest or when those find
\* nothing.  More than the limit, for many may be of one section or one source.
Fetched(question, sidecar, trigram, like, words, limit) ==
    LET cjk == CASE question = "cjk" /\ sidecar -> Take(trigram, 8 * limit)
                 [] question = "short_cjk" -> Take(like, 8 * limit)
                 [] OTHER -> <<>>
    IN  IF question = "blank" THEN <<>>
        ELSE IF cjk # <<>> THEN cjk
        ELSE Take(words, 16 * limit)

\* They are ranked by the terms they cover.
FallbackChunks(rows, limit) ==
    Chunks(SortedSeq(rows, [i \in DOMAIN rows |-> -rows[i].score]), limit)
-----------------------------------------------------------------------------
(* search_history.  A hit is [pool, rank, project, kind, error]; a lower   *)
(* rank is better, and each pool comes best first.                         *)

Best(hits, limit) == Take(SortedSeq(hits, [i \in DOMAIN hits |-> hits[i].rank]), limit)

\* Mutant: the events fill up what the messages leave.
MergedConcatenated(messages, evts, limit) == Take(messages \o evts, limit)

Merged(messages, evts, limit) == Best(messages \o evts, limit)

SearchHistory(messages, evts, kind, project, limit) ==
    LET inProject(h) == project = "all" \/ h.project = project
        ofKind(h) == CASE kind = "any" -> TRUE
                       [] kind = "tool_error" -> h.kind = "tool_result" /\ h.error
                       [] OTHER -> h.kind = kind
        said == IF kind # "any" THEN <<>> ELSE Only(messages, {h \in ToSet(messages) : inProject(h)})
        done == Only(evts, {h \in ToSet(evts) : inProject(h) /\ ofKind(h)})
    IN  Merged(Best(said, limit), Best(done, limit), limit)
-----------------------------------------------------------------------------
(* Excerpts.  A window is [from, to, terms].                               *)

Windows == 2

\* _merge_spans: a span that begins within the last one, or at its end, extends it.
AddSpan(merged, s) ==
    IF merged # <<>> /\ s[1] <= Last(merged)[2]
    THEN Append(Front(merged), <<Last(merged)[1], Max({Last(merged)[2], s[2]})>>)
    ELSE Append(merged, s)

MergeSpans(spans) ==
    FoldLeft(LAMBDA merged, s : AddSpan(merged, s), <<>>, Sorted(spans, [s \in spans |-> s]))

\* The most terms first, then the earliest.
ByTerms(windows) ==
    Sorted(windows, [w \in windows |-> <<-Cardinality(w.terms), w.from, w.to>>])

TermsOf(windows) == UNION {windows[i].terms : i \in DOMAIN windows}

\* _lexical_excerpt: a further window must bring a new term.
AddLexical(chosen, w) ==
    AppendIf(chosen, w, /\ Len(chosen) < Windows
                        /\ chosen = <<>> \/ ~(w.terms \subseteq TermsOf(chosen)))

LexicalWindows(windows) ==
    FoldLeft(LAMBDA chosen, w : AddLexical(chosen, w), <<>>, ByTerms(windows))

LexicalExcerpt(windows) ==
    MergeSpans({<<w.from, w.to>> : w \in ToSet(LexicalWindows(windows))})

Apart(v, w) == v.to <= w.from \/ w.to <= v.from

\* Mutant: windows are compared by where they begin.
CjkWindowsByStart(windows) ==
    FoldLeft(LAMBDA chosen, w :
               IF /\ Len(chosen) < Windows
                  /\ \A i \in DOMAIN chosen : w.from # chosen[i].from
               THEN Append(chosen, w) ELSE chosen,
             <<>>, ByTerms(windows))

\* _cjk_excerpt: a further window must lie apart, and bring a new term or half the
\* terms of the best.
AddCjk(chosen, w) ==
    AppendIf(chosen, w, /\ Len(chosen) < Windows
                        /\ \A i \in DOMAIN chosen : Apart(w, chosen[i])
                        /\ \/ chosen = <<>>
                           \/ ~(w.terms \subseteq TermsOf(chosen))
                           \/ 2 * Cardinality(w.terms) >= Cardinality(chosen[1].terms))

CjkWindows(windows) == FoldLeft(LAMBDA chosen, w : AddCjk(chosen, w), <<>>, ByTerms(windows))
=============================================================================
