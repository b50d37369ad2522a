------------------------------ MODULE Retrieval ------------------------------
(***************************************************************************)
(* Answering a question from the graph: breadth-first expansion from the   *)
(* seed entities, ranking of the relations met, and packing of relations,  *)
(* their evidence, source chunks and memories into a token budget.         *)
(*                                                                         *)
(* Texts are what they cost in tokens.  Scores are compared, never shown:  *)
(* they are naturals, scaled by what all candidates share.                 *)
(***************************************************************************)
EXTENDS Sorting

Power(a, n) == FoldLeft(LAMBDA power, i : a * power, 1, [i \in 1..n |-> i])

Spent(items) == FoldLeft(LAMBDA sum, x : sum + x.cost, 0, items)
-----------------------------------------------------------------------------
(* bfs_query_with_depths, one reading of the relations at a time.          *)

\* get_neighbors: the relations of status active, or any, with an end in the frontier.
Neighbors(relations, status, frontier, superseded) ==
    {r \in relations : /\ r.src \in frontier \/ r.tgt \in frontier
                       /\ status[r] = "active" \/ (superseded /\ status[r] = "superseded")}

Start(seeds) == [n |-> 0, depth |-> [e \in seeds |-> 0], frontier |-> seeds, collected |-> {}]

\* Mutant: an entity that is met again gets the depth of the later round.
ExpandDeepening(b, edges) ==
    LET met == (UNION {{r.src, r.tgt} : r \in edges}) \ b.frontier
    IN  [n |-> b.n + 1,
         depth |-> [e \in (DOMAIN b.depth) \cup met |-> IF e \in met THEN b.n + 1 ELSE b.depth[e]],
         frontier |-> met,
         collected |-> b.collected \cup edges]

\* The ends met for the first time are one hop further.
Expand(b, edges) ==
    LET new == (UNION {{r.src, r.tgt} : r \in edges}) \ DOMAIN b.depth
    IN  [n |-> b.n + 1,
         depth |-> [e \in (DOMAIN b.depth) \cup new |-> IF e \in new THEN b.n + 1 ELSE b.depth[e]],
         frontier |-> new,
         collected |-> b.collected \cup edges]

\* min(depth(subject), depth(object))
Hops(b, r) == Min({b.depth[r.src], b.depth[r.tgt]})
-----------------------------------------------------------------------------
(* scored_query.  A candidate has hops, the raw score of its best evidence *)
(* (0 when nothing matches), a similarity of 0..MaxSim and the newest date *)
(* of its evidence (0 for none).                                           *)

MaxSim == 2
Alpha == 6       \* of 10
HopDecay == 7    \* of 10

\* Mutant: the lower-is-better score of FTS5, not negated.
NormalizedInverted(scored, candidates, c) ==
    LET matched == {scored[d].raw : d \in candidates} \ {0}
    IN  IF matched = {} \/ scored[c].raw = 0 THEN 0 ELSE Max(matched) - scored[c].raw

\* Min-max over those that match, without the common denominator; 0 for all of
\* one score.
Normalized(scored, candidates, c) ==
    LET matched == {scored[d].raw : d \in candidates} \ {0}
    IN  IF matched = {} \/ scored[c].raw = 0 THEN 0 ELSE scored[c].raw - Min(matched)

Spread(scored, candidates) ==
    LET matched == {scored[d].raw : d \in candidates} \ {0}
    IN  IF Cardinality(matched) < 2 THEN 1 ELSE Max(matched) - Min(matched)

\* decay^hops * (alpha * sim + (1 - alpha) * bm25), times 10^(maxHops + 1),
\* MaxSim and the spread; alpha goes to bm25 without a query embedding.
Score(scored, candidates, c, maxHops, embedded) ==
    LET alpha == IF embedded THEN Alpha ELSE 0
    IN  Power(HopDecay, scored[c].hops) * Power(10, maxHops - scored[c].hops)
          * (alpha * scored[c].sim * Spread(scored, candidates)
               + (10 - alpha) * MaxSim * Normalized(scored, candidates, c))

\* Score first, then fewer hops, then the newer date; stable.
Rank(scored, maxHops, embedded) ==
    LET all == DOMAIN scored
    IN  Sorted(all, [c \in all |-> <<-Score(scored, all, c, maxHops, embedded), scored[c].hops,
                                    -scored[c].date, c>>])
-----------------------------------------------------------------------------
(* Packing.  Greedy: what does not fit is passed over, the rest goes on.   *)

Pack(budget, kept) == [left |-> budget, kept |-> kept]

\* An item is barred, does not fit or is taken.
PackItem(pack, x, barred) ==
    IF x \in barred \/ x.cost > pack.left THEN pack
    ELSE Pack(pack.left - x.cost, Append(pack.kept, x))

Greedy(pack, items, barred) == FoldLeft(LAMBDA p, x : PackItem(p, x, barred), pack, items)

\* A ranked relation: [id, cost, evidence], evidence a sequence of [doc, cost, tag]:
\* the content is charged (cost), the provenance line printed above it (tag) is not.
EvidenceOf(ranked, i, k) == IF i <= k THEN ranked[i].evidence ELSE <<>>

\* Evidence of those of the first k that were admitted, after all lines.
AddEvidence(pack, ranked, i, k, admitted) ==
    IF ranked[i] \in admitted THEN Greedy(pack, EvidenceOf(ranked, i, k), {}) ELSE pack

EvidencePass(ranked, lines, k) ==
    FoldLeftDomain(LAMBDA p, i : AddEvidence(p, ranked, i, k, ToSet(lines.kept)),
                   Pack(lines.left, <<>>), ranked)

Output(relations, evidence, chunks, left) ==
    [relations |-> relations, evidence |-> evidence, chunks |-> chunks, left |-> left]

\* compact_output
CompactOutput(ranked, budget, k) ==
    LET lines == Greedy(Pack(budget, <<>>), ranked, {})
        evidence == EvidencePass(ranked, lines, k)
    IN  Output(lines.kept, evidence.kept, <<>>, evidence.left)

\* fts_fallback_output: a chunk costs its tag and its content.
FallbackOutput(chunks, budget) ==
    LET fit == Greedy(Pack(budget, <<>>), chunks, {})
    IN  Output(<<>>, <<>>, fit.kept, fit.left)

ShareOf(budget, percent) == (budget * percent) \div 100

\* Evidence follows its relation at once in the first pass of fused_output.
AddRelation(b, ranked, i, k) ==
    IF ranked[i].cost > b.left THEN b
    ELSE LET evidence == Greedy(Pack(b.left - ranked[i].cost, b.evidence), EvidenceOf(ranked, i, k), {})
         IN  Output(Append(b.relations, ranked[i]), evidence.kept, <<>>, evidence.left)

FirstPass(ranked, allowance, k) ==
    FoldLeftDomain(LAMBDA b, i : AddRelation(b, ranked, i, k), Output(<<>>, <<>>, <<>>, allowance), ranked)

DocsOf(evidence) == {evidence[i].doc : i \in DOMAIN evidence}

\* Chunks of a document that is shown as evidence.
Repeated(chunks, evidence) == {c \in ToSet(chunks) : c.doc \in DocsOf(evidence)}

\* Mutant: chunks get what the relations leave, and nothing of their own.
FusedOutputUnreserved(ranked, chunks, budget, percent, k) ==
    LET first == FirstPass(ranked, budget, k)
        second == Greedy(Pack(first.left, <<>>), chunks, Repeated(chunks, first.evidence))
        third == Greedy(Pack(second.left, first.relations), ranked, ToSet(first.relations))
    IN  Output(third.kept, first.evidence, second.kept, third.left)

\* fused_output: relations with evidence from their share, chunks from theirs and
\* what was left, relations again from the rest.
FusedOutput(ranked, chunks, budget, percent, k) ==
    LET reserve == ShareOf(budget, percent)
        first == FirstPass(ranked, budget - reserve, k)
        second == Greedy(Pack(reserve + first.left, <<>>), chunks, Repeated(chunks, first.evidence))
        third == Greedy(Pack(second.left, first.relations), ranked, ToSet(first.relations))
    IN  Output(third.kept, first.evidence, second.kept, third.left)
-----------------------------------------------------------------------------
(* compact_query and _compact_query_with_memory.                           *)

CompactQuery(mode, ranked, chunks, budget, percent, k) ==
    CASE mode = "merge" -> FusedOutput(ranked, chunks, budget, percent, k)
      [] mode = "fallback" /\ ranked # <<>> -> CompactOutput(ranked, budget, k)
      [] mode = "fallback" /\ ranked = <<>> -> FallbackOutput(chunks, budget)

\* search_memory_units_for_query: live units that match, by relevance, stored
\* score and recency together (weight), half as much again for a crystal.
MemoryHits(units, limit) ==
    LET live == {u \in units : /\ ~u.replaced
                               /\ u.status \in {"active_unit", "crystal_candidate", "crystal"}}
        crystal(u) == IF u.status = "crystal" THEN 1 ELSE 0
        ranked == Sorted(live, [u \in live |-> <<-((2 + crystal(u)) * u.weight), -crystal(u), u.id>>])
    IN  SubSeq(ranked, 1, Min({limit, Len(ranked)}))

\* The hits before the first that does not fit.
RenderMemoryHits(hits, budget) ==
    LET shown(n) == SubSeq(hits, 1, n)
        most == shown(Max({n \in 0..Len(hits) : Spent(shown(n)) <= budget}))
    IN  [hits |-> most, used |-> Spent(most)]

\* What the memories leave of their share goes to the graph.
QueryWithMemory(mode, ranked, chunks, hits, budget, percent, memoryPercent, k) ==
    LET memory == RenderMemoryHits(hits, ShareOf(budget, memoryPercent))
        semantic == budget - memory.used
        base == CompactQuery(mode, ranked, chunks, semantic, percent, k)
    IN  [memory |-> memory.hits, used |-> memory.used + (semantic - base.left), base |-> base]
-----------------------------------------------------------------------------
(* Reference definitions the operators above are checked against.          *)

\* A walk of n steps along some relations, from a seed to an entity.
Walk(relations, seeds, e, n) ==
    \E w \in [0..n -> seeds \cup UNION {{r.src, r.tgt} : r \in relations}] :
        /\ w[0] \in seeds /\ w[n] = e
        /\ \A i \in 1..n : \E r \in relations : {r.src, r.tgt} = {w[i - 1], w[i]}
=============================================================================
