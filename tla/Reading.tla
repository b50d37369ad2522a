-------------------------------- MODULE Reading --------------------------------
(***************************************************************************)
(* What the program computes from what it has read: the traversal of the   *)
(* graph while an ingestion writes it, the ranking and the budget of an    *)
(* answer, full-text candidates and excerpts, the chunks of a document,    *)
(* workflow groups, the triage gate and the embedding cache.               *)
(*                                                                         *)
(* A behaviour is about one subject.  One action stands for each           *)
(* operation; all but the traversal and the cache are pure, and are asked  *)
(* once with each of the inputs the constants list.                        *)
(***************************************************************************)
EXTENDS Retrieval, Search, Chunking, Distill, TriageGate, EmbeddingCache

CONSTANTS Relations, SeedSets, MaxHops,   \* traversal: relations [id, src, tgt]
          Scoreds,                        \* sequences of candidates to rank
          Rankeds, ChunkLists, UnitSets,  \* what an answer is packed from
          Budgets, ChunkPercents, MemoryPercent, TopK,
          RowLists, ChunkLimit,           \* rows of the full-text indexes
          MessageLists, EventLists, HistoryLimit,
          WindowSets,                     \* excerpt windows
          Documents, TokenLimits,         \* documents to chunk
          DistillUnits, Assets,
          Texts, CacheSize, BatchSize     \* sequences of texts to embed

\* A traversal collects what is within its hops; the scores and the dates compare.
ASSUME RanksAssumption ==
    /\ MaxHops \in Nat
    /\ \A scored \in Scoreds : scored \in Seq([hops : 0..MaxHops, raw : Nat, sim : Nat, date : Nat])

Once(seq) == \A i, j \in DOMAIN seq : i # j => seq[i] # seq[j]

\* Texts cost tokens.
Priced(seq) == seq \in Seq(ToSet(seq)) /\ \A x \in ToSet(seq) : x.cost \in Nat

\* Relations and chunks come once, units have ids, and shares are fractions
\* (RetrievalConfig: "fraction of the token budget").
ASSUME AnswersAssumption ==
    /\ \A ranked \in Rankeds : /\ Priced(ranked) /\ Once(ranked)
                              /\ \A x \in ToSet(ranked) : Priced(x.evidence)
    /\ \A chunks \in ChunkLists : Priced(chunks) /\ Once(chunks)
    /\ \A units \in UnitSets :
         /\ IsFiniteSet(units)
         /\ \A u \in units : u.id \in Nat /\ u.weight \in Nat /\ u.cost \in Nat
         /\ \A u, v \in units : u.id = v.id => u = v
    /\ Budgets \subseteq Nat /\ ChunkPercents \subseteq 0..100 /\ MemoryPercent \in 0..100

\* Rows have versions and scores, hits have ranks.
ASSUME SearchAssumption ==
    /\ ChunkLimit \in Nat /\ HistoryLimit \in Nat
    /\ \A rows \in RowLists : /\ rows \in Seq(ToSet(rows))
                             /\ \A row \in ToSet(rows) : row.version \in Nat /\ row.score \in Int
    /\ \A hits \in MessageLists \cup EventLists :
         hits \in Seq(ToSet(hits)) /\ \A h \in ToSet(hits) : h.rank \in Int

\* A window is a part of its text, and its terms are read there.
ASSUME WindowsAssumption ==
    \A windows \in WindowSets :
        /\ IsFiniteSet(windows)
        /\ \A w \in windows : /\ w.from \in Nat /\ w.to \in Nat /\ w.from <= w.to
                             /\ IsFiniteSet(w.terms)
        /\ \A v, w \in windows : v.from = w.from /\ v.to = w.to => v = w

\* Units are rows of one table, each with some sources.
ASSUME DistillAssumption ==
    \A units \in DistillUnits :
        /\ IsFiniteSet(units)
        /\ \A u \in units : u.id \in Nat /\ IsFiniteSet(u.sources)
        /\ \A u, v \in units : u.id = v.id => u = v

\* Lines have kinds and sizes; a limit of zero is none.
ASSUME DocumentsAssumption ==
    /\ \A doc \in Documents : doc \in Seq([kind : Kinds, size : Nat])
    /\ TokenLimits \subseteq Nat

\* max(cache_size, 0), max(batch_size, 1)
ASSUME CacheAssumption ==
    /\ CacheSize \in Nat /\ BatchSize \in Nat \ {0}
    /\ \A texts \in Texts : texts \in Seq(ToSet(texts))

VARIABLES subject,  \* what this behaviour is about
          status,   \* the relations of the graph: absent, active or superseded
          case,     \* the operation, its input and its result
          cache     \* the embedding cache

vars == <<subject, status, case, cache>>

Subjects == {"graph", "rank", "answer", "chunks", "history", "excerpt",
             "document", "distill", "triage", "embed"}

NoCase == [is |-> "none"]

Init == /\ subject \in Subjects
        /\ status = [r \in Relations |-> "absent"]
        /\ case = NoCase
        /\ cache = <<>>
-----------------------------------------------------------------------------
(* The traversal: one query per hop, each in a read of its own.  ever and  *)
(* stayed are history: the relations that could be seen at some moment     *)
(* since the query began, and at every moment.                             *)

Seen(st, superseded) == {r \in Relations : st[r] = "active" \/ (superseded /\ st[r] = "superseded")}

\* An ingestion adds a relation, or supersedes one.
WriteRelation ==
    /\ subject = "graph"
    /\ \E r \in Relations :
        /\ status[r] # "superseded"
        /\ status' = [status EXCEPT ![r] = IF @ = "absent" THEN "active" ELSE "superseded"]
    /\ case' = IF case = NoCase THEN case
               ELSE [case EXCEPT !.ever = @ \cup Seen(status', case.superseded),
                                 !.stayed = @ \cap Seen(status', case.superseded)]
    /\ UNCHANGED <<subject, cache>>

BeginQuery ==
    /\ subject = "graph" /\ case = NoCase
    /\ \E seeds \in SeedSets, superseded \in BOOLEAN :
         LET seen == Seen(status, superseded)
         IN  case' = [is |-> "trip", seeds |-> seeds, superseded |-> superseded, b |-> Start(seeds),
                      ever |-> seen, stayed |-> seen]
    /\ UNCHANGED <<subject, status, cache>>

Hop ==
    /\ subject = "graph" /\ case # NoCase
    /\ case.b.n < MaxHops /\ case.b.frontier # {}
    /\ case' = [case EXCEPT !.b = Expand(@, Neighbors(Relations, status, @.frontier, case.superseded))]
    /\ UNCHANGED <<subject, status, cache>>
-----------------------------------------------------------------------------
(* The pure operations.                                                    *)

Ready(s) == subject = s /\ case = NoCase /\ UNCHANGED <<subject, status, cache>>

ScoredQuery ==
    /\ Ready("rank")
    /\ \E scored \in Scoreds, embedded \in BOOLEAN :
         case' = [is |-> "rank", scored |-> scored, embedded |-> embedded,
                  order |-> Rank(scored, MaxHops, embedded)]

Query ==
    /\ Ready("answer")
    /\ \E mode \in {"merge", "fallback"}, ranked \in Rankeds, chunks \in ChunkLists, units \in UnitSets,
          budget \in Budgets, percent \in ChunkPercents :
         case' = [is |-> "answer", mode |-> mode, ranked |-> ranked, chunks |-> chunks,
                  hits |-> MemoryHits(units, 2), budget |-> budget, percent |-> percent,
                  out |-> QueryWithMemory(mode, ranked, chunks, MemoryHits(units, 2), budget,
                                         percent, MemoryPercent, TopK)]

FtsFallbackChunks ==
    /\ Ready("chunks")
    /\ \E question \in {"cjk", "short_cjk", "words", "blank"}, sidecar \in BOOLEAN, rows \in RowLists,
          trigram \in BOOLEAN :
         LET found == IF trigram THEN rows ELSE <<>>
             fetched == Fetched(question, sidecar, found, found, rows, ChunkLimit)
         IN  case' = [is |-> "chunks", rows |-> fetched, out |-> FallbackChunks(fetched, ChunkLimit)]

HistorySearch ==
    /\ Ready("history")
    /\ \E said \in MessageLists, evts \in EventLists, kind \in {"any", "tool_result", "tool_error"},
          project \in {"all", "p"} :
         case' = [is |-> "history", said |-> said, evts |-> evts, kind |-> kind, project |-> project,
                  out |-> SearchHistory(said, evts, kind, project, HistoryLimit)]

Excerpt ==
    /\ Ready("excerpt")
    /\ \E windows \in WindowSets :
         case' = [is |-> "excerpt", windows |-> windows,
                  lexical |-> LexicalExcerpt(windows), chosen |-> LexicalWindows(windows),
                  cjk |-> CjkWindows(windows)]

ChunkDocument ==
    /\ Ready("document")
    /\ \E doc \in Documents, limit \in TokenLimits :
         case' = [is |-> "document", doc |-> doc, limit |-> limit,
                  chunks |-> ChunkMarkdown(doc, limit)]

DistillReport ==
    /\ Ready("distill")
    /\ \E units \in DistillUnits :
         case' = [is |-> "distill", units |-> units, plan |-> DistillPlan(units, Assets)]

\* The role of an event is the name of its tool.
Roles(event) == IF event THEN {"tool"} ELSE {"user", "assistant"}

Triage ==
    /\ Ready("triage")
    /\ \E text \in SUBSET Keywords, manual, event, boilerplate \in BOOLEAN : \E role \in Roles(event) :
         LET item == [role |-> role, manual |-> manual, event |-> event, boilerplate |-> boilerplate]
         IN  case' = [is |-> "triage", text |-> text, item |-> item, out |-> TriageTrace(text, item)]

\* Calls follow one another: the cache stays.
EmbedTexts ==
    /\ subject = "embed"
    /\ \E texts \in Texts, failing \in 0..2 :
         LET call == EmbedMany(cache, texts, CacheSize, BatchSize, failing)
         IN  /\ cache' = call.cache
             /\ case' = [is |-> "embed", texts |-> texts, before |-> cache, error |-> call.error]
    /\ UNCHANGED <<subject, status>>

Next == \/ WriteRelation \/ BeginQuery \/ Hop
        \/ ScoredQuery \/ Query \/ FtsFallbackChunks \/ HistorySearch \/ Excerpt
        \/ ChunkDocument \/ DistillReport \/ Triage \/ EmbedTexts

Spec == Init /\ [][Next]_vars
-----------------------------------------------------------------------------
(* Retrieval.                                                              *)

\* Whatever an ingestion writes between two hops, a traversal reports only relations
\* that could be seen while it ran, and every depth is the length of a walk along them
\* (bfs_query_with_depths reads each hop on its own).
HopsSound ==
    case.is = "trip" =>
        /\ case.b.collected \subseteq case.ever
        /\ \A e \in DOMAIN case.b.depth : Walk(case.ever, case.seeds, e, case.b.depth[e])
        /\ \A r \in case.b.collected : {r.src, r.tgt} \subseteq DOMAIN case.b.depth /\ Hops(case.b, r) < case.b.n

\* What could be seen the whole time is found, and no later than the shortest walk
\* along it; in a quiet graph, with HopsSound, depths are distances.
HopsComplete ==
    case.is = "trip" =>
        \A n \in 0..case.b.n : \A e \in UNION {{r.src, r.tgt} : r \in Relations} :
            Walk(case.stayed, case.seeds, e, n) =>
                /\ e \in DOMAIN case.b.depth /\ case.b.depth[e] <= n
                /\ n < case.b.n => \A r \in case.stayed : e \in {r.src, r.tgt} => r \in case.b.collected

\* A traversal an ingestion overtakes reports nothing that was not there and misses
\* nothing that was, at depths that are distances.
TraversalFaithful == HopsSound /\ HopsComplete

\* A candidate that is at least as near, as similar, as well matched and as recent as
\* another, and ahead in one that counts, is ranked before it: decay, the two scores
\* and the ties of scored_query never pull against each other.
RankMonotone ==
    case.is = "rank" =>
        LET x == case.scored
            place(c) == CHOOSE i \in DOMAIN case.order : case.order[i] = c
            noWorse(c, d) == /\ x[c].hops <= x[d].hops /\ x[c].sim >= x[d].sim
                             /\ x[c].raw >= x[d].raw /\ x[c].date >= x[d].date
            ahead(c, d) == \/ x[c].hops < x[d].hops
                           \/ x[c].date > x[d].date
                           \/ case.embedded /\ x[c].sim > x[d].sim
                           \/ x[d].raw > 0 /\ x[c].raw > x[d].raw
        IN  /\ ToSet(case.order) = DOMAIN x /\ Len(case.order) = Len(x)
            /\ \A c, d \in DOMAIN x : noWorse(c, d) /\ ahead(c, d) => place(c) < place(d)

Base == case.out.base
Shown(seq) == Len(seq) = Cardinality(ToSet(seq))

\* What an answer charges, memories included, is what it says and at most the budget;
\* it shows no relation and no chunk twice, and leaves out none that would still fit
\* (the three passes of fused_output hand the budget on).  Evidence that two of the
\* first K relations share is shown, and charged, under each.
WithinBudget ==
    case.is = "answer" =>
        LET left == case.budget - case.out.used
            spent == Spent(case.out.memory) + Spent(Base.relations) + Spent(Base.evidence) + Spent(Base.chunks)
            relations == ToSet(case.ranked) \ ToSet(Base.relations)
            chunks == {c \in ToSet(case.chunks) \ ToSet(Base.chunks) : c.doc \notin DocsOf(Base.evidence)}
            offered == IF case.mode = "merge" \/ case.ranked = <<>> THEN chunks ELSE {}
        IN  /\ case.out.used = spent /\ spent <= case.budget
            /\ Shown(Base.relations) /\ Shown(Base.chunks)
            /\ \A x \in relations \cup offered : x.cost > left

\* In merge mode a chunk that is not already evidence, and fits in what chunks have not
\* used of their own share, is shown; none repeats a document shown as evidence.
ChunkShareKept ==
    case.is = "answer" /\ case.mode = "merge" =>
        LET share == ShareOf(case.budget - Spent(case.out.memory), case.percent)
            fresh == {c \in ToSet(case.chunks) : c.doc \notin DocsOf(Base.evidence)}
        IN  /\ ToSet(Base.chunks) \subseteq fresh
            /\ \A c \in fresh \ ToSet(Base.chunks) : c.cost + Spent(Base.chunks) > share

\* Memories come in rank order without a gap, stay within their share ("best n of m"),
\* and stop only at one that does not fit it.
MemoryPrefix ==
    case.is = "answer" =>
        /\ IsPrefix(case.out.memory, case.hits)
        /\ Spent(case.out.memory) <= ShareOf(case.budget, MemoryPercent)
        /\ Len(case.out.memory) < Len(case.hits) =>
             Spent(case.out.memory) + case.hits[Len(case.out.memory) + 1].cost
               > ShareOf(case.budget, MemoryPercent)

\* What the packing of an answer owes to the budget, to its sources and to their order.
AnswerPacked == WithinBudget /\ ChunkShareKept /\ MemoryPrefix

\* "Total token budget for all output (footer excluded)" (retrieval.py:809): with the
\* provenance lines of its evidence an answer of fused_output still keeps to the
\* budget (one relation's line is what it is charged; those of a subject share one).
\* The code charges the provenance lines of chunks only (README, section 6).
PrintedWithinBudget ==
    case.is = "answer" /\ case.mode = "merge" =>
        LET tags == FoldLeft(LAMBDA sum, x : sum + x.tag, 0, Base.evidence)
        IN  Spent(case.out.memory) + Spent(Base.relations) + Spent(Base.evidence) + tags
              + Spent(Base.chunks) <= case.budget
-----------------------------------------------------------------------------
(* Full-text search.                                                       *)

\* Of each section only the newest version fetched is shown, and no section twice.
NewestOfSection ==
    case.is = "chunks" =>
        /\ \A i, j \in DOMAIN case.out : ChunkKey(case.out[i]) = ChunkKey(case.out[j]) => i = j
        /\ \A i \in DOMAIN case.out : \A j \in DOMAIN case.rows :
             ChunkKey(case.rows[j]) = ChunkKey(case.out[i]) => case.rows[j].version <= case.out[i].version

\* No source gets a second chunk more than another that still has one to show.
SourcesTakeTurns ==
    case.is = "chunks" =>
        LET shown(k) == Cardinality({i \in DOMAIN case.out : SourceKey(case.out[i]) = k})
            held(k) == Cardinality({ChunkKey(case.rows[i]) :
                                      i \in {j \in DOMAIN case.rows : SourceKey(case.rows[j]) = k}})
            sources == {SourceKey(case.rows[i]) : i \in DOMAIN case.rows}
        IN  case.out # <<>> =>
              \A k, l \in sources : shown(l) < held(l) => shown(k) <= shown(l) + 1

\* The fallback shows current sections, of as many sources as it can.
ChunksChosen == NewestOfSection /\ SourcesTakeTurns

\* The hits of two pools are the best of their union: no hit left out of either ranks
\* before one that is shown, and filters hold of all of them.
HistoryTop ==
    case.is = "history" =>
        LET ok(h) == /\ case.project = "all" \/ h.project = case.project
                     /\ case.kind = "any" \/ h.kind = "tool_result"
                     /\ case.kind = "tool_error" => h.error
            said == IF case.kind = "any" THEN case.said ELSE <<>>
            pool == Only(said, {h \in ToSet(said) : ok(h)}) \o Only(case.evts, {h \in ToSet(case.evts) : ok(h)})
            better(seq, n) == Cardinality({i \in DOMAIN seq : seq[i].rank <= n})
        IN  /\ Len(case.out) = Min({HistoryLimit, Len(pool)})
            /\ ToSet(case.out) \subseteq ToSet(pool)
            /\ \A n \in {h.rank : h \in ToSet(pool)} :
                 better(case.out, n) = Min({HistoryLimit, better(pool, n)})

\* Excerpts never show a character twice: spans and CJK windows are disjoint and in
\* order, and the spans cover every window chosen.
ExcerptApart ==
    case.is = "excerpt" =>
        /\ \A i, j \in DOMAIN case.lexical : i < j => case.lexical[i][2] < case.lexical[j][1]
        /\ \A w \in ToSet(case.chosen) :
             \E s \in ToSet(case.lexical) : s[1] <= w.from /\ w.to <= s[2]
        /\ \A i, j \in DOMAIN case.cjk : i # j => case.cjk[i].from..(case.cjk[i].to - 1)
                                                   \cap case.cjk[j].from..(case.cjk[j].to - 1) = {}
        /\ case.windows # {} => case.cjk # <<>> /\ case.lexical # <<>>
-----------------------------------------------------------------------------
(* Documents, workflows, triage and embeddings.                            *)

\* Chunking loses no line with content, repeats none and keeps their order.
ChunksCover == case.is = "document" => Covered(case.doc, case.chunks)

\* Neither a section nor a group of paragraphs begins inside a fence.
FencesKept == case.is = "document" => FencesWhole(case.doc, case.chunks)

\* A chunk above the limit is a single paragraph, or is above it only by what joins
\* paragraphs that fit.
ChunksFit == case.is = "document" => WithinLimit(case.doc, case.chunks, case.limit)

\* A document is cut into chunks without loss, outside its fences and to size.
ChunksWhole == ChunksCover /\ FencesKept /\ ChunksFit

\* Groups built one unit at a time are the classes of units linked by chains of alike
\* ones, whatever the order of the ids; those with evidence are reported, once each.
GroupsAreClasses ==
    case.is = "distill" =>
        LET eligible == EligibleUnits(case.units)
            worth(g) == Cardinality(UNION {u.sources : u \in g}) >= 2 \/ \E u \in g : u.confirmed
        IN  /\ {ToSet(c.members) : c \in ToSet(case.plan)} = {g \in Classes(eligible) : worth(g)}
            /\ \A i, j \in DOMAIN case.plan : i < j => case.plan[i].sessions >= case.plan[j].sessions

\* A further keyword never weakens a decision: neither importance nor confidence falls.
GateMonotone ==
    case.is = "triage" =>
        \A k \in Keywords \ case.text :
            LET more == TriageTrace(case.text \cup {k}, case.item)
            IN  more.importance >= case.out.importance /\ more.confidence >= case.out.confidence

\* Bare procedure signals never extract an event: without them its decision is the
\* same (heuristic-v3, triage.py:26).
StepsNeverExtractEvents ==
    case.is = "triage" /\ case.item.event =>
        TriageTrace(case.text \ {Verify}, case.item).extract = case.out.extract

\* What extracts an event: manual intent, a correction or the fix combination, as
\* heuristic-v3 says, and also a durable change with intent or declared as a fact,
\* which it does not say; nothing else, and boilerplate never.
EventsExtractFor ==
    case.is = "triage" /\ case.item.event =>
        (case.out.extract <=> /\ ~case.item.boilerplate
                              /\ \/ case.item.manual \/ Correction(case.text) \/ Fix(case.text)
                                 \/ /\ Durable(case.text)
                                    /\ Explicit(case.text) \/ FactMark \in case.text)

\* What the gate extracts, and only that or manual intent, would become active.
GateActivates ==
    case.is = "triage" =>
        (case.out.extract <=> ActivationPasses(case.out, TRUE))

\* A further mark never takes a text to a weaker branch of the gate, the steps in an
\* event do not count and what extracts it is as listed, extraction and activation agree.
GateSteady == GateMonotone /\ StepsNeverExtractEvents /\ EventsExtractFor /\ GateActivates

\* "only manual intent, corrections, or the fix combination may extract an event"
\* (triage.py:26).  The durable branches extract events too,
\* see section 6 of the README.
EventsExtractOnly ==
    case.is = "triage" /\ case.item.event /\ case.out.extract =>
        case.item.manual \/ Correction(case.text) \/ Fix(case.text)

\* "Manual intent always extracts" (triage.py:287).  The boilerplate guard comes
\* before it (README, section 6).
ManualExtracts == case.is = "triage" /\ case.item.manual => case.out.extract

\* y was used after every use of x.
UsedAfter(uses, x, y) == \E j \in DOMAIN uses : uses[j] = y /\ \A i \in j..Len(uses) : uses[i] # x

\* A call whose distinct new texts fit the cache is answered unless the provider fails,
\* and an answered call leaves in the cache the texts used last, by it or before it, as
\* many as fit, the oldest first (embed_many reads every answer out of the cache).
CacheServes ==
    case.is = "embed" =>
        LET held == ToSet(case.before)
            misses == Only(case.texts, ToSet(case.texts) \ held)
            uses == case.before \o Only(case.texts, held) \o Distinct(misses) \o misses
        IN  /\ Len(cache) <= CacheSize /\ Shown(cache)
            /\ Cardinality(ToSet(misses)) <= CacheSize => case.error # "not populated"
            /\ case.error = "none" =>
                 /\ Len(cache) = Min({CacheSize, Cardinality(ToSet(uses))})
                 /\ ToSet(cache) \subseteq ToSet(uses)
                 /\ \A i, j \in DOMAIN cache : i < j => UsedAfter(uses, cache[i], cache[j])
                 /\ \A t \in ToSet(uses) \ ToSet(cache) : \A i \in DOMAIN cache : UsedAfter(uses, t, cache[i])

\* "One float vector per input text, in input order" (embedding.py:109): a call that no
\* provider failed is answered.  It is not when its new texts outgrow the cache, and
\* never with the cache disabled (README, section 6).
EmbedAnswers == case.is = "embed" => case.error \in {"none", "provider"}
=============================================================================
