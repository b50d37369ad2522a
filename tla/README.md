# A verification project for membox

membox is a local memory for coding agents: a CLI (`src/src/membox/cli`) over a
library (`src/src/membox/core`) that keeps documents, a knowledge graph, session
history and distilled "memory units" in one SQLite file. There is no server.
Every command is a short-lived process; a transient background worker drains the
ingest queue. Processes meet only in the database, through `BEGIN IMMEDIATE`
transactions (`connection.py:55-74`) and two cooperative leases kept in the table
`meta`. What can go wrong therefore lies between transactions: rows read before a
lease is taken, a kill between two commits, a lease that expires, two processes
that both find something absent.

This directory holds TLA+ modules for those parts, TLC configurations that check
them on small instances, and TLAPS proofs for every instance.

## 1. The system: components, state, operations, hard behaviour

| component | state it keeps | operations | hard behaviour | what makes it correct |
|---|---|---|---|---|
| ingest queue and worker (`store/queue.py`, `worker.py`, `store/leases.py`) | `ingest_queue` rows, row `worker_lease` of `meta` | enqueue, claim, mark done/failed, retry failed, acquire/refresh/release lease, drain loop, spawn | several workers, a worker killed or interrupted with a claimed row, a heartbeat that grows old, clients racing an exiting worker | one drainer; bounded retries; nothing materialised twice without a fault; every row settles |
| memory lifecycle (`store/memory_units.py`, `lifecycle.py`, `triage.py`, `cli/commands/memory.py`) | `history_triage`, `memory_units`, their sources and status log, rows `lifecycle_lease:<project>` | triage, extract, checkpoint, consolidate, capture (ingest-graph), retract, restore, supersede | rows are read before the lease is taken, a multi-transaction extraction is killed, commands that take no lease | what is consumed has a unit; consumption is final; no extraction or capture takes back a retraction; crystals are earned |
| consolidation policy (`consolidate.py`) | none (pure) | validate, conflicts, supersessions, promotion, demotion, decay, plan | several rules that claim one unit, repeated rounds | rounds settle; conflicts are only surfaced; no ring of replacements, no live replaced unit |
| knowledge graph store (`store/entities.py`, `documents.py`, `relations.py`, `vectors.py`) | documents, entities, aliases, relations, evidence | insert document, find or create entity, upsert relation | find-or-create and version numbers across processes, supersession by version | evidence complete; supersession goes forward; aliases are final; what the newest version says is active |
| ingestion pipeline (`agent.py`, `cli/commands/ingest*.py`) | none | chunk, extract, materialise; enqueue | per-chunk failures, several transactions per chunk | a failed chunk loses only itself |
| history import (`history_import.py`, `store/history.py`) | sessions, messages, events, import state | incremental import, fetch, window, search | a log that grows or is replaced meanwhile; a kill between its transactions; two importers | nothing before the stored offset is missing; imports converge; stored ids fetch what was stored |
| session log importers (`services/importers/`) | none | parse claude, codex, pi, membox logs | ids and numbers of a resumed parse, offsets of half-written lines | the same rows whether parsed at once or in parts |
| migrations and embedder guard (`store/migrations.py`, `meta_guard.py`) | `user_version`, the schema, full-text indexes, the embedder of `meta` | open a store | two processes open one old database; a kill or a failed statement between migrations | an open store is complete; every row is indexed; the embedder that let a process in stays |
| retrieval (`store/retrieval.py`, `fts.py`, `tokens.py`) | none | breadth-first hops, scoring, fusion, budget, full-text fallback, excerpts | hops without a snapshot, ties, budgets at their limit | hop counts are distances; what is charged is within the budget, nothing that fits left out |
| chunking, normalisation (`chunking.py`, `normalize.py`) | none | chunk a document | fences, paragraphs above the limit | no text lost, no fence cut, paragraphs gathered only as far as they fit |
| distillation (`distill.py`) | none | group units into workflows | a unit that joins two groups | groups do not depend on the order |
| triage gate (`triage.py`) | none | decide a trace, decide an activation | branches in order of precedence | a further mark never weakens a decision |
| embedding cache (`services/embedding.py`) | an LRU cache | embed many texts | eviction within one call, duplicate texts, a batch that fails | a call that fits the cache is answered; the cache keeps what was used last |
| configuration, schema, export, rendering, extraction prompts, providers | none | declarations, argument parsing, output | none | not modelled |

Interactions: `ingest` enqueues and spawns a worker; the worker calls the
ingestion pipeline, which writes the graph. `checkpoint` pulls history, then
triages and extracts it into memory units under the lifecycle lease. `memory
consolidate` plans with the pure policy and applies the plan. `ingest-graph`
writes the graph and units with no lease at all. `history import` and the pull of
`checkpoint` write the history that triage reads. Queries read the graph, the full-text
indexes and the units, while others write them. Every command opens the store first, and may
find itself migrating it beside another.

## 2. Modules

| module | what it models |
|---|---|
| `JobQueue` | the promise of the queue: a job is accepted, then delivered or failed, at most `MaxAttempts` failures |
| `IngestQueue` | the queue, the worker lease, workers and clients; implements `JobQueue` under the mapping `jobState` |
| `IngestQueueProofs` | theorems about `IngestQueue` |
| `Consolidation` | the pure plan and its application, for unit tables as functions; the text heuristics are constant relations |
| `ConsolidationProofs` | lemmas about plans, which the two modules below rest on |
| `ConsolidationRounds` | one process that consolidates again and again, from every table of units |
| `ConsolidationRoundsProofs` | theorems about `ConsolidationRounds` |
| `MemoryLifecycle` | composes `Consolidation` with triage, extraction, capture, manual transitions and the lifecycle lease, for several processes |
| `MemoryLifecycleProofs` | theorems about `MemoryLifecycle` |
| `KnowledgeGraph` | processes that materialise files chunk by chunk into documents, entities, aliases, relations |
| `KnowledgeGraphProofs` | theorems about `KnowledgeGraph` |
| `HistoryImport` | an agent that writes a log, importers that read it, in each of the four formats, and their transactions |
| `HistoryImportProofs` | theorems about `HistoryImport` for the formats read in file order |
| `StoreOpen` | processes that open, migrate, guard, fill and close one database |
| `StoreOpenProofs` | theorems about `StoreOpen` |
| `Sorting` | Python's `sorted` by a tuple of keys, and comprehensions, as the operators below use them |
| `Retrieval` | pure operators: hops, ranking, packing of an answer into its budget, memories |
| `Search` | pure operators: full-text candidates, deduplication, turns, history search, excerpts |
| `Chunking`, `Distill`, `TriageGate`, `EmbeddingCache` | pure operators of `chunking.py`, `distill.py`, `triage.py`, `embedding.py` |
| `Reading` | asks those operators: one action per operation, the traversal hop by hop beside an ingestion, the cache call after call |
| `ReadingProofs` | theorems about the traversal, the ranking, the packing of an answer, full-text candidates, history hits, excerpts, the chunks of a document, groups of units, the embedding cache and the triage gate |
| `MC*` | the constants of the small instances |

`MemoryLifecycle` composes `Consolidation`; `Reading` composes the six modules of operators;
`IngestQueue` implements `JobQueue`. The operators are in modules of their own so that a
property can quote them and a later module can use them.

### How state and actions correspond to the code

Each store method that opens a transaction is one action; a read whose result a
later transaction relies on is an action of its own, or part of the action that
starts the command. Names are the source's where they can be: `Claim` is
`claim_next_pending`, `MarkDone` is `mark_done`, `InsertDocument` is
`insert_document`. The program counter `pc` of a process says between which two
calls of the code it is. `PROJECT.json` names the lines of every definition.

* **IngestQueue.** `status`, `retries` are columns of `ingest_queue`; `lease` is the
  row of `meta`; `ingested` and `faults` are ghosts. `Acquire` is the whole
  transaction: check of the heartbeat, takeover, reset of `processing` rows *only
  when a lease row was found*. `Abort` is an exception or Ctrl-C that leaves the loop
  through its `finally`; `Crash` is a kill, after which the lease row belongs to
  `Killed`. `Expire` is the passing of 60 s without a refresh.
* **MemoryLifecycle.** `triage` maps `<trace, gate>` to the state of its
  `history_triage` row (`consumed` is `consumed_at IS NOT NULL`). A `unit` row has
  content, status, `superseded_by`, the set of source identities and, of the status
  log, the two values that are ever read: the latest status and the one before the
  last archive. `job` holds what a command has read and will still use: this is where
  staleness lives. `StartTriage`, `StartExtract` and `StartConsolidate` read before the
  lease is taken, `List` and `Select` of the checkpoint after, as the code does. `Put` is
  the transaction of `create_memory_unit`, with its `ON CONFLICT DO NOTHING` on the
  content; the covering check (`Cover`) is a separate, earlier action.
* **Consolidation.** `Plan(U)` is `build_consolidation_plan`, `Applied(U, plan)` is
  `transition_memory_units_atomically` over `ordered_transitions`, group after group.
* **KnowledgeGraph.** `docs`, `entity`, `alias`, `rels` are the tables (a row id is an
  index). `NextVersion` and `InsertDocument` are two actions because `next_version_for`
  reads outside the transaction. The write lock of the connection manager excludes
  threads only, so processes interleave inside `find_or_create_entity`. `MatchSimilar`
  chooses any entity over the threshold.
* **HistoryImport.** `log` is the sequence of complete lines, `half` the line being written, `gen`
  the generation of the file (its modification time). A complete line weighs two bytes and a
  half-written one weighs one, so that offsets and sizes compare as in the code. A line is data
  that the importers tell apart: kind, id or none, parent, text class, time. `Parse` is the loop
  of the four importers with what a resumed pass remembers (the session and the next `seq`) and
  what it forgets (ids given, event ordinals, the last message). `StatFile`, `Decide`, `ParseFile`
  (and `MeasureEnd`, the second pass of the Claude importer), `UpsertSession`, `UpsertMessages`,
  `UpsertEvents`, `SetImportState` are `import_history` in order. `mixed` is a ghost: an import
  took an offset of a file that has been replaced since; nothing can be said of what follows,
  as the code has only size and time to tell, so `Goto` stops there.
* **StoreOpen.** `version` is `PRAGMA user_version`, `schema` what the statements have created
  (tables, added columns, indexes with their triggers), `entries` how often each row is in each
  index. `Open` reads the version once, `current` is the loop variable of `apply_migrations`,
  `Apply` is one migration with its version bump as the transaction it is; the version may go
  *down* when a slower process applies again what another has done. `ApplyFails` is the statement
  that fails, with or without a fault. `CheckPasses` and `Record` are two steps because the guard
  reads outside the transaction that records.
* **Reading.** `case` holds one operation with its input and result; properties compare the result
  with a reference definition (walks, the union of pools, classes of a relation, the lines of the
  document). `Hop` is one `get_neighbors` query, between which `WriteRelation` may add or supersede
  a relation. Costs and scores are small naturals; the decay 0.7 and the weight 0.6 are kept as
  7 of 10 and 6 of 10, so that ties and orders are those of the code.

## 3. What is checked

Passing runs (TLC explores the whole state graph):

| run | instance | question |
|---|---|---|
| `queue_safety` | 2 workers, 1 client, 2 rows, 2 retries, 2 faults | `SingleWorker`, `IngestedOnce`, `SettledIsFinal`, and `JobsSpec`: the queue implements `JobQueue`, with kills, aborts, workers started by hand, `--no-spawn` |
| `queue_recovery` | as `queue_safety`, kills only, `AttendedSpec` | `EveryRowSettles`, `WorkersExit` |
| `memory_pipeline` | 2 processes, 2 traces, 2 gates, a kill or interrupt, `AttendedSpec` | `ConsumedCovered`, `ConsumedIsFinal`, `PendingConsumed` under triage, extract, checkpoint, consolidate, retract |
| `memory_transitions` | 2 processes, 2 projects, one unit quoted by up to three sources of two documents, a kill or interrupt | `LeaseExclusive`, `CrystalEarned`, `RetractionHeld` under capture, consolidate, retract, restore, supersede |
| `consolidation_rounds` | every table of 3 of 6 contents | `Settles`, `NoLiveReplaced`, `ChainsEnd`, `ConflictsHeld` |
| `graph_ingest` | 2 processes, 3 rounds, names that normalise alike or are similar, a failed chunk or a kill | `EvidenceComplete`, `SupersededByNewer`, `FirstReplacementStays`, `AliasStays` |
| `history_import` | 2 importers, 3 lines and replacements, 3 imports and replacements together, a half-written line, kills, all four formats | `NothingPassedOver`, `Converges`, `FetchGivesTheRow`, `AroundIsAWindow` |
| `store_open` | 2 processes, 2 embedders or none, 3 opens, a fault; a new file, one from before the version, one of version 7 | `VersionTruthful`, `OpenIsComplete`, `IndexesCover`, `CheckedMatch`, and `OpensEnd` under `FairSpec` |
| `reading` | every input `MCReading` lists, some 300,000 | `TraversalFaithful`, `RankMonotone`, `AnswerPacked`, `ChunksChosen`, `HistoryTop`, `ExcerptApart`, `ChunksWhole`, `GroupsAreClasses`, `GateSteady`, `CacheServes` |

Runs that show a disagreement between the code and what the repository says of it:

| run | what TLC finds |
|---|---|
| `queue_stuck` | a worker that leaves `drain_queue` by Ctrl-C or a store error deletes its lease; its row stays `processing`, and no later worker resets it, as the reset only happens when a lease row is found |
| `graph_reingest` | an unchanged file with two objects for one subject and predicate, ingested twice: each relation supersedes the other and neither is found by a query |
| `history_midparse` | a line appended to a Claude log between the pass that reads the records and the pass that measures the end offset (`claude_jsonl.py:450-454`) lies before the stored offset and is never imported |

### Bounds

Two processes suffice for every race in the code: each is between one transaction
(or read) of one process and one of another, and a lease has one owner; the queue
theorems hold for any number. Two rows let one be stuck while another is claimed; two
retries let a row fail, be retried and fail for good; two faults let the process that
recovers from a kill be killed. Two gate versions give one trace two triage rows,
which is how a covered source is met again. Three sources of two documents are what
tells a source from a session, with a crystal threshold of two. Three units make the
shortest rings and chains, with conflict, replacement, one title twice, an expired and
an expired-but-reviewed content among six. Three rounds are the two editions of a
file and a document without path, or a repetition. Three lines are a header, a message and an event or a second message, the shortest log in which
a resumed parse has something to forget; three imports let one resume from
the older offset that the slower of two others stored last, or follow a kill; `MaxImports` bounds
imports and replacements together, so that a replaced log is imported by two. Version 7 leaves two migrations, so that a
slow process can take the version back behind a fast one; a third open follows both. The lists of
`MCReading` hold two or three items of each kind with costs and ranks around the limits, budgets
that leave nothing, something and everything, documents of five lines with fences, three units of
three sources, and every subset of the gate's keyword classes. `MaxUnits`, `MaxId`, `MaxFaults`,
`MaxRounds`, `MaxLines`, `MaxRewrites`, `MaxImports`, `MaxOpens`, `MaxInserts`, `MaxRows` and
`MaxHops` are the only counters and stand in the guards of the actions that count. `CHECK_DEADLOCK FALSE` stands where the instance really comes to an end:
a plan that is empty, rounds used up, a row nobody will touch.

The type invariant of `IngestQueue` is checked and proved; those of `MemoryLifecycle`,
`ConsolidationRounds`, `KnowledgeGraph` and `StoreOpen` are proved and asked of no run.

### Fairness

`FairSpec` of the queue: a worker that was started takes its next step, a client
command finishes, the heartbeat of a dead worker grows old. Enqueueing, starting a
worker by hand and every fault are unfair. `AttendedSpec` adds that somebody keeps
running `membox process`; without it nothing recovers a killed worker's row, as
there is no daemon. For the memory lifecycle it adds that somebody keeps running
`memory extract` for each gate, sometimes when no command has the lease, and again when it was
refused: strong fairness, because commands of others disable the step again and again, and the
code exits instead of waiting. `FairSpec` of the store says that a process that has begun to open
takes its next step (`Step`), as opening is straight-line code without a wait that could starve:
opens, inserts and kills are unfair. `HistoryImport` and `Reading` state no liveness.

## 4. What is proved

`IngestQueueProofs` proves, for every set of workers and clients and every bound:

* `TypeCorrect`: the type invariant, whatever the environment does.
* `IngestedOnceHolds`: a row is materialised once more only for a kill, an abort or an item that
  outlived the lease, whatever the environment does. Nothing is assumed.
* `SingleWorkerHolds`, `RetriesBoundedHolds`, `SettledHolds`, as long as no item outlives the lease.
* `JobsHolds`: as long as no item outlives the lease, every initial state and step of the queue is
  one of `JobQueue`, or a stutter.

The last four assume `Timely` (`"slow" \notin Env`), which the code does not guarantee: the
heartbeat is written between items only. Without it they are false (section 6). The
constants' named assumptions are the only others.

None of the properties is inductive. `IInv` adds that whoever is past
`acquire_worker_lease` owns a live lease (`HolderInv`, which gives `SingleWorker` as the lease
has one owner), that the row it has claimed is `processing` (`ItemInv`, without which
`mark_done` could overwrite a settled row), and that an unused id has no failures (`FreshInv`).
`IngestedOnce` cannot rest on them, as two workers may have one row. Its invariant `OInv` is an
account of each row (`Paid`): its materialisations, the workers that have claimed it and not yet
marked it failed or materialised it (`Holders`), one more while it waits (`Waiting`), one more when
its worker is gone (`Lost`), and one more while the lease lets it be reset although a worker still
has it (`Exposed`) are together at most one more than the faults.
`InitIInv` and `StepIInv` (one step per action, one per conjunct it disturbs) make it an
invariant; `StepSettled` and `StepJobs` derive the action property and the refinement from it.

`MemoryLifecycleProofs` proves, for every set of processes, projects, traces, gates and captures,
every bound, and whatever the text heuristics say:

* `TypeCorrect`: `TypeOK`. Its invariant `TypeInv` adds what a command knows at each of its steps
  (`StageOK`: at `move` there are a unit and a status, at `insert` a trace), without which a
  transition could be written to no row. `PlanType` shows that a plan moves units of the table to
  statuses a unit may have, `AppliedRows` that applying one keeps contents and sources.
* `LeaseExclusiveHolds`: under `Timely`, by the same argument as the worker's lease, with a row of
  `meta` per project (`HolderInv`).
* `ConsumedCoveredHolds`: with *no* assumption on time, as it rests on rows and not on the lease.
  The inductive invariant `CInv` adds that what an extraction will mark consumed has a unit
  (`DoneInv`: this is where the order of insertion and marking matters), and that a row never
  written is empty (`EmptyInv`: so no write loses a source; `RowsGrow`).
* `ConsumedFinalHolds`, `RetractionHeldHolds`: the two action properties, for every command. The
  second says of a retracted unit that only a restore or a supersede of it, or a plan that names it,
  brings it back, and that no plan made after the retraction names it: plans name live units
  (`Listed`), and a capture or an extraction of the same content writes no row (extraction is in no run
  that asks it, and in the theorem). That it ever comes
  back at all is said in section 6.
* `CrystalEarnedHolds`: whatever is a crystal, or was one when it was archived, has sources of enough
  sessions or a confirmed content, although a plan is applied to rows that others have changed since
  it was read and a restore goes by the log. The invariant `EarnedInv` adds to the types that a command
  which will write `crystal` has a unit that earns it already (`JobsEarned`): contents never change and
  sources only grow, so what was due stays due (`DueStays`). `Representatives` says that of sources
  from n sessions n can be chosen of which no two share one, which is what the code counts and the
  property quantifies.

The assumption `ContentAssumption` says that no unit has the content of an empty row.

`ConsolidationProofs` holds what these and the next module need about the plans, which are sets of
moves with the newest of the candidates (it exists as the ids of a table are bounded: `MaxOfIds`):
where a move comes from (`PlanGroups`), that a unit has one move (`OneMove`), and what applying the
groups one after the other does to a row (`AppliedAfter`, `AppliedOnce`).

`ConsolidationRoundsProofs` proves, for every number of units, all sources and all text heuristics:

* `NoLiveReplacedHolds`, `ChainsEndHolds`: from the inductive `RoundsInv`, in which a superseded unit
  names a *newer* one and nothing else names any. A ring of replacements would have a newest unit.
* `ConflictsHeldHolds`: the action property; the two halves of a conflict are in no group.
* `RoundsClimbHolds`: of the five rungs candidate, unit, crystal candidate, crystal and out of use,
  every round takes some unit up and none down. This is the argument for `Settles`, whose last step
  (a bounded sum that grows) is liveness and stays with TLC.

`ReadingProofs` proves, for any relations, seeds and hop limit, any candidates, answers, budgets,
rows, hits, windows, documents, units and texts, and whatever fails:

* `TraversalFaithfulHolds`: the hop counts of a traversal are distances, between the graph of the
  relations that were visible at some time and the graph of those that were all the time, while
  relations are added and superseded between its queries. `TripInv` has the shape of a round, what the
  history variables mean, that what was met was seen (`TripSound`), and that a relation visible
  throughout is collected in the round of its nearer end with its farther end at most one hop farther
  (`TripClosed`), which carries a walk to its end (`WalkMet`, by the least step at which it would not).
* `RankMonotoneHolds`: a relation that is no worse in anything and ahead in something that counts is
  ranked first. A fraction of the decay is left for every hop (`DecayFalls`), min-max normalisation
  grows with the raw score whatever else is a candidate (`NormalizedGrows`), so the score grows
  (`ScoreGrows`) and the ties decide the rest (`AheadIsBefore`).
* `AnswerPackedHolds`: an answer charges at most its budget, keeps its shares, shows no relation
  and no chunk twice, no chunk of a document shown as evidence, and leaves out no relation and no chunk
  that fits. `PackedTo` is the account of one greedy pass (what is left and what was taken
  make the budget; what was passed over does not fit what is left *now*, as the rest only shrinks);
  `CompactPacks`, `FallbackPacks` and `FusedPacks` carry it through the passes, `HitsFit` is the
  longest run of memories within their share, and `BaseIsPacked` joins the modes.
* `GateSteadyHolds`: a further mark never takes a text to a weaker branch of the triage gate, and bare
  procedure signals never decide whether an event is extracted, for every set of keyword classes
  (`ReasonMonotone`, branch by branch). `EventsExtractFor` is the exact list of what extracts an event:
  without boilerplate, manual intent, a correction, the fix combination, or a durable change with an
  explicit mark or declared as a fact. The last two are not in the list of `triage.py:26` (section 6).

* `ChunksChosenHolds`: a section is shown at most once, in the newest version that was fetched, and
  sources take turns: none has two chunks more than another that has one left. `DeduplicatedIs` says what the rows of a section become (they keep the place
  of the first and the content of the newest: `NewestIs`), and `TurnsAreTaken` that in the order by
  turn and lead every n-th row of a source precedes every row of a later turn, so that wherever the
  limit cuts, no source is ahead of another by two (`RoundRobinIs`).
* `HistoryTopHolds`: two pools, each cut to the limit before they are merged and cut again, lose no
  hit that is better than one shown. `BetterIs` turns "among the first n" into "fewer than n are
  better", which cutting a pool preserves (`BestOfBoth`).
* `ExcerptApartHolds`: an excerpt shows no character twice, covers the windows chosen, and is not
  empty where one matches. `SpanStep` is the step of the merge: as spans come by their beginning, one
  that reaches into the last extends it, and no earlier one can be reached; `MergeIs` carries it to all.
* `ChunksWholeHolds`: the chunks of a document have every line with content once and in order, none
  begins inside a fence, and one above the limit is a single paragraph or is above it only by what
  joins paragraphs that fit. One invariant goes with each loop: `ReadTo` (what was read makes sections,
  each a heading outside a fence and a stretch of lines after it that begins outside one too),
  `SplitTo` (the lines of a section make paragraphs, `AreParagraphs`) and `GatherTo` (paragraphs make
  groups that fit). That the fence is counted anew for the paragraphs of a section is right because a
  section begins where no fence is open, and only blank lines, which change no fence, are stripped from it (`BlankKeeps`).
  `InFenceIs` shows that the loops' fence is the one of the definition, `FlattenIs` where an element
  of joined sequences comes from, and `Tells` is what the chunks of one section say of its lines.
* `GroupsAreClassesHolds`: groups made unit by unit are the classes of units linked by chains of alike
  ones. `JoinedGroups` keeps a partition of the units met whose groups are linked within and not alike
  across; a chain is reversed, joined and lengthened by explicit functions (`ChainReversed`,
  `ChainsJoined`), and `ChainStays` keeps it within a group; so the order of the ids does not matter.
* `CacheServesHolds`: a call whose new texts fit the cache is answered unless the provider fails, and
  an answered call leaves in the cache the texts used last, as many as fit. A call of more texts is
  not answered at all, or not always (section 6).
  `EmbedInv` adds that the cache holds no text twice, across calls. Within a call it is at each step
  the end of what was used, by latest use (`Recent`, `Latest`): a cache is that of itself
  (`CacheIsRecent`), getting and putting keep it so (`GetRecent`, `PutRecent`), and a new text that is
  pushed out before it is read has as many others after it as fit (`LostIsOver`).

The invariants of the operations that end in one step (`RankInv`, `AnswerInv`, `TextInv`, which joins
`ExcerptInv`, `DistillInv`, `HistoryInv`, `ChunksInv` and `DocumentInv`) say that the case is an input of the instance
with the result the operators give; the theorem about the operators does the rest.

Two facts carry all of these. The recursive function by which the library defines `FoldLeft` exists
and takes one step for each element (`IteratesExists`, `FoldRuns`, by the least index at which it
would not), so that a fold over one element more is one step more (`FoldLonger`). And a finite set can
be put in the order of distinct keys (`OrderExists`: an element stands behind as many as are before
it), so that `Sorted` is that sequence (`SortedIs`), where keys are tuples of one length.

The assumptions, each named in `Reading` and evaluated by the run, say what a row or an argument is:

* `RanksAssumption`: the hops of a candidate are within the limit of the traversal that found it;
  scores and dates compare as numbers.
* `AnswersAssumption`: a relation or a chunk is not found twice (each is a row, read once), a unit has
  its own id, costs are numbers, and the shares are fractions, as `config.py:172-180` calls them.
* `SearchAssumption`: limits, versions, scores and ranks are numbers. Nothing is said of their order:
  ties are allowed.
* `WindowsAssumption`: the windows of a text are finitely many pairs of positions, the first not behind
  the second, and the terms of a window are read at its place, so that one place has one set of them.
* `DocumentsAssumption`: a document is a sequence of lines of the kinds the regular expressions tell
  apart, each of some length, and a limit is at least 0 (which is what a negative one does).
* `DistillAssumption`: units are rows, so an id is that of one unit, and have finitely many sources.
* `CacheAssumption`: the size is at least 0 and a batch holds at least one text, as the constructor
  enforces both.

`StoreOpenProofs` proves, for any number of processes and embedders, every bound, every older
version and any number of rows:

* `TypesHold`: the type invariant.
* `VersionHolds` and `OpenHolds`: the version claims nothing that is missing, and an open store is
  complete. The second does not follow from the first, for the version may go down again after a
  process has passed: the invariant adds that what a process *believes* has been applied is in the
  schema (`CurrentTruthful`), that the schema only grows, and that a process past the loop believes
  the latest (`Reached`).
* `CoverHolds`: every row is in every index there is. `YoungIndexed` adds that the history and
  memory tables are created with their indexes, so their rows never precede them; `documents` is
  older than its two, which is why migrations 3 and 5 backfill (`NewIndexes`).
* `GuardHolds`: the record that let a process in is the one that stands; `Unchecked` says that who
  has not checked has seen no record.

`KnowledgeGraphProofs` proves, for any number of processes, any names, any similarity, any files
with any editions of any chunks, and any failures and kills:

* `TypesHold`: the type invariant; every id in an alias, a relation or the work of a process is the
  id of a row.
* `AliasesStay`, `ReplacementsStay`: an alias and a replacement are written once.
* `SupersessionJustified`: what replaced a relation says something else of the same source and
  predicate, on the evidence of a later version of a path the old one has evidence of.
* `EvidenceIsComplete`: without failures, every triple of a document that nobody works on any more is
  a relation between entities its names mean.

The invariant `Base` has three parts. `Control` says where a process may be with what work
(`StageOK`: at the upserts every name of every triple left has an entity, which is why the loop over
names comes first). `Tables` types the rows and bounds versions by the number of documents, so that
a highest version exists (`VersionBound`, by well-foundedness). `Meaning` says that a bound alias,
and what a process has resolved a name to, leads to an entity that means it (`Leads`); it is stable
because documents and entities are only added (`Grown`) although a process acts on what it read
before others wrote (`Knows`: one process moves, what the others know stays true). `Resolves` is what
the four ways to resolve a name have in common. `Complete` adds, for the last theorem, that a triple
of the chunk in work is stated or still to be upserted (`Pending`), and `RowsKept` that no upsert of
another process takes a statement back (`StatedStays`).

`HistoryImportProofs` proves, for any number of importers, any lines and any bounds:

* `NothingPassedOverAlways`, `ConvergesAlways`, `FetchGivesTheRowAlways`, `AroundIsAWindowAlways`: the
  four properties of `history_import`, while the agent writes, leaves lines half-written and replaces
  the file, importers overlap, and any of them is killed between its transactions. They hold of membox, codex
  and pi logs in which no record is written twice and every membox or codex event has an id, as the
  hypotheses below say; the last is needed (section 6).
* `ImportInvAlways`: the invariant they follow from. None of the four is inductive, as none says what
  an importer between two transactions has in hand.

`ImportInv` says that a stored offset is the end of some line at which a parse of the log knew its
session, had met no error and had the stored `next` as its next number (`Reached`), and that all rows
before it are in the tables (`Resumes`); that an importer about to parse has either such an offset or
none (`ResumeOK`); that what it has parsed are rows of the whole log, and are, with the tables, all
rows before the offset it will store (`BatchOK`); and that a stat that still fits was taken when
nothing followed that offset (`MeasuredAll`). It holds of the log as it is: a replaced one needs
nothing (`StateReplaced`), a longer one keeps its prefixes (`StateGrows`), and a table that gets rows
of the log keeps what it covers (`Improves`, `StageImproves`), so that each step needs a proof for
the importer that moves only (`Moves`).

The argument about parsing is that where a parse resumes does not matter. `LineRead` says once for all
formats what a line adds to a batch; by `FreshId` its id is new to the batch, so that the ids, ordinals
and last message that a resumed pass has forgotten change no id; and `ContinuesAll` concludes that a
resumed pass has the rows, under the same ids and numbers, that a pass over the whole log adds after
that line. An event may get another message (its text is claimed, not its message). `Parse` is a
fold; as induction over data is not available, `FoldIsIter` and `UpTo` argue by the least line at which
it would fail, on the recursive function by which the library defines `FoldLeft`.

Three hypotheses: `Sequential` (no format is `claude`: its importer sorts the lines of each batch by
time, which is a fold over sorted data), `Keyed` (`"unkeyed" \notin Env`: the agent leaves no record
without an identity; `Converges` and `FetchGivesTheRow` are false otherwise, section 6) and
`LinesAssumption`, by which two records of one id, or of one digest where that is the id, are one.
For the Claude importer the properties are those of the run.

Only model-checked: the history import of Claude logs, and everything about liveness
(`EveryRowSettles`, `WorkersExit`, `PendingConsumed`, `Settles`, `OpensEnd`), which needs fairness
and ENABLED.

## 5. What is not modelled, and why

* Row limits (`--limit`, the 500 units of a consolidation), `--since`, dry runs: they only make a
  command do less. The 500 units are those with the lowest ids, so that beyond 500 the newest are
  never consolidated (`memory_units.py:549`).
* Recall counters, descriptions, embeddings, prompts, rendering: no modelled decision reads them.
* `attach_memory_unit_source` and the consolidation comparator: no command calls them.
  `valid_to` is never set by a command, so decay appears only in `consolidation_rounds`.
* Several reads of one command that no write of it separates (units, counts and FTS pairs of a
  plan) are one snapshot. The hops of a traversal are not: they are separate reads here too.
* Reuse of a killed process's pid within the lease TTL, and clocks that differ.
* What extraction makes of a text, what the triage and conflict heuristics say of a word, what a
  regular expression matches, tokenising and FTS5's ranking: inputs.
* Two numbers that no property tells apart are simpler than in the code: the score of a CJK excerpt
  window (`_cjk_content_score`, `retrieval.py:1217-1253`) is the number of terms in it, and a
  workflow group counts the union of its units' sources, which is what the counter that
  `build_distill_plan` is handed computes.
* A session log has one session header; an importer that meets another id switches sessions.
* Redaction, text caps, titles, timestamps and the listings of the history commands; the external
  model providers; configuration, schema declarations, export and argument parsing: no state, and
  nothing that depends on an order of steps.
* A log that is replaced by one of the same size within one tick of the clock: the code cannot
  tell, and neither does the model claim anything.

## 6. Disagreements seen that have no run

Each can be reproduced by changing a configuration as said.

* A client sees the lease of a worker that has already found the queue empty and spawns none; the
  row stays pending until somebody runs a worker (`queue_recovery` with `FairSpec`,
  `Env = {}`: `EveryRowSettles` fails).
* An item may take longer than 60 s; the heartbeat is refreshed between items only (`worker.py:86`), so
  a second worker takes the lease and drains beside the first, against the "single-worker guarantee" of
  `worker.py:36`, and the first overwrites by id what its successor has settled (`queue_safety` with
  `"slow"` in `Env`: `SingleWorker`, `SettledIsFinal`, `RetriesBounded` and `JobsSpec` fail.
  `IngestedOnce` holds, as it counts the item that outlived the lease; asked alone with
  `MaxFaults = 3`, TLC passes it over 955,676 states).
* The lifecycle lease is not refreshed either, so a long command loses its exclusion after 30 s
  (`memory_transitions` with `Env = {"slow"}`: `LeaseExclusive` fails).
* A plan made before the lease is taken makes a unit live that was retracted meanwhile, against
  "Retraction is terminal" (`docs/spec/spec_02_memory_lifecycle.md:179`; `memory_transitions` with
  `Commands = {"capture", "consolidate", "retract"}` and `RetractionTerminal` for `RetractionHeld`).
* Two `ingest-graph` commands write two live units for one source (`memory_transitions` with
  `OneUnitPerSource`, `Captures <- RivalCaptures`, `MaxUnits = 2`).
* `memory restore` activates a retracted unit, and a replaced one that keeps its `superseded_by`, which
  search then hides (`memory_units.py:906`); `memory supersede` accepts the unit itself, or one it
  has replaced, as the replacement; capturing a retracted content again returns the retracted unit.
* Two processes that create entities whose names normalise alike leave one that no alias leads to.
* A membox event without `message_id` and `call_id`, which is a record of the documented format
  (`membox_jsonl.py:140`), gets an id that names its message when it is imported with it and none when
  it is imported after it. In codex logs the same happens to a message without an id that repeats the
  text of an earlier one (`history_import` with `Procs = {p1}`, `Env = {"unkeyed"}`, `MaxLines = 4`,
  `MaxRewrites = 0`, `MaxImports = 2`, and `Formats = {"membox"}`, `Lines <- KeylessLines` or
  `Formats = {"membox", "codex"}`, `Lines <- MCLines`: `Converges` and `FetchGivesTheRow` fail).
* The Claude importer numbers the lines of each batch by time, so two messages of different batches
  may have one `seq`. An event that names a message nobody stored makes the import raise after the
  messages were committed.
* Two processes with different embedders open a new database: both checks find nothing, the second
  record is ignored, and both stores are open, although `meta_guard.py:94` says that the check would
  have raised (`store_open` with `GuardRaises`, `MaxFaults = 0`). A record that fails is swallowed
  (the same with `MaxFaults = 1`). `CheckedMatch` claims neither.
* A migration is applied
  again by a second opener, which repeats the backfill of `documents` and lowers `user_version`,
  while `migrations.py:4-6` says each is applied that is greater than the current version.
* The provenance lines of evidence are printed and not charged, so that an answer prints more than the
  "total token budget for all output" of `retrieval.py:809` (`reading` with `PrintedWithinBudget`).
* An event is extracted by the durable branches, which `triage.py:26` reserves to manual intent,
  corrections and the fix combination (`reading` with `EventsExtractOnly`). Boilerplate returns before
  "Manual intent always extracts" (`triage.py:287`; `reading` with `ManualExtracts`).
* With `cache_size=0`, documented to disable caching (`config.py:122`), every `embed_many` raises at
  `embedding.py:139`, and so does one with more distinct new texts than the cache holds, although
  `embedding.py:109` promises one vector per text (`reading` with `EmbedAnswers`).
* Evidence that two of the first K relations share is printed, and charged, under each of them. The
  separators between gathered paragraphs are not charged to the limit of a chunk, which
  `chunking.py:68-70` gives as a ceiling.
* Two ingests of one file that read the same version supersede nothing of each other.
* The weakest full-text match is normalised to 0 and so ranks as no match. An older version of a
  section is shown when the newest no longer matches, or lies beyond the rows that were fetched.
