--------------------------- MODULE KnowledgeGraph ---------------------------
(***************************************************************************)
(* The knowledge graph of membox: documents, entities with their aliases,  *)
(* and relations with their evidence and supersession, written by          *)
(* processes that materialise files chunk by chunk (ingest_content, its    *)
(* caller being the queue worker, ingest --sync or ingest-graph).          *)
(*                                                                         *)
(* A chunk is the sequence of triples extracted from it.  Every            *)
(* transaction, and every read whose result a later transaction relies on, *)
(* is one action, so that processes interleave where SQLite lets them; the *)
(* write lock of the connection manager excludes threads, not processes.   *)
(***************************************************************************)
EXTENDS Naturals, Sequences, FiniteSetsExt

CONSTANTS Procs,      \* processes that materialise files
          Names,      \* surface forms of entities
          Norm,       \* [Names -> aliases], normalize_name
          Similar,    \* <<name, canonical>>: same type, cosine over the threshold
          Predicates, \* normalised predicates
          Paths,      \* source paths
          NoPath,     \* a document without source_path
          History,    \* [path -> sequence of the contents the file goes through]
          Env,        \* what may go wrong, a subset of {"fail", "crash"}
          MaxRounds,  \* bound: files materialised
          MaxFaults   \* bound: failed chunks and crashes

Triples == Names \X Predicates \X Names
Aliases == {Norm[n] : n \in Names}

ASSUME NamesAssumption == /\ DOMAIN Norm = Names
                          /\ Similar \subseteq Names \X Names
                          /\ \A n \in Names : <<n, n>> \in Similar
ASSUME HistoryAssumption == History \in [Paths -> Seq(Seq(Seq(Triples))) \ {<<>>}]
ASSUME RoundsAssumption == MaxRounds \in Nat /\ MaxFaults \in Nat

NoEntity == 0
NoRelation == 0
NullVersion == 0

VARIABLES edition,  \* the content each file has now
          docs,     \* documents
          entity,   \* entities: the canonical name of each id
          alias,    \* entity_aliases
          rels,     \* relations, with relation_evidence
          pc,       \* where each process is
          job,      \* what it materialises
          rounds,   \* ghost: files materialised so far
          faults    \* ghost: failed chunks and crashes so far

graph == <<docs, entity, alias, rels>>
vars == <<edition, docs, entity, alias, rels, pc, job, rounds, faults>>

NoJob == [path |-> NoPath, chunks |-> <<>>, version |-> NullVersion, doc |-> 0, names |-> {},
          ids |-> [n \in Names |-> NoEntity], cur |-> CHOOSE n \in Names : TRUE,
          found |-> NoEntity, triples |-> <<>>]

Init == /\ edition = [f \in Paths |-> 1]
        /\ docs = <<>>
        /\ entity = <<>>
        /\ alias = [a \in Aliases |-> NoEntity]
        /\ rels = <<>>
        /\ pc = [p \in Procs |-> "idle"]
        /\ job = [p \in Procs |-> NoJob]
        /\ rounds = 0
        /\ faults = 0

Goto(p, from, to) == pc[p] = from /\ pc' = [pc EXCEPT ![p] = to]
-----------------------------------------------------------------------------
(* Files and rounds.                                                       *)

\* Somebody edits the file.
Edit(f) == /\ edition[f] < Len(History[f])
           /\ edition' = [edition EXCEPT ![f] = @ + 1]
           /\ UNCHANGED <<graph, pc, job, rounds, faults>>

\* The content is captured when the file is enqueued or read.
Begin(p, f) ==
    /\ rounds < MaxRounds
    /\ Goto(p, "idle", "version")
    /\ job' = [job EXCEPT ![p] = [NoJob EXCEPT !.path = f,
                                               !.chunks = History[f][edition[f]]]]
    /\ rounds' = rounds + 1
    /\ UNCHANGED <<edition, graph, faults>>

End(p) == /\ job[p].chunks = <<>>
          /\ Goto(p, "version", "idle")
          /\ job' = [job EXCEPT ![p] = NoJob]
          /\ UNCHANGED <<edition, graph, rounds, faults>>
-----------------------------------------------------------------------------
(* The document row of a chunk.                                            *)

VersionsOf(f) == {docs[d].version : d \in {e \in DOMAIN docs : docs[e].path = f}}

\* next_version_for reads outside the transaction of the INSERT.
NextVersion(p) ==
    /\ job[p].chunks # <<>>
    /\ Goto(p, "version", "insert")
    /\ LET used == VersionsOf(job[p].path)
       IN  job' = [job EXCEPT ![p].version = IF job[p].path = NoPath THEN NullVersion
                                             ELSE IF used = {} THEN 1 ELSE Max(used) + 1]
    /\ UNCHANGED <<edition, graph, rounds, faults>>

InsertDocument(p) ==
    /\ Goto(p, "insert", "resolve")
    /\ LET chunk == Head(job[p].chunks)
       IN  /\ docs' = Append(docs, [path |-> job[p].path, version |-> job[p].version,
                                    triples |-> chunk])
           /\ job' = [job EXCEPT ![p].doc = Len(docs) + 1, ![p].triples = chunk,
                                 ![p].ids = NoJob.ids,
                                 ![p].names = {chunk[i][1] : i \in DOMAIN chunk} \cup
                                              {chunk[i][3] : i \in DOMAIN chunk}]
    /\ UNCHANGED <<edition, entity, alias, rels, rounds, faults>>
-----------------------------------------------------------------------------
(* find_or_create_entity of each name of the chunk.                        *)

Resolved(p, n, e) == job' = [job EXCEPT ![p].ids[n] = e, ![p].names = @ \ {n}]

\* Layer 1: the alias is bound.
FindAlias(p) ==
    /\ pc[p] = "resolve"
    /\ \E n \in job[p].names : /\ alias[Norm[n]] # NoEntity
                               /\ Resolved(p, n, alias[Norm[n]])
    /\ UNCHANGED <<edition, graph, pc, rounds, faults>>

\* It is not, neither before nor under the write lock.
MissAlias(p) ==
    /\ Goto(p, "resolve", "match")
    /\ \E n \in job[p].names : /\ alias[Norm[n]] = NoEntity
                               /\ job' = [job EXCEPT ![p].cur = n]
    /\ UNCHANGED <<edition, graph, rounds, faults>>

\* Layer 2: find_similar_entity.
Matches(n) == {e \in DOMAIN entity : <<n, entity[e]>> \in Similar}

MatchSimilar(p) ==
    /\ Goto(p, "match", "bind")
    /\ \E e \in Matches(job[p].cur) : job' = [job EXCEPT ![p].found = e]
    /\ UNCHANGED <<edition, graph, rounds, faults>>

MatchNone(p) ==
    /\ Matches(job[p].cur) = {}
    /\ Goto(p, "match", "create")
    /\ UNCHANGED <<edition, graph, job, rounds, faults>>

\* INSERT OR REPLACE.
AddAliasReplaces(p) ==
    /\ Goto(p, "bind", "resolve")
    /\ LET a == Norm[job[p].cur]
       IN  /\ alias' = [alias EXCEPT ![a] = job[p].found]
           /\ Resolved(p, job[p].cur, alias'[a])
    /\ UNCHANGED <<edition, docs, entity, rels, rounds, faults>>

\* INSERT OR IGNORE; the alias is read again, and whoever bound it wins.
AddAlias(p) ==
    /\ Goto(p, "bind", "resolve")
    /\ LET a == Norm[job[p].cur]
       IN  /\ alias' = IF alias[a] = NoEntity THEN [alias EXCEPT ![a] = job[p].found] ELSE alias
           /\ Resolved(p, job[p].cur, alias'[a])
    /\ UNCHANGED <<edition, docs, entity, rels, rounds, faults>>

\* Layer 3: create_entity.  The name is new: the row is inserted, the alias
\* bound unless another process has bound it.
CreateEntity(p) ==
    /\ Goto(p, "create", "resolve")
    /\ \A e \in DOMAIN entity : entity[e] # job[p].cur
    /\ LET a == Norm[job[p].cur]
           new == Len(entity) + 1
       IN  /\ entity' = Append(entity, job[p].cur)
           /\ alias' = IF alias[a] = NoEntity THEN [alias EXCEPT ![a] = new] ELSE alias
           /\ Resolved(p, job[p].cur, new)
    /\ UNCHANGED <<edition, docs, rels, rounds, faults>>

\* IntegrityError: _resolve_race_winner looks for the alias, then the name.
LoseRace(p) ==
    /\ Goto(p, "create", "resolve")
    /\ \E e \in DOMAIN entity :
          /\ entity[e] = job[p].cur
          /\ LET bound == alias[Norm[job[p].cur]]
             IN  Resolved(p, job[p].cur, IF bound # NoEntity THEN bound ELSE e)
    /\ UNCHANGED <<edition, graph, rounds, faults>>

ResolveEnd(p) ==
    /\ job[p].names = {}
    /\ Goto(p, "resolve", "relate")
    /\ UNCHANGED <<edition, graph, job, rounds, faults>>
-----------------------------------------------------------------------------
(* upsert_relation, one transaction for each triple.                       *)

SameEnds(r, s, q, t) == r.source = s /\ r.predicate = q /\ r.target = t

\* Only the INSERT of a new row links the document.
WithEvidenceOnce(s, q, t, d) ==
    IF \E i \in DOMAIN rels : SameEnds(rels[i], s, q, t) THEN rels
    ELSE Append(rels, [source |-> s, predicate |-> q, target |-> t, by |-> NoRelation,
                       evidence |-> {d}])

\* The row of the triple, with the document as evidence: INSERT OR IGNORE.
WithEvidence(s, q, t, d) ==
    IF \E i \in DOMAIN rels : SameEnds(rels[i], s, q, t)
    THEN [i \in DOMAIN rels |->
             IF SameEnds(rels[i], s, q, t) THEN [rels[i] EXCEPT !.evidence = @ \cup {d}]
             ELSE rels[i]]
    ELSE Append(rels, [source |-> s, predicate |-> q, target |-> t, by |-> NoRelation,
                       evidence |-> {d}])

\* Whatever the path; whether superseded already or not.
OutdatedAnywhere(r, s, q, t, d) ==
    /\ r.source = s /\ r.predicate = q /\ r.target # t
    /\ r.by = NoRelation
    /\ \E e \in r.evidence : docs[e].version < docs[d].version

OutdatedAgain(r, s, q, t, d) ==
    /\ r.source = s /\ r.predicate = q /\ r.target # t
    /\ \E e \in r.evidence : docs[e].path = docs[d].path /\ docs[e].version < docs[d].version

\* Supersession detection: what says something else, of the same source and
\* predicate, on the evidence of an older version of the same path.
Outdated(r, s, q, t, d) ==
    /\ r.source = s /\ r.predicate = q /\ r.target # t
    /\ r.by = NoRelation
    /\ \E e \in r.evidence : docs[e].path = docs[d].path /\ docs[e].version < docs[d].version

Upserted(s, q, t, d) ==
    LET linked == WithEvidence(s, q, t, d)
    IN  \E rid \in DOMAIN linked :
           /\ SameEnds(linked[rid], s, q, t)
           /\ rels' = [i \in DOMAIN linked |->
                          IF docs[d].path # NoPath /\ Outdated(linked[i], s, q, t, d)
                          THEN [linked[i] EXCEPT !.by = rid] ELSE linked[i]]

UpsertRelation(p) ==
    /\ pc[p] = "relate"
    /\ job[p].triples # <<>>
    /\ LET triple == Head(job[p].triples)
       IN  Upserted(job[p].ids[triple[1]], triple[2], job[p].ids[triple[3]], job[p].doc)
    /\ job' = [job EXCEPT ![p].triples = Tail(@)]
    /\ UNCHANGED <<edition, docs, entity, alias, pc, rounds, faults>>

\* The chunk that follows, with a version of its own.
LeaveChunk(p) == job' = [job EXCEPT ![p].chunks = Tail(@), ![p].doc = 0, ![p].names = {},
                                    ![p].triples = <<>>]

ChunkEnd(p) ==
    /\ job[p].triples = <<>>
    /\ Goto(p, "relate", "version")
    /\ LeaveChunk(p)
    /\ UNCHANGED <<edition, graph, rounds, faults>>
-----------------------------------------------------------------------------
(* What goes wrong.                                                        *)

\* Extraction or the store raises: the error is kept in the results, what
\* the chunk has written stays, the next chunk is tried.
FailChunk(p) ==
    /\ "fail" \in Env
    /\ faults < MaxFaults
    /\ job[p].chunks # <<>>
    /\ Goto(p, pc[p], "version")
    /\ LeaveChunk(p)
    /\ faults' = faults + 1
    /\ UNCHANGED <<edition, graph, rounds>>

Crash(p) ==
    /\ "crash" \in Env
    /\ faults < MaxFaults
    /\ pc[p] # "idle"
    /\ Goto(p, pc[p], "idle")
    /\ job' = [job EXCEPT ![p] = NoJob]
    /\ faults' = faults + 1
    /\ UNCHANGED <<edition, graph, rounds>>
-----------------------------------------------------------------------------
Ingest(p) == \/ End(p) \/ NextVersion(p) \/ InsertDocument(p)
             \/ FindAlias(p) \/ MissAlias(p) \/ MatchSimilar(p) \/ MatchNone(p)
             \/ AddAlias(p) \/ CreateEntity(p) \/ LoseRace(p) \/ ResolveEnd(p)
             \/ UpsertRelation(p) \/ ChunkEnd(p)

Next == \/ \E f \in Paths : Edit(f)
        \/ \E p \in Procs : \/ \E f \in Paths : Begin(p, f)
                            \/ Ingest(p) \/ FailChunk(p) \/ Crash(p)

Spec == Init /\ [][Next]_vars
-----------------------------------------------------------------------------
EntityIds == 1..Len(entity)
DocIds == 1..Len(docs)
RelationIds == 1..Len(rels)

TypeOK ==
    /\ edition \in [Paths -> Nat]
    /\ \A d \in DOMAIN docs : docs[d] \in [path : Paths, version : Nat, triples : Seq(Triples)]
    /\ entity \in Seq(Names)
    /\ alias \in [Aliases -> EntityIds \cup {NoEntity}]
    /\ \A i \in DOMAIN rels : rels[i] \in [source : EntityIds, predicate : Predicates,
                                           target : EntityIds,
                                           by : RelationIds \cup {NoRelation},
                                           evidence : SUBSET DocIds]
    /\ pc \in [Procs -> {"idle", "version", "insert", "resolve", "match", "bind", "create",
                         "relate"}]
    /\ \A p \in Procs : job[p].ids \in [Names -> EntityIds \cup {NoEntity}]

(* A superseded relation was replaced by one that says something else of   *)
(* the same source and predicate, on the evidence of a later version of a  *)
(* path it has evidence of itself.                                         *)
SupersededByNewer ==
    \A i \in DOMAIN rels : rels[i].by # NoRelation =>
        LET old == rels[i]
            new == rels[rels[i].by]
        IN  /\ new.source = old.source /\ new.predicate = old.predicate
            /\ new.target # old.target
            /\ \E d \in old.evidence, e \in new.evidence :
                  docs[d].path = docs[e].path /\ docs[d].version < docs[e].version

(* A relation that was superseded keeps its first replacement: the UPDATE  *)
(* is conditioned on superseded_by IS NULL, "a lost race is ignored".      *)
FirstReplacementStays ==
    [][\A i \in DOMAIN rels : rels[i].by # NoRelation => rels'[i].by = rels[i].by]_vars

(* An alias stays bound to the entity it was first bound to: names that    *)
(* another ingest resolved to it keep their meaning.                       *)
AliasStays == [][\A a \in Aliases : alias[a] # NoEntity => alias'[a] = alias[a]]_vars

\* The entity has the name, up to normalisation or similarity.
Means(e, n) == \/ Norm[entity[e]] = Norm[n]
               \/ \E m \in Names : Norm[m] = Norm[n] /\ <<m, entity[e]>> \in Similar

(* Without failures, every triple of a document nobody is working on is a  *)
(* relation between entities of its names, with the document as evidence,  *)
(* although other processes create and bind the same names meanwhile.      *)
EvidenceComplete ==
    faults = 0 =>
        \A d \in DOMAIN docs : (\A p \in Procs : job[p].doc # d) =>
            \A k \in DOMAIN docs[d].triples :
                LET triple == docs[d].triples[k]
                IN  \E i \in DOMAIN rels : /\ d \in rels[i].evidence
                                           /\ Means(rels[i].source, triple[1])
                                           /\ rels[i].predicate = triple[2]
                                           /\ Means(rels[i].target, triple[3])

(* Between ingests, what the newest version of a file says is active, and  *)
(* so found by a query.                                                    *)
NewestStands ==
    (\A p \in Procs : pc[p] = "idle") =>
        \A i \in DOMAIN rels :
            (\E d \in rels[i].evidence :
                \A e \in DOMAIN docs : docs[e].path = docs[d].path =>
                                          docs[e].version <= docs[d].version)
            => rels[i].by = NoRelation
=============================================================================
