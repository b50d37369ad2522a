------------------------------ MODULE StoreOpen ------------------------------
(***************************************************************************)
(* Opening one database: KnowledgeStore.__init__ applies the migrations    *)
(* that PRAGMA user_version says are missing, then checks the embedder     *)
(* against the one recorded in meta and records it.  Several processes     *)
(* open, use, close and are killed; the version and the record are each    *)
(* read outside the transaction that writes.                               *)
(***************************************************************************)
EXTENDS Naturals, FiniteSets, Sequences

CONSTANTS Procs,     \* processes that open the database
          Embedders, \* embedders they are configured with
          NoEmbedder,\* a store opened without one
          Unrecorded,\* meta has no embedder
          OldVersions, \* user_version of the databases there are before
          MaxRows,   \* bound: rows of a content table
          MaxInserts,\* bound: rows inserted altogether
          MaxOpens,  \* bound: opens
          MaxFaults  \* bound: failed statements and kills

ASSUME EmbedderAssumption == /\ NoEmbedder \notin Embedders
                             /\ Unrecorded \notin Embedders \cup {NoEmbedder}
ASSUME OldAssumption == OldVersions \subseteq 0..9
ASSUME OpenBoundsAssumption == MaxRows \in Nat /\ MaxInserts \in Nat /\ MaxOpens \in Nat /\ MaxFaults \in Nat
-----------------------------------------------------------------------------
(* What each migration creates, and the tables it alters or reads.         *)

Tables(names) == names \X {"table"}
Columns(table, names) == {table} \X names
Index(table) == {table} \X {"fts", "fts_trigram"}

M0001 == Tables({"documents", "entities", "entity_aliases", "relations", "relation_evidence"})
M0002 == Columns("documents", {"project", "source_path", "section", "doc_date", "version"})
            \cup Tables({"meta"})
M0003 == Columns("relations", {"embedding"}) \cup {<<"documents", "fts">>}
M0004 == Tables({"ingest_queue"})
M0005 == {<<"documents", "fts_trigram">>}
M0006 == Tables({"history_sessions", "history_messages", "history_events",
                 "history_import_state"})
            \cup Index("history_messages") \cup Index("history_events")
M0007 == Columns("relations", {"superseded_by"})
M0008 == Tables({"history_triage", "memory_units", "memory_unit_sources",
                 "memory_unit_labels", "memory_unit_status_log"})
            \cup Index("memory_units")
M0009 == Columns("memory_units", {"why", "how_to_apply", "next_step"})

MIGRATIONS == <<M0001, M0002, M0003, M0004, M0005, M0006, M0007, M0008, M0009>>
Latest == 9
Versions == 1..Latest
UpTo(v) == UNION {MIGRATIONS[w] : w \in 1..v}
Everything == UpTo(Latest)

\* The tables a migration alters or copies from: their statements fail without them.
Needs(v) == Tables(CASE v = 2 -> {"documents"}
                     [] v = 3 -> {"documents", "relations"}
                     [] v = 5 -> {"documents"}
                     [] v = 7 -> {"relations"}
                     [] v = 9 -> {"memory_units"}
                     [] OTHER -> {})

ContentTables == {"documents", "history_messages", "history_events", "memory_units"}
Indexes == UNION {Index(t) : t \in ContentTables}

\* Mutant: the trigram index of documents starts empty.
BackfilledOnce(v) == IF v = 3 THEN {<<"documents", "fts">>} ELSE {}

\* The indexes a migration fills with the rows there are: those of documents,
\* which is older than its indexes.
Backfilled(v) == CASE v = 3 -> {<<"documents", "fts">>}
                   [] v = 5 -> {<<"documents", "fts_trigram">>}
                   [] OTHER -> {}
-----------------------------------------------------------------------------
VARIABLES version,  \* PRAGMA user_version
          schema,   \* tables, added columns and indexes with their triggers
          rows,     \* rows of each content table
          entries,  \* of each index, how often each row is in it
          meta,     \* the embedder recorded
          pc,       \* where each process is
          emb,      \* the embedder it is configured with
          current,  \* apply_migrations: the version it believes the database has
          seen,     \* ghost: the record it met when it checked
          inserts,  \* ghost: rows inserted so far
          opens,    \* ghost: opens so far
          faults    \* ghost: faults so far

db == <<version, schema, rows, entries, meta>>
vars == <<db, pc, emb, current, seen, inserts, opens, faults>>

Row == 1..MaxRows

\* A new file, one of before the version was kept, or one of an earlier release.
Init == /\ version \in {0} \cup OldVersions
        /\ schema \in {UpTo(version)} \cup (IF version = 0 THEN {M0001} ELSE {})
        /\ \E n \in 0..MaxRows :
              rows = [t \in ContentTables |-> IF <<t, "table">> \in schema THEN n ELSE 0]
        /\ entries = [i \in Indexes |-> [r \in Row |->
                         IF i \in schema /\ r <= rows[i[1]] THEN 1 ELSE 0]]
        /\ meta \in {Unrecorded} \cup (IF version >= 2 THEN Embedders ELSE {})
        /\ pc = [p \in Procs |-> "closed"]
        /\ emb = [p \in Procs |-> NoEmbedder]
        /\ current = [p \in Procs |-> 0]
        /\ seen = [p \in Procs |-> Unrecorded]
        /\ inserts = 0
        /\ opens = 0
        /\ faults = 0

Goto(p, from, to) == pc[p] = from /\ pc' = [pc EXCEPT ![p] = to]

\* The store is gone with what it had read.
Ends(p) == /\ pc' = [pc EXCEPT ![p] = "closed"]
           /\ emb' = [emb EXCEPT ![p] = NoEmbedder]
           /\ current' = [current EXCEPT ![p] = 0]
           /\ seen' = [seen EXCEPT ![p] = Unrecorded]
-----------------------------------------------------------------------------
(* apply_migrations                                                        *)

\* KnowledgeStore(db_path, embedder) reads the version.
Open(p) == /\ opens < MaxOpens
           /\ Goto(p, "closed", "migrate")
           /\ emb' \in {[emb EXCEPT ![p] = e] : e \in Embedders \cup {NoEmbedder}}
           /\ current' = [current EXCEPT ![p] = version]
           /\ opens' = opens + 1
           /\ UNCHANGED <<db, seen, inserts, faults>>

\* Mutant: the version goes to the latest with the first migration.
ApplyBumpingFirst(p) ==
    LET v == current[p] + 1
    IN  /\ pc[p] = "migrate" /\ v \in Versions
        /\ Needs(v) \subseteq schema
        /\ schema' = schema \cup MIGRATIONS[v]
        /\ entries' = [i \in Indexes |-> [r \in Row |->
                          IF i \in Backfilled(v) /\ r <= rows[i[1]] THEN entries[i][r] + 1
                          ELSE entries[i][r]]]
        /\ version' = Latest
        /\ current' = [current EXCEPT ![p] = v]
        /\ UNCHANGED <<rows, meta, pc, emb, seen, inserts, opens, faults>>

\* One migration, as a transaction with the version bump.  Tables, columns and
\* indexes that exist are left; the backfill is repeated.
Apply(p) ==
    LET v == current[p] + 1
    IN  /\ pc[p] = "migrate" /\ v \in Versions
        /\ Needs(v) \subseteq schema
        /\ schema' = schema \cup MIGRATIONS[v]
        /\ entries' = [i \in Indexes |-> [r \in Row |->
                          IF i \in Backfilled(v) /\ r <= rows[i[1]] THEN entries[i][r] + 1
                          ELSE entries[i][r]]]
        /\ version' = v
        /\ current' = [current EXCEPT ![p] = v]
        /\ UNCHANGED <<rows, meta, pc, emb, seen, inserts, opens, faults>>

\* A statement fails: the transaction is rolled back and the open raises.
ApplyFails(p) == /\ pc[p] = "migrate" /\ current[p] + 1 \in Versions
                 /\ IF Needs(current[p] + 1) \subseteq schema
                    THEN faults < MaxFaults /\ faults' = faults + 1
                    ELSE UNCHANGED faults
                 /\ Ends(p)
                 /\ UNCHANGED <<db, inserts, opens>>

\* Mutants: the last migration is not waited for; the header is waited for, which
\* another process takes back.
MigratedEarly(p) == /\ current[p] >= Latest - 1
                    /\ Goto(p, "migrate", IF emb[p] = NoEmbedder THEN "open" ELSE "check")
                    /\ UNCHANGED <<db, emb, current, seen, inserts, opens, faults>>
MigratedByHeader(p) == /\ current[p] >= Latest /\ version >= Latest
                       /\ Goto(p, "migrate", IF emb[p] = NoEmbedder THEN "open" ELSE "check")
                       /\ UNCHANGED <<db, emb, current, seen, inserts, opens, faults>>

Migrated(p) == /\ current[p] >= Latest
               /\ Goto(p, "migrate", IF emb[p] = NoEmbedder THEN "open" ELSE "check")
               /\ UNCHANGED <<db, emb, current, seen, inserts, opens, faults>>
-----------------------------------------------------------------------------
(* check_embedder_guard and record_embedder_meta                           *)

CheckPasses(p) == /\ meta \in {Unrecorded, emb[p]}
                  /\ Goto(p, "check", "record")
                  /\ seen' = [seen EXCEPT ![p] = meta]
                  /\ UNCHANGED <<db, emb, current, inserts, opens, faults>>

\* The SELECT raises: the guard returns as if nothing were recorded.
CheckSkipped(p) == /\ faults < MaxFaults
                   /\ Goto(p, "check", "record")
                   /\ faults' = faults + 1
                   /\ UNCHANGED <<db, emb, current, seen, inserts, opens>>

\* EmbedderMismatchError
CheckRaises(p) == /\ meta \notin {Unrecorded, emb[p]}
                  /\ pc[p] = "check" /\ Ends(p)
                  /\ UNCHANGED <<db, inserts, opens, faults>>

\* Mutant: INSERT OR REPLACE
RecordReplacing(p) == /\ Goto(p, "record", "open")
                      /\ meta' = emb[p]
                      /\ UNCHANGED <<version, schema, rows, entries, emb, current, seen, inserts, opens, faults>>

\* INSERT OR IGNORE
Record(p) == /\ Goto(p, "record", "open")
             /\ meta' = IF meta = Unrecorded THEN emb[p] ELSE meta
             /\ UNCHANGED <<version, schema, rows, entries, emb, current, seen, inserts, opens, faults>>

\* The database is locked: the exception is swallowed.
RecordFails(p) == /\ faults < MaxFaults
                  /\ Goto(p, "record", "open")
                  /\ faults' = faults + 1
                  /\ UNCHANGED <<db, emb, current, seen, inserts, opens>>
-----------------------------------------------------------------------------
(* Use of the open store, close, kill.                                     *)

\* The triggers of the indexes that are there add the row to them.
Insert(p, t) ==
    /\ pc[p] = "open"
    /\ <<t, "table">> \in schema /\ rows[t] < MaxRows
    /\ inserts < MaxInserts /\ inserts' = inserts + 1
    /\ rows' = [rows EXCEPT ![t] = @ + 1]
    /\ entries' = [i \in Indexes |->
                     IF i \in Index(t) \cap schema
                     THEN [entries[i] EXCEPT ![rows[t] + 1] = @ + 1]
                     ELSE entries[i]]
    /\ UNCHANGED <<version, schema, meta, pc, emb, current, seen, opens, faults>>

Close(p) == /\ pc[p] = "open" /\ Ends(p)
            /\ UNCHANGED <<db, inserts, opens, faults>>

Crash(p) == /\ faults < MaxFaults
            /\ pc[p] # "closed" /\ Ends(p)
            /\ faults' = faults + 1
            /\ UNCHANGED <<db, inserts, opens>>

Step(p) == \/ Apply(p) \/ ApplyFails(p) \/ Migrated(p)
           \/ CheckPasses(p) \/ CheckSkipped(p) \/ CheckRaises(p) \/ Record(p) \/ RecordFails(p)

Next == \E p \in Procs : \/ Open(p) \/ Step(p)
                         \/ \E t \in ContentTables : Insert(p, t)
                         \/ Close(p) \/ Crash(p)

Spec == Init /\ [][Next]_vars

\* Opening is straight-line code of one process.
FairSpec == Spec /\ \A p \in Procs : WF_vars(Step(p))
-----------------------------------------------------------------------------
(* Properties.                                                             *)

\* The values the header, the tables and the processes may hold.
TypeOK == /\ version \in 0..Latest
          /\ schema \subseteq Everything
          /\ rows \in [ContentTables -> 0..MaxRows]
          /\ entries \in [Indexes -> [Row -> Nat]]
          /\ meta \in Embedders \cup {Unrecorded}
          /\ pc \in [Procs -> {"closed", "migrate", "check", "record", "open"}]
          /\ emb \in [Procs -> Embedders \cup {NoEmbedder}]
          /\ current \in [Procs -> 0..Latest]
          /\ seen \in [Procs -> Embedders \cup {Unrecorded}]
          /\ inserts \in Nat /\ opens \in Nat /\ faults \in Nat

\* user_version never claims a migration that is not there, although a second
\* process applies migrations again and takes the version back meanwhile, and
\* whoever is killed half-way: the next open repeats what may be missing.
VersionTruthful == UpTo(version) \subseteq schema

\* A process that has opened the store finds every table, column and index.
OpenIsComplete == \A p \in Procs : pc[p] \in {"check", "record", "open"} => schema = Everything

\* Every row is in every index there is of its table, so that search can find it:
\* backfilled when it is older than the index, added by the trigger otherwise.
IndexesCover == \A t \in ContentTables : \A i \in Index(t) \cap schema :
                    \A r \in 1..rows[t] : entries[i][r] > 0

\* A process whose check met a record works with the embedder that is recorded
\* now: nobody replaces a record that others have been let in by.
CheckedMatch == \A p \in Procs : pc[p] \in {"record", "open"} /\ seen[p] # Unrecorded =>
                    seen[p] = emb[p] /\ meta = emb[p]

\* meta_guard.py:93 says of an INSERT that is ignored: "the guard in
\* check_embedder_guard would have raised if they differed", so that whoever has
\* opened the store with an embedder works with the recorded one.  The check is a
\* read outside the transaction of the record: two processes may both find nothing
\* recorded, and the second is let in with another embedder.
GuardRaises == \A p \in Procs : pc[p] = "open" /\ emb[p] # NoEmbedder => meta = emb[p]

\* Every open ends, in an open store or with an exception, however often other
\* processes take the version back.
OpensEnd == \A p \in Procs : pc[p] \in {"migrate", "check", "record"} ~> pc[p] \in {"open", "closed"}
=============================================================================
