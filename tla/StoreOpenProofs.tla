---------------------------- MODULE StoreOpenProofs ----------------------------
(***************************************************************************)
(* Theorems about StoreOpen, for any number of processes, embedders, rows, *)
(* opens and faults.                                                       *)
(***************************************************************************)
EXTENDS StoreOpen, TLAPS
-----------------------------------------------------------------------------
(* Facts about the migrations.                                             *)

LEMMA UpToStep == \A v \in 0..8 : UpTo(v + 1) = UpTo(v) \cup MIGRATIONS[v + 1]
<1> SUFFICES ASSUME NEW v \in 0..8 PROVE UpTo(v + 1) = UpTo(v) \cup MIGRATIONS[v + 1]
  OBVIOUS
<1>1. 1..(v + 1) = 1..v \cup {v + 1}
  OBVIOUS
<1> QED BY <1>1 DEF UpTo

LEMMA UpToWithin == \A v \in 0..9 : UpTo(v) \subseteq Everything
<1> SUFFICES ASSUME NEW v \in 0..9 PROVE UpTo(v) \subseteq Everything
  OBVIOUS
<1>1. 1..v \subseteq 1..9
  OBVIOUS
<1> QED BY <1>1 DEF UpTo, Everything, Latest

LEMMA MigrationWithin == \A v \in Versions : MIGRATIONS[v] \subseteq Everything
  BY DEF UpTo, Everything, Latest, Versions

LEMMA Listed ==
  /\ MIGRATIONS[1] = M0001 /\ MIGRATIONS[2] = M0002 /\ MIGRATIONS[3] = M0003
  /\ MIGRATIONS[4] = M0004 /\ MIGRATIONS[5] = M0005 /\ MIGRATIONS[6] = M0006
  /\ MIGRATIONS[7] = M0007 /\ MIGRATIONS[8] = M0008 /\ MIGRATIONS[9] = M0009
  BY DEF MIGRATIONS

LEMMA VersionsListed == Versions = {1, 2, 3, 4, 5, 6, 7, 8, 9}
  BY DEF Versions, Latest

\* The tables that are created with their indexes.
Young == {"history_messages", "history_events", "memory_units"}

LEMMA TablesOfContent == ContentTables = Young \cup {"documents"}
  BY DEF ContentTables, Young

LEMMA IndexNames == \A t \in ContentTables : Index(t) = {<<t, "fts">>, <<t, "fts_trigram">>}
  BY DEF Index

LEMMA IndexOf == \A t \in ContentTables : \A i \in Index(t) : i \in Indexes /\ i[1] = t
  BY IndexNames DEF Indexes

LEMMA IndexTable == \A i \in Indexes : i[1] \in ContentTables /\ i \in Index(i[1])
  BY IndexNames DEF Indexes

LEMMA YoungTogether ==
  \A v \in Versions : \A t \in Young :
    <<t, "table">> \in MIGRATIONS[v] => Index(t) \subseteq MIGRATIONS[v]
<1> SUFFICES ASSUME NEW v \in Versions, NEW t \in Young, <<t, "table">> \in MIGRATIONS[v]
             PROVE  Index(t) \subseteq MIGRATIONS[v]
  OBVIOUS
<1>1. v \in {1, 2, 3, 4, 5, 7, 9} => <<t, "table">> \notin MIGRATIONS[v]
  BY Listed DEF M0001, M0002, M0003, M0004, M0005, M0007, M0009, Tables, Columns, Young
<1>2. v = 6 => Index(t) \subseteq MIGRATIONS[v]
  <2> SUFFICES ASSUME v = 6 PROVE Index(t) \subseteq M0006
    BY Listed
  <2>1. t # "memory_units"
    BY Listed, <<t, "table">> \in M0006 DEF M0006, Tables, Index
  <2> QED BY <2>1 DEF M0006, Young
<1>3. v = 8 => Index(t) \subseteq MIGRATIONS[v]
  <2> SUFFICES ASSUME v = 8 PROVE Index(t) \subseteq M0008
    BY Listed
  <2>1. t = "memory_units"
    BY Listed, <<t, "table">> \in M0008 DEF M0008, Tables, Index, Young
  <2> QED BY <2>1 DEF M0008
<1> QED BY <1>1, <1>2, <1>3, VersionsListed

\* An index that a migration adds is backfilled by it, or of a table that was created with it.
LEMMA NewIndexes ==
  \A v \in Versions : \A i \in Indexes \cap MIGRATIONS[v] : i \in Backfilled(v) \/ i[1] \in Young
<1> SUFFICES ASSUME NEW v \in Versions, NEW i \in Indexes, i \in MIGRATIONS[v], i[1] = "documents"
             PROVE  i \in Backfilled(v)
  BY IndexTable, TablesOfContent
<1>1. i \in {<<"documents", "fts">>, <<"documents", "fts_trigram">>}
  BY IndexTable, IndexNames
<1>2. v = 3 => i \in Backfilled(v)
  BY <1>1, Listed DEF M0003, Columns, Backfilled
<1>3. v = 5 => i \in Backfilled(v)
  BY <1>1, Listed DEF M0005, Backfilled
<1>4. v \in {1, 4, 6, 8} => i \notin MIGRATIONS[v]
  BY <1>1, Listed DEF M0001, M0004, M0006, M0008, Tables, Index
<1>5. v \in {2, 7, 9} => i \notin MIGRATIONS[v]
  BY <1>1, Listed DEF M0002, M0007, M0009, Tables, Columns
<1> QED BY <1>2, <1>3, <1>4, <1>5, VersionsListed
-----------------------------------------------------------------------------
(* The invariant.                                                          *)

\* What a process believes the database has is there, whatever the header says.
CurrentTruthful == \A p \in Procs : UpTo(current[p]) \subseteq schema

\* Past apply_migrations all migrations are believed to be there.
Reached == \A p \in Procs : pc[p] \in {"check", "record", "open"} => current[p] = Latest

\* A young table is there with its indexes, or not there and without rows.
YoungIndexed == \A t \in Young : \A i \in Index(t) :
                   i \in schema \/ (<<t, "table">> \notin schema /\ rows[t] = 0)

\* The embedder check has not been made, or has been made by a process with one.
Unchecked == \A p \in Procs : /\ pc[p] \in {"closed", "migrate", "check"} => seen[p] = Unrecorded
                              /\ pc[p] \in {"check", "record"} => emb[p] \in Embedders

Schema == VersionTruthful /\ CurrentTruthful /\ Reached /\ OpenIsComplete
Guard == Unchecked /\ CheckedMatch
Search == YoungIndexed /\ IndexesCover

\* A row has its entry in an index.
Indexed(i) == \A r \in 1..rows[i[1]] : entries[i][r] > 0

LEMMA CoverByIndex == IndexesCover <=> \A i \in Indexes \cap schema : Indexed(i)
<1>1. ASSUME IndexesCover, NEW i \in Indexes \cap schema PROVE Indexed(i)
  BY <1>1, IndexTable DEF IndexesCover, Indexed
<1>2. ASSUME \A i \in Indexes \cap schema : Indexed(i) PROVE IndexesCover
  <2> SUFFICES ASSUME NEW t \in ContentTables, NEW i \in Index(t) \cap schema, NEW r \in 1..rows[t]
               PROVE  entries[i][r] > 0
    BY DEF IndexesCover
  <2> QED BY <1>2, IndexOf DEF Indexed
<1> QED BY <1>1, <1>2
-----------------------------------------------------------------------------
(* The initial states.                                                     *)

LEMMA InitTypes == Init => TypeOK
<1> SUFFICES ASSUME Init PROVE TypeOK
  OBVIOUS
<1>1. version \in 0..9
  BY OldAssumption DEF Init
<1>2. schema \subseteq Everything
  <2>1. M0001 \subseteq Everything
    BY MigrationWithin, Listed, VersionsListed
  <2> QED BY <2>1, <1>1, UpToWithin DEF Init
<1>3. rows \in [ContentTables -> 0..MaxRows]
  <2>1. PICK n \in 0..MaxRows : rows = [t \in ContentTables |-> IF <<t, "table">> \in schema THEN n ELSE 0]
    BY DEF Init
  <2>2. 0 \in 0..MaxRows
    BY OpenBoundsAssumption
  <2> QED BY <2>1, <2>2
<1>4. entries \in [Indexes -> [Row -> Nat]]
  BY DEF Init
<1> QED BY <1>1, <1>2, <1>3, <1>4 DEF Init, TypeOK, Latest

LEMMA InitSchema == Init => Schema
<1> SUFFICES ASSUME Init PROVE Schema
  OBVIOUS
<1>1. UpTo(0) = {}
  BY DEF UpTo
<1>2. VersionTruthful
  BY <1>1 DEF Init, VersionTruthful
<1> QED BY <1>1, <1>2 DEF Init, Schema, CurrentTruthful, Reached, OpenIsComplete

\* A young table comes with its indexes.
LEMMA UpToYoung ==
  \A v \in 0..9 : \A t \in Young : <<t, "table">> \in UpTo(v) => Index(t) \subseteq UpTo(v)
<1> SUFFICES ASSUME NEW v \in 0..9, NEW t \in Young, <<t, "table">> \in UpTo(v)
             PROVE  Index(t) \subseteq UpTo(v)
  OBVIOUS
<1>1. PICK w \in 1..v : <<t, "table">> \in MIGRATIONS[w]
  BY DEF UpTo
<1>2. Index(t) \subseteq MIGRATIONS[w]
  BY <1>1, YoungTogether DEF Versions, Latest
<1> QED BY <1>2 DEF UpTo

LEMMA InitSearch == Init => Search
<1> SUFFICES ASSUME Init PROVE Search
  OBVIOUS
<1>1. YoungIndexed
  <2> SUFFICES ASSUME NEW t \in Young, NEW i \in Index(t), i \notin schema
               PROVE  <<t, "table">> \notin schema /\ rows[t] = 0
    BY DEF YoungIndexed
  <2>1. <<t, "table">> \notin schema
    <3>1. CASE schema = UpTo(version)
      BY <3>1, UpToYoung, OldAssumption DEF Init
    <3>2. CASE schema = M0001
      BY <3>2 DEF M0001, Tables, Young
    <3> QED BY <3>1, <3>2 DEF Init
  <2> QED BY <2>1, TablesOfContent DEF Init
<1>2. ASSUME NEW i \in Indexes \cap schema PROVE Indexed(i)
  <2>1. rows[i[1]] \in 0..MaxRows
    BY InitTypes, IndexTable DEF TypeOK
  <2> SUFFICES ASSUME NEW r \in 1..rows[i[1]] PROVE entries[i][r] > 0
    BY DEF Indexed
  <2>2. r \in Row /\ r <= rows[i[1]]
    BY <2>1, OpenBoundsAssumption DEF Row
  <2> QED BY <2>2 DEF Init
<1> QED BY <1>1, <1>2, CoverByIndex DEF Search

LEMMA InitGuard == Init => Guard
  BY DEF Init, Guard, Unchecked, CheckedMatch
-----------------------------------------------------------------------------
(* The steps.                                                              *)

\* What a step of the embedder check, of closing or of being killed leaves alone.
Elsewhere == UNCHANGED <<version, schema, rows, entries>>

LEMMA StepTypes == TypeOK /\ Unchecked /\ [Next]_vars => TypeOK'
<1> SUFFICES ASSUME TypeOK, Unchecked, [Next]_vars PROVE TypeOK'
  OBVIOUS
<1> USE DEF TypeOK
<1>1. ASSUME NEW p \in Procs, Open(p) PROVE TypeOK'
  BY <1>1 DEF Open, Goto, db, Latest
<1>2. ASSUME NEW p \in Procs, Apply(p) PROVE TypeOK'
  <2> DEFINE v == current[p] + 1
  <2>1. v \in Versions
    BY <1>2 DEF Apply
  <2>2. schema' \subseteq Everything
    BY <1>2, <2>1, MigrationWithin DEF Apply
  <2>3. entries' \in [Indexes -> [Row -> Nat]]
    BY <1>2 DEF Apply
  <2>4. version' \in 0..Latest /\ current' \in [Procs -> 0..Latest]
    BY <1>2, <2>1 DEF Apply, Versions, Latest
  <2> QED BY <1>2, <2>2, <2>3, <2>4 DEF Apply
<1>3. ASSUME NEW p \in Procs, ApplyFails(p) PROVE TypeOK'
  BY <1>3 DEF ApplyFails, Ends, db, Latest
<1>4. ASSUME NEW p \in Procs, Migrated(p) PROVE TypeOK'
  BY <1>4 DEF Migrated, Goto, db
<1>5. ASSUME NEW p \in Procs, CheckPasses(p) PROVE TypeOK'
  BY <1>5 DEF CheckPasses, Goto, db
<1>6. ASSUME NEW p \in Procs, CheckSkipped(p) PROVE TypeOK'
  BY <1>6 DEF CheckSkipped, Goto, db
<1>7. ASSUME NEW p \in Procs, CheckRaises(p) PROVE TypeOK'
  BY <1>7 DEF CheckRaises, Ends, db, Latest
<1>8. ASSUME NEW p \in Procs, Record(p) PROVE TypeOK'
  BY <1>8 DEF Record, Goto, Unchecked
<1>9. ASSUME NEW p \in Procs, RecordFails(p) PROVE TypeOK'
  BY <1>9 DEF RecordFails, Goto, db
<1>10. ASSUME NEW p \in Procs, NEW t \in ContentTables, Insert(p, t) PROVE TypeOK'
  <2>1. rows' \in [ContentTables -> 0..MaxRows]
    BY <1>10, OpenBoundsAssumption DEF Insert
  <2>2. ASSUME NEW i \in Indexes PROVE [entries[i] EXCEPT ![rows[t] + 1] = @ + 1] \in [Row -> Nat]
    <3>1. entries[i] \in [Row -> Nat]
      OBVIOUS
    <3> DEFINE e == entries[i] n == rows[t] + 1
    <3>2. n \in Row => e[n] + 1 \in Nat
      BY <3>1
    <3>3. e \in [Row -> Nat]
      BY <3>1
    <3> HIDE DEF e, n
    <3> QED BY <3>2, <3>3, [e EXCEPT ![n] = @ + 1] \in [Row -> Nat] DEF e, n
  <2>3. entries' = [i \in Indexes |-> IF i \in Index(t) \cap schema
                                     THEN [entries[i] EXCEPT ![rows[t] + 1] = @ + 1]
                                     ELSE entries[i]]
    BY <1>10 DEF Insert
  <2>4. entries' \in [Indexes -> [Row -> Nat]]
    BY <2>2, <2>3
  <2> QED BY <1>10, <2>1, <2>4 DEF Insert
<1>11. ASSUME NEW p \in Procs, Close(p) PROVE TypeOK'
  BY <1>11 DEF Close, Ends, db, Latest
<1>12. ASSUME NEW p \in Procs, Crash(p) PROVE TypeOK'
  BY <1>12 DEF Crash, Ends, db, Latest
<1>13. CASE UNCHANGED vars
  BY <1>13 DEF vars, db
<1> QED BY <1>1, <1>2, <1>3, <1>4, <1>5, <1>6, <1>7, <1>8, <1>9, <1>10, <1>11, <1>12, <1>13 DEF Next, Step

\* The version, the schema and what the processes believe of them.
LEMMA StepSchema == TypeOK /\ Schema /\ [Next]_vars => Schema'
<1> SUFFICES ASSUME TypeOK, Schema, [Next]_vars PROVE Schema'
  OBVIOUS
<1>0. UpTo(0) = {}
  BY DEF UpTo
<1> USE DEF Schema, VersionTruthful, CurrentTruthful, Reached, OpenIsComplete
<1>1. ASSUME NEW p \in Procs, Open(p) PROVE Schema'
  BY <1>1 DEF TypeOK, Open, Goto, db
<1>2. ASSUME NEW p \in Procs, Apply(p) PROVE Schema'
  <2> DEFINE v == current[p] + 1
  <2>1. v \in Versions /\ current[p] \in 0..8
    BY <1>2 DEF TypeOK, Apply, Versions, Latest
  <2>2. UpTo(v) \subseteq schema'
    BY <1>2, <2>1, UpToStep DEF Apply
  <2>3. schema \subseteq schema' /\ schema' \subseteq schema \cup Everything
    BY <1>2, <2>1, MigrationWithin DEF Apply
  <2>4. pc[p] = "migrate"
    BY <1>2 DEF Apply
  <2>5. version' = v /\ pc' = pc /\ current' = [current EXCEPT ![p] = v]
    BY <1>2 DEF Apply
  <2> HIDE DEF v
  <2>6. \A q \in Procs : q # p => current'[q] = current[q]
    BY <2>5 DEF TypeOK
  <2>7. current'[p] = v
    BY <2>5 DEF TypeOK
  <2>8. CurrentTruthful'
    BY <2>2, <2>3, <2>6, <2>7
  <2>9. Reached'
    BY <2>4, <2>5, <2>6
  <2>10. OpenIsComplete'
    BY <2>3, <2>5
  <2> QED BY <2>2, <2>5, <2>8, <2>9, <2>10
<1>3. ASSUME NEW p \in Procs, Migrated(p) PROVE Schema'
  <2>1. current[p] = Latest /\ UpTo(Latest) = Everything
    BY <1>3 DEF Migrated, TypeOK, Everything, Latest
  <2>2. schema = Everything
    BY <2>1 DEF TypeOK
  <2> QED BY <1>3, <2>1, <2>2 DEF Migrated, Goto, db, TypeOK
<1>4. ASSUME Elsewhere, NEW p \in Procs, Ends(p) PROVE Schema'
  BY <1>0, <1>4 DEF Elsewhere, Ends, TypeOK
<1>5. ASSUME Elsewhere, UNCHANGED current, NEW p \in Procs,
             Goto(p, "check", "record") \/ Goto(p, "record", "open")
      PROVE  Schema'
  BY <1>5 DEF Elsewhere, Goto, TypeOK
<1>6. ASSUME NEW p \in Procs, NEW t \in ContentTables, Insert(p, t) PROVE Schema'
  BY <1>6 DEF Insert
<1>7. CASE UNCHANGED vars
  BY <1>7 DEF vars, db
<1>8. ASSUME NEW p \in Procs, ApplyFails(p) \/ CheckRaises(p) \/ Close(p) \/ Crash(p)
      PROVE  Elsewhere /\ Ends(p)
  BY <1>8 DEF ApplyFails, CheckRaises, Close, Crash, db, Elsewhere
<1>9. ASSUME NEW p \in Procs, CheckPasses(p) \/ CheckSkipped(p) \/ Record(p) \/ RecordFails(p)
      PROVE  /\ Elsewhere /\ UNCHANGED current
             /\ Goto(p, "check", "record") \/ Goto(p, "record", "open")
  BY <1>9 DEF CheckPasses, CheckSkipped, Record, RecordFails, db, Elsewhere
<1> QED BY <1>1, <1>2, <1>3, <1>4, <1>5, <1>6, <1>7, <1>8, <1>9 DEF Next, Step

\* The rows and the indexes.
LEMMA StepSearch == TypeOK /\ Search /\ [Next]_vars => Search'
<1> SUFFICES ASSUME TypeOK, Search, [Next]_vars PROVE Search'
  OBVIOUS
<1>0. ASSUME Elsewhere PROVE Search'
  BY <1>0 DEF Elsewhere, Search, YoungIndexed, IndexesCover
<1>1. ASSUME NEW p \in Procs, Apply(p) PROVE Search'
  <2> DEFINE v == current[p] + 1
  <2>1. v \in Versions /\ schema' = schema \cup MIGRATIONS[v] /\ rows' = rows
    BY <1>1 DEF Apply
  <2>2. \A i \in Indexes : \A r \in Row :
          entries'[i][r] = IF i \in Backfilled(v) /\ r <= rows[i[1]] THEN entries[i][r] + 1
                           ELSE entries[i][r]
    BY <1>1 DEF Apply
  <2> HIDE DEF v
  <2>3. YoungIndexed'
    BY <2>1, YoungTogether DEF Search, YoungIndexed
  <2>4. ASSUME NEW i \in Indexes, i \in schema' PROVE Indexed(i)'
    <3> SUFFICES ASSUME NEW r \in 1..rows[i[1]] PROVE entries'[i][r] > 0
      BY <2>1 DEF Indexed
    <3>1. rows[i[1]] \in 0..MaxRows
      BY IndexTable DEF TypeOK
    <3>2. r \in Row /\ r <= rows[i[1]]
      BY <3>1, OpenBoundsAssumption DEF Row
    <3>3. entries[i][r] \in Nat
      BY <3>2 DEF TypeOK
    <3>4. CASE i \in schema
      <4>1. entries[i][r] > 0
        BY <3>4, CoverByIndex DEF Search, Indexed
      <4> QED BY <2>2, <3>2, <3>3, <4>1
    <3>5. CASE i \notin schema
      <4>1. i \in Backfilled(v) \/ i[1] \in Young
        BY <2>1, <2>4, <3>5, NewIndexes
      <4>2. CASE i \in Backfilled(v)
        BY <2>2, <3>2, <3>3, <4>2
      <4>3. CASE i[1] \in Young
        <5>1. rows[i[1]] = 0
          BY <3>5, <4>3, IndexTable DEF Search, YoungIndexed
        <5> QED BY <5>1
      <4> QED BY <4>1, <4>2, <4>3
    <3> QED BY <3>4, <3>5
  <2>5. IndexesCover'
    <3> SUFFICES ASSUME NEW t \in ContentTables, NEW i \in Index(t), i \in schema',
                        NEW r \in 1..rows'[t]
                 PROVE  entries'[i][r] > 0
      BY DEF IndexesCover
    <3> QED BY <2>4, IndexOf DEF Indexed
  <2> QED BY <2>3, <2>5 DEF Search
<1>2. ASSUME NEW p \in Procs, NEW t \in ContentTables, Insert(p, t) PROVE Search'
  <2>1. /\ schema' = schema /\ <<t, "table">> \in schema
        /\ rows' = [rows EXCEPT ![t] = @ + 1] /\ rows[t] \in 0..MaxRows /\ rows[t] < MaxRows
    BY <1>2 DEF Insert, TypeOK
  <2>2. \A i \in Indexes : \A r \in Row :
          entries'[i][r] = IF i \in Index(t) \cap schema /\ r = rows[t] + 1 THEN entries[i][r] + 1
                           ELSE entries[i][r]
    BY <1>2 DEF Insert, TypeOK
  <2>3. YoungIndexed'
    BY <2>1, TablesOfContent DEF Search, YoungIndexed, TypeOK
  <2>4. ASSUME NEW u \in ContentTables, NEW i \in Index(u), i \in schema, NEW r \in 1..rows'[u]
        PROVE  entries'[i][r] > 0
    <3>1. i \in Indexes /\ i[1] = u
      BY IndexOf
    <3>2. rows[u] \in 0..MaxRows /\ rows'[u] \in 0..MaxRows
      BY <2>1, OpenBoundsAssumption DEF TypeOK
    <3>3. r \in Row /\ entries[i][r] \in Nat
      BY <3>1, <3>2, OpenBoundsAssumption DEF Row, TypeOK
    <3>4. CASE u = t /\ r = rows[t] + 1
      BY <2>2, <2>4, <3>1, <3>3, <3>4
    <3>5. CASE ~(u = t /\ r = rows[t] + 1)
      <4>1. r \in 1..rows[u]
        <5>1. u = t => rows'[u] = rows[u] + 1
          BY <2>1 DEF TypeOK
        <5>2. u # t => rows'[u] = rows[u]
          BY <2>1 DEF TypeOK
        <5> DEFINE a == rows[u] b == rows'[u]
        <5>3. a \in Nat /\ b \in Nat /\ r \in 1..b
          BY <3>2
        <5>4. (u = t => b = a + 1) /\ (u # t => b = a) /\ (u = t => r # a + 1)
          BY <3>5, <5>1, <5>2
        <5> HIDE DEF a, b
        <5>5. r \in 1..a
          BY <5>3, <5>4
        <5> QED BY <5>5 DEF a
      <4>2. entries[i][r] > 0
        BY <2>4, <4>1 DEF Search, IndexesCover
      <4>3. entries'[i][r] = entries[i][r]
        <5>1. i \in Index(t) => u = t
          BY <3>1, IndexOf
        <5> QED BY <2>2, <3>1, <3>3, <3>5, <5>1
      <4> QED BY <4>2, <4>3
    <3> QED BY <3>4, <3>5
  <2> QED BY <2>1, <2>3, <2>4 DEF Search, IndexesCover
<1>3. CASE UNCHANGED vars
  BY <1>0, <1>3 DEF vars, db, Elsewhere
<1>4. ASSUME NEW p \in Procs, Open(p) \/ ApplyFails(p) \/ Migrated(p) \/ CheckPasses(p)
                                \/ CheckSkipped(p) \/ CheckRaises(p) \/ Record(p)
                                \/ RecordFails(p) \/ Close(p) \/ Crash(p)
      PROVE  Elsewhere
  BY <1>4 DEF Open, ApplyFails, Migrated, CheckPasses, CheckSkipped, CheckRaises, Record,
              RecordFails, Close, Crash, db, Elsewhere
<1> QED BY <1>0, <1>1, <1>2, <1>3, <1>4 DEF Next, Step

\* The embedder check.  A record that a process was let in by is never replaced.
LEMMA StepGuard == TypeOK /\ Guard /\ [Next]_vars => Guard'
<1> SUFFICES ASSUME TypeOK, Guard, [Next]_vars PROVE Guard'
  OBVIOUS
<1> USE DEF Guard, Unchecked, CheckedMatch
<1>1. ASSUME NEW p \in Procs, Open(p) PROVE Guard'
  <2>1. PICK e \in Embedders \cup {NoEmbedder} : emb' = [emb EXCEPT ![p] = e]
    BY <1>1 DEF Open
  <2> QED BY <1>1, <2>1 DEF Open, Goto, db, TypeOK
<1>2. ASSUME NEW p \in Procs, Apply(p) PROVE Guard'
  BY <1>2 DEF Apply
<1>3. ASSUME NEW p \in Procs, Migrated(p) PROVE Guard'
  BY <1>3 DEF Migrated, Goto, db, TypeOK
<1>4. ASSUME NEW p \in Procs, CheckPasses(p) PROVE Guard'
  BY <1>4 DEF CheckPasses, Goto, db, TypeOK
<1>5. ASSUME NEW p \in Procs, CheckSkipped(p) PROVE Guard'
  BY <1>5 DEF CheckSkipped, Goto, db, TypeOK
<1>6. ASSUME NEW p \in Procs, Record(p) PROVE Guard'
  <2>1. \A q \in Procs : pc[q] \in {"record", "open"} /\ seen[q] # Unrecorded => meta' = meta
    BY <1>6 DEF Record, TypeOK
  <2> QED BY <1>6, <2>1 DEF Record, Goto, TypeOK
<1>7. ASSUME NEW p \in Procs, RecordFails(p) PROVE Guard'
  BY <1>7 DEF RecordFails, Goto, db, TypeOK
<1>8. ASSUME NEW p \in Procs, NEW t \in ContentTables, Insert(p, t) PROVE Guard'
  BY <1>8 DEF Insert
<1>9. ASSUME NEW p \in Procs, ApplyFails(p) \/ CheckRaises(p) \/ Close(p) \/ Crash(p) PROVE Guard'
  <2>1. Ends(p) /\ meta' = meta
    BY <1>9 DEF ApplyFails, CheckRaises, Close, Crash, db
  <2> QED BY <2>1 DEF Ends, TypeOK
<1>10. CASE UNCHANGED vars
  BY <1>10 DEF vars, db
<1> QED BY <1>1, <1>2, <1>3, <1>4, <1>5, <1>6, <1>7, <1>8, <1>9, <1>10 DEF Next, Step
-----------------------------------------------------------------------------
(* The theorems.                                                           *)

Inv == TypeOK /\ Schema /\ Search /\ Guard

LEMMA Invariant == Spec => []Inv
<1>1. Init => Inv
  BY InitTypes, InitSchema, InitSearch, InitGuard DEF Inv
<1>2. Inv /\ [Next]_vars => Inv'
  BY StepTypes, StepSchema, StepSearch, StepGuard DEF Inv, Guard
<1> QED BY <1>1, <1>2, PTL DEF Spec

\* The header, the tables, the indexes and the processes hold what they may, however
\* many processes open the database (KnowledgeStore.__init__).
THEOREM TypesHold == Spec => []TypeOK
  BY Invariant, PTL DEF Inv

\* user_version never claims a migration that is not in the schema, although a
\* process that read it before may take it back (apply_migrations).
THEOREM VersionHolds == Spec => []VersionTruthful
<1>1. Inv => VersionTruthful
  BY DEF Inv, Schema
<1> QED BY <1>1, Invariant, PTL

\* Who is past apply_migrations finds every table, column and index there is.
THEOREM OpenHolds == Spec => []OpenIsComplete
<1>1. Inv => OpenIsComplete
  BY DEF Inv, Schema
<1> QED BY <1>1, Invariant, PTL

\* Every row is in every index of its table that exists, by the backfill of the
\* migration that made the index or by the trigger that came with it.
THEOREM CoverHolds == Spec => []IndexesCover
<1>1. Inv => IndexesCover
  BY DEF Inv, Search
<1> QED BY <1>1, Invariant, PTL

\* A process that met a record of the embedder works with that embedder, and the
\* record stays (check_embedder_guard, record_embedder_meta).
THEOREM GuardHolds == Spec => []CheckedMatch
<1>1. Inv => CheckedMatch
  BY DEF Inv, Guard
<1> QED BY <1>1, Invariant, PTL
=============================================================================
