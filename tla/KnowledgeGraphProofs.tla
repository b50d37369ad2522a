------------------------- MODULE KnowledgeGraphProofs -------------------------
(***************************************************************************)
(* Theorems about KnowledgeGraph for any processes, names, files, failures *)
(* and any similarity of names.                                            *)
(***************************************************************************)
EXTENDS KnowledgeGraph, SequenceTheorems, WellFoundedInduction, TLAPS

USE NamesAssumption, HistoryAssumption, RoundsAssumption

Doc == [path : Paths, version : Nat, triples : Seq(Triples)]
Relation(e, r, d) == [source : 1..e, predicate : Predicates, target : 1..e, by : 0..r,
                      evidence : SUBSET (1..d)]
AnyName == NoJob.cur
Job == [path : Paths \cup {NoPath}, chunks : Seq(Seq(Triples)), version : Nat, doc : Nat,
        names : SUBSET Names, ids : [Names -> Nat], cur : Names \cup {AnyName}, found : Nat,
        triples : Seq(Triples)]
Working == {"resolve", "match", "bind", "create", "relate"}
Steps == Working \cup {"idle", "version", "insert"}

\* What a process knows of its own work when it is at a step.
StageOK(at, j) ==
    /\ at # "idle" => j.path \in Paths
    /\ at = "idle" => j.chunks = <<>>
    /\ at \in Working \cup {"insert"} => j.chunks # <<>>
    /\ at \in {"match", "bind", "create"} => j.cur \in Names
    /\ at \notin Working => j.doc = 0
    /\ at = "relate" => j.names = {}
    /\ at \in Working => \A i \in DOMAIN j.triples :
                            \A n \in {j.triples[i][1], j.triples[i][3]} :
                               n \in j.names \/ j.ids[n] # NoEntity

Control == /\ edition \in [Paths -> Nat]
           /\ \A f \in Paths : edition[f] \in 1..Len(History[f])
           /\ pc \in [Procs -> Steps]
           /\ job \in [Procs -> Job]
           /\ \A p \in Procs : StageOK(pc[p], job[p])
           /\ rounds \in Nat /\ faults \in Nat

Tables == /\ docs \in Seq(Doc)
          /\ \A d \in DOMAIN docs : docs[d].version <= Len(docs)
          /\ entity \in Seq(Names)
          /\ alias \in [Aliases -> 0..Len(entity)]
          /\ rels \in Seq(Relation(Len(entity), Len(rels), Len(docs)))

\* An entity of this name may bear the alias: it is its own, or that of a similar name.
Leads(name, a) == Norm[name] = a \/ \E m \in Names : Norm[m] = a /\ <<m, name>> \in Similar

\* What a process has read of d documents and the entities ent.
KnownIn(at, j, d, ent) ==
    /\ j.version <= d + 1
    /\ at \in Working => j.doc \in 1..d
    /\ at = "bind" => /\ j.found \in 1..Len(ent)
                      /\ <<j.cur, ent[j.found]>> \in Similar
    /\ \A n \in Names : j.ids[n] # NoEntity => /\ j.ids[n] \in 1..Len(ent)
                                               /\ Leads(ent[j.ids[n]], Norm[n])
Known(at, j) == KnownIn(at, j, Len(docs), entity)

Meaning == /\ \A p \in Procs : Known(pc[p], job[p])
           /\ \A a \in Aliases : alias[a] # NoEntity => Leads(entity[alias[a]], a)

Base == Control /\ Tables /\ Meaning
-----------------------------------------------------------------------------
(* Facts about sequences and greatest elements.                            *)

LEMMA FunctionIsSeq ==
    ASSUME NEW n \in Nat, NEW S, NEW f \in [1..n -> S]
    PROVE  f \in Seq(S) /\ Len(f) = n
<1>1. f \in Seq(S)
    BY SeqDef
<1>2. DOMAIN f = 1..n /\ DOMAIN f = 1..Len(f) /\ Len(f) \in Nat
    BY <1>1, LenProperties
<1> QED BY <1>1, <1>2

LEMMA MaxNat ==
    ASSUME NEW S \in SUBSET Nat, S # {}, NEW b \in Nat, \A x \in S : x <= b
    PROVE  Max(S) \in S /\ \A x \in S : x <= Max(S)
<1> DEFINE below == {b - x : x \in S}
<1>1. below \subseteq Nat /\ below # {}
    <2>1. \A x \in S : b - x \in Nat
        OBVIOUS
    <2> QED BY <2>1
<1>2. PICK n \in below : \A k \in below : <<k, n>> \notin OpToRel(<, Nat)
    <2> HIDE DEF below
    <2> QED BY <1>1, NatLessThanWellFounded, WFMin
<1>3. \A k \in below : ~(k < n)
    <2> HIDE DEF below
    <2> QED BY <1>1, <1>2 DEF OpToRel
<1>4. PICK m \in S : n = b - m
    OBVIOUS
<1>5. \A x \in S : m >= x
    <2>1. \A x \in S : ~(b - x < b - m)
        BY <1>3, <1>4
    <2> HIDE DEF below
    <2> QED BY <2>1
<1>6. \A x \in S : Max(S) \in S /\ Max(S) >= x
    BY <1>5 DEF Max
<1> QED BY <1>6
-----------------------------------------------------------------------------
(* What a process does, with its own place and work.                       *)

LEMMA NoJobType == NoJob \in Job /\ StageOK("idle", NoJob) /\ NoJob.doc = 0
<1>1. <<>> \in Seq(Triples) /\ <<>> \in Seq(Seq(Triples))
    BY EmptySeq
<1> QED BY <1>1 DEF NoJob, Job, AnyName, StageOK, Working, NullVersion, NoEntity

LEMMA InitControl == Init => Control
<1> SUFFICES ASSUME Init PROVE Control
    OBVIOUS
<1>1. \A f \in Paths : 1 \in 1..Len(History[f])
    <2> SUFFICES ASSUME NEW f \in Paths PROVE 1 \in 1..Len(History[f])
        OBVIOUS
    <2> DEFINE S == Seq(Seq(Triples))
    <2>1. History[f] \in Seq(S) /\ History[f] # <<>>
        OBVIOUS
    <2> HIDE DEF S
    <2> QED BY <2>1, EmptySeq
<1> QED BY <1>1, NoJobType DEF Init, Control, Steps
-----------------------------------------------------------------------------
(* A step of one process.                                                  *)

LEMMA Moves ==
    ASSUME Control, NEW p \in Procs, NEW at \in Steps, NEW j \in Job, StageOK(at, j),
           pc' = [pc EXCEPT ![p] = at], job' = [job EXCEPT ![p] = j],
           edition' = edition, rounds' \in Nat, faults' \in Nat
    PROVE  Control' /\ pc'[p] = at /\ job'[p] = j
<1> USE DEF Control
<1>1. /\ pc' \in [Procs -> Steps] /\ job' \in [Procs -> Job]
      /\ \A q \in Procs : pc'[q] = IF q = p THEN at ELSE pc[q]
      /\ \A q \in Procs : job'[q] = IF q = p THEN j ELSE job[q]
    OBVIOUS
<1>2. \A q \in Procs : StageOK(pc'[q], job'[q])
    BY <1>1
<1> QED BY <1>1, <1>2

LEMMA HeadTail ==
    ASSUME NEW S, NEW s \in Seq(S), s # <<>>
    PROVE  /\ Head(s) \in S /\ Tail(s) \in Seq(S) /\ Head(s) = s[1]
           /\ \A i \in DOMAIN Tail(s) : i + 1 \in DOMAIN s /\ Tail(s)[i] = s[i + 1]
           /\ \A i \in DOMAIN s : i = 1 \/ (i - 1 \in DOMAIN Tail(s) /\ s[i] = Tail(s)[i - 1])
<1>1. Len(s) \in Nat /\ DOMAIN s = 1..Len(s)
    BY LenProperties
<1>2. /\ Head(s) \in S /\ Tail(s) \in Seq(S) /\ Len(Tail(s)) = Len(s) - 1
      /\ \A i \in 1..Len(Tail(s)) : Tail(s)[i] = s[i + 1]
    BY HeadTailProperties
<1>3. DOMAIN Tail(s) = 1..Len(Tail(s))
    BY <1>2, LenProperties
<1>4. Head(s) = s[1]
    OBVIOUS
<1> QED BY <1>1, <1>2, <1>3, <1>4

\* The work of a process, in the terms the steps need.
LEMMA WorkType ==
    ASSUME Base, NEW p \in Procs
    PROVE  /\ job[p] \in Job /\ StageOK(pc[p], job[p]) /\ Known(pc[p], job[p])
           /\ pc[p] \in Steps
    BY DEF Base, Control, Meaning

\* There is a highest version of a path.
LEMMA VersionBound ==
    ASSUME Base, NEW f, VersionsOf(f) # {}
    PROVE  Max(VersionsOf(f)) \in VersionsOf(f) /\ Max(VersionsOf(f)) \in Nat
           /\ Max(VersionsOf(f)) <= Len(docs)
<1>1. /\ Len(docs) \in Nat
      /\ \A d \in DOMAIN docs : docs[d].version \in Nat /\ docs[d].version <= Len(docs)
    <2>1. docs \in Seq(Doc) /\ Len(docs) \in Nat /\ DOMAIN docs = 1..Len(docs)
        BY LenProperties DEF Base, Tables
    <2>2. \A d \in DOMAIN docs : docs[d] \in Doc
        BY <2>1, ElementOfSeq
    <2> QED BY <2>1, <2>2 DEF Base, Tables, Doc
<1>2. VersionsOf(f) \subseteq Nat /\ \A v \in VersionsOf(f) : v <= Len(docs)
    BY <1>1 DEF VersionsOf
<1> QED BY <1>1, <1>2, MaxNat

LEMMA NextVersionValue ==
    ASSUME Base, NEW p \in Procs, NextVersion(p)
    PROVE  \E v \in Nat : /\ v <= Len(docs) + 1
                          /\ job' = [job EXCEPT ![p] = [job[p] EXCEPT !.version = v]]
<1> DEFINE used == VersionsOf(job[p].path)
           v == IF job[p].path = NoPath THEN NullVersion
                ELSE IF used = {} THEN 1 ELSE Max(used) + 1
<1>1. Len(docs) \in Nat
    BY LenProperties DEF Base, Tables
<1>2. used # {} => Max(used) \in Nat /\ Max(used) <= Len(docs)
    BY VersionBound
<1>3. job' = [job EXCEPT ![p] = [job[p] EXCEPT !.version = v]]
    BY DEF NextVersion
<1> HIDE DEF used
<1>4. v \in Nat /\ v <= Len(docs) + 1
    BY <1>1, <1>2 DEF NullVersion
<1> QED BY <1>3, <1>4

NamesIn(chunk) == {chunk[i][1] : i \in DOMAIN chunk} \cup {chunk[i][3] : i \in DOMAIN chunk}
Inserted(j) == [j EXCEPT !.doc = Len(docs) + 1, !.triples = Head(j.chunks), !.ids = NoJob.ids,
                         !.names = NamesIn(Head(j.chunks))]

LEMMA ChunkNames ==
    ASSUME NEW chunk \in Seq(Triples)
    PROVE  NamesIn(chunk) \subseteq Names
<1>1. \A i \in DOMAIN chunk : chunk[i] \in Triples
    BY LenProperties, ElementOfSeq
<1>2. \A t \in Triples : t[1] \in Names /\ t[3] \in Names
    BY DEF Triples
<1> QED BY <1>1, <1>2 DEF NamesIn

LEMMA InsertedWork ==
    ASSUME Base, NEW p \in Procs, InsertDocument(p)
    PROVE  /\ job' = [job EXCEPT ![p] = Inserted(job[p])]
           /\ pc[p] = "insert" /\ pc' = [pc EXCEPT ![p] = "resolve"]
           /\ Inserted(job[p]) \in Job /\ StageOK("resolve", Inserted(job[p]))
           /\ Head(job[p].chunks) \in Seq(Triples)
<1> DEFINE j == job[p]
<1>1. pc[p] = "insert" /\ pc' = [pc EXCEPT ![p] = "resolve"]
    BY DEF InsertDocument, Goto
<1>2. job' = [job EXCEPT ![p] = Inserted(j)]
    <2>1. job' = [job EXCEPT ![p] = [job[p] EXCEPT !.doc = Len(docs) + 1,
                      !.triples = Head(job[p].chunks), !.ids = NoJob.ids,
                      !.names = NamesIn(Head(job[p].chunks))]]
        BY DEF InsertDocument, NamesIn
    <2> QED BY <2>1 DEF Inserted
<1>3. j \in Job /\ j.chunks # <<>> /\ j.path \in Paths
    BY <1>1, WorkType DEF StageOK, Working
<1>4. Head(j.chunks) \in Seq(Triples)
    <2> DEFINE S == Seq(Triples)
    <2>1. j.chunks \in Seq(S)
        BY <1>3 DEF Job
    <2> HIDE DEF S
    <2>2. Head(j.chunks) \in S
        BY <2>1, <1>3, HeadTail
    <2> QED BY <2>2 DEF S
<1>5. NamesIn(Head(j.chunks)) \subseteq Names /\ Len(docs) \in Nat
    BY <1>4, ChunkNames, LenProperties DEF Base, Tables
<1>6. NoJob.ids \in [Names -> Nat]
    BY NoJobType DEF Job
<1> HIDE DEF j
<1>7. Inserted(j) \in Job
    <2> DEFINE chunk == Head(j.chunks)
               names == NamesIn(chunk)
               ids == NoJob.ids
               d == Len(docs) + 1
    <2>1. chunk \in Seq(Triples) /\ names \in SUBSET Names /\ ids \in [Names -> Nat] /\ d \in Nat
        BY <1>4, <1>5, <1>6
    <2>2. Inserted(j) = [j EXCEPT !.doc = d, !.triples = chunk, !.ids = ids, !.names = names]
        BY DEF Inserted
    <2> HIDE DEF chunk, names, ids, d
    <2> QED BY <1>3, <2>1, <2>2 DEF Job
<1>8. StageOK("resolve", Inserted(j))
    <2>1. /\ Inserted(j).path = j.path /\ Inserted(j).chunks = j.chunks
          /\ Inserted(j).triples = Head(j.chunks)
          /\ Inserted(j).names = NamesIn(Head(j.chunks))
        BY <1>3 DEF Inserted, Job
    <2>2. \A i \in DOMAIN Inserted(j).triples :
             \A n \in {Inserted(j).triples[i][1], Inserted(j).triples[i][3]} :
                n \in Inserted(j).names
        BY <2>1 DEF NamesIn
    <2> QED BY <1>3, <2>1, <2>2 DEF StageOK, Working
<1> QED BY <1>1, <1>2, <1>4, <1>7, <1>8 DEF j

\* A name is resolved to an entity.
Bound(j, n, e) == [j EXCEPT !.ids = [j.ids EXCEPT ![n] = e], !.names = j.names \ {n}]

LEMMA ResolvedWork ==
    ASSUME Base, NEW p \in Procs, NEW n \in Names, NEW e \in Nat \ {0}, Resolved(p, n, e),
           pc[p] \in Working
    PROVE  /\ job' = [job EXCEPT ![p] = Bound(job[p], n, e)]
           /\ Bound(job[p], n, e) \in Job
           /\ StageOK("resolve", Bound(job[p], n, e))
<1> DEFINE j == job[p]
<1>1. job' = [job EXCEPT ![p] = Bound(j, n, e)]
    <2>1. job' = [job EXCEPT ![p] = [job[p] EXCEPT !.ids = [job[p].ids EXCEPT ![n] = e],
                                                   !.names = job[p].names \ {n}]]
        BY DEF Resolved
    <2> QED BY <2>1 DEF Bound
<1>2. j \in Job /\ StageOK(pc[p], j)
    BY WorkType
<1> HIDE DEF j
<1>3. Bound(j, n, e) \in Job
    BY <1>2 DEF Job, Bound
<1>4. /\ Bound(j, n, e).path = j.path /\ Bound(j, n, e).chunks = j.chunks
      /\ Bound(j, n, e).triples = j.triples /\ Bound(j, n, e).names = j.names \ {n}
      /\ Bound(j, n, e).ids = [j.ids EXCEPT ![n] = e]
    BY <1>2 DEF Bound, Job
<1>5. \A m \in Names : Bound(j, n, e).ids[m] = IF m = n THEN e ELSE j.ids[m]
    BY <1>2, <1>4 DEF Job
<1>6. \A i \in DOMAIN j.triples : j.triples[i] \in Triples
    BY <1>2, LenProperties, ElementOfSeq DEF Job
<1>7. \A i \in DOMAIN j.triples : j.triples[i][1] \in Names /\ j.triples[i][3] \in Names
    BY <1>6 DEF Triples
<1>8. \A i \in DOMAIN j.triples : \A m \in {j.triples[i][1], j.triples[i][3]} :
         m \in j.names \/ j.ids[m] # NoEntity
    BY <1>2 DEF StageOK, Working
<1>9. \A i \in DOMAIN j.triples : \A m \in {j.triples[i][1], j.triples[i][3]} :
         m \in j.names \ {n} \/ Bound(j, n, e).ids[m] # NoEntity
    BY <1>5, <1>7, <1>8 DEF NoEntity
<1>10. StageOK("resolve", Bound(j, n, e))
    BY <1>2, <1>4, <1>9 DEF StageOK, Working
<1> QED BY <1>1, <1>3, <1>10 DEF j
-----------------------------------------------------------------------------
(* The tables grow.                                                        *)

\* Documents and entities are only added.
Grown == /\ Len(docs) <= Len(docs') /\ Len(entity) <= Len(entity')
         /\ \A d \in 1..Len(docs) : docs'[d] = docs[d]
         /\ \A e \in 1..Len(entity) : entity'[e] = entity[e]

LEMMA Lengths ==
    ASSUME Tables
    PROVE  /\ Len(docs) \in Nat /\ DOMAIN docs = 1..Len(docs)
           /\ Len(entity) \in Nat /\ DOMAIN entity = 1..Len(entity)
           /\ Len(rels) \in Nat /\ DOMAIN rels = 1..Len(rels)
           /\ \A d \in 1..Len(docs) : docs[d] \in Doc
           /\ \A e \in 1..Len(entity) : entity[e] \in Names
           /\ \A i \in 1..Len(rels) : rels[i] \in Relation(Len(entity), Len(rels), Len(docs))
    BY LenProperties, ElementOfSeq DEF Tables

LEMMA RelationGrows ==
    \A e, r, d, e2, r2, d2 \in Nat :
        e <= e2 /\ r <= r2 /\ d <= d2 => Relation(e, r, d) \subseteq Relation(e2, r2, d2)
<1> SUFFICES ASSUME NEW e \in Nat, NEW r \in Nat, NEW d \in Nat, NEW e2 \in Nat, NEW r2 \in Nat,
                    NEW d2 \in Nat, e <= e2 /\ r <= r2 /\ d <= d2
             PROVE  Relation(e, r, d) \subseteq Relation(e2, r2, d2)
    OBVIOUS
<1>1. 1..e \subseteq 1..e2 /\ 0..r \subseteq 0..r2 /\ 1..d \subseteq 1..d2
    OBVIOUS
<1> QED BY <1>1 DEF Relation

\* So do sequences of rows: stated with the rows as sets, which the provers match.
LEMMA RowsGrow ==
    ASSUME NEW R, NEW S, R \subseteq S, NEW s \in Seq(R)
    PROVE  s \in Seq(S)
    BY SeqMonotonic

LEMMA KnownGrows ==
    ASSUME NEW at, NEW j \in Job, NEW d \in Nat, NEW d2 \in Nat, d <= d2,
           NEW s \in Seq(Names), NEW t \in Seq(Names), Len(s) <= Len(t),
           \A e \in 1..Len(s) : t[e] = s[e], KnownIn(at, j, d, s)
    PROVE  KnownIn(at, j, d2, t)
<1>1. Len(s) \in Nat /\ Len(t) \in Nat /\ j.version \in Nat
    BY LenProperties DEF Job
<1>2. \A e \in 1..Len(s) : e \in 1..Len(t) /\ t[e] = s[e]
    BY <1>1
<1>3. j.doc \in 1..d => j.doc \in 1..d2
    OBVIOUS
<1>4. ASSUME NEW n \in Names, j.ids[n] # NoEntity
      PROVE  j.ids[n] \in 1..Len(t) /\ Leads(t[j.ids[n]], Norm[n])
    <2>1. j.ids[n] \in 1..Len(s) /\ Leads(s[j.ids[n]], Norm[n])
        BY <1>4 DEF KnownIn
    <2> QED BY <2>1, <1>2
<1>5. at = "bind" => j.found \in 1..Len(t) /\ <<j.cur, t[j.found]>> \in Similar
    <2> SUFFICES ASSUME at = "bind"
                 PROVE  j.found \in 1..Len(t) /\ <<j.cur, t[j.found]>> \in Similar
        OBVIOUS
    <2>1. j.found \in 1..Len(s) /\ <<j.cur, s[j.found]>> \in Similar
        BY DEF KnownIn
    <2> QED BY <2>1, <1>2
<1>6. j.version <= d2 + 1
    BY <1>1 DEF KnownIn
<1> QED BY <1>3, <1>4, <1>5, <1>6 DEF KnownIn

\* One process moves on with what it knows; the others keep their knowledge.
LEMMA Knows ==
    ASSUME Base, Tables', Grown, NEW p \in Procs, NEW at \in Steps, NEW j \in Job,
           StageOK(at, j), KnownIn(at, j, Len(docs'), entity'),
           pc' = [pc EXCEPT ![p] = at], job' = [job EXCEPT ![p] = j],
           edition' = edition, rounds' \in Nat, faults' \in Nat,
           \A a \in Aliases : alias'[a] # NoEntity =>
                                  alias'[a] = alias[a] \/ Leads(entity'[alias'[a]], a)
    PROVE  Base'
<1>1. Control'
    BY Moves DEF Base
<1>2. \A q \in Procs : Known(pc[q], job[q])'
    <2> SUFFICES ASSUME NEW q \in Procs PROVE KnownIn(pc'[q], job'[q], Len(docs'), entity')
        BY DEF Known
    <2>1. CASE q = p
        BY <2>1, <1>1 DEF Base, Control
    <2>2. CASE q # p
        <3>1. pc'[q] = pc[q] /\ job'[q] = job[q] /\ job[q] \in Job
            BY <2>2 DEF Base, Control
        <3>2. KnownIn(pc[q], job[q], Len(docs), entity)
            BY DEF Base, Meaning, Known
        <3>3. /\ Len(docs) \in Nat /\ Len(docs') \in Nat
              /\ entity \in Seq(Names) /\ entity' \in Seq(Names)
            BY LenProperties DEF Base, Tables
        <3>4. KnownIn(pc[q], job[q], Len(docs'), entity')
            BY <3>1, <3>2, <3>3, KnownGrows DEF Grown
        <3> QED BY <3>1, <3>4
    <2> QED BY <2>1, <2>2
<1>3. \A a \in Aliases : alias'[a] # NoEntity => Leads(entity'[alias'[a]], a)
    <2> SUFFICES ASSUME NEW a \in Aliases, alias'[a] # NoEntity
                 PROVE  Leads(entity'[alias'[a]], a)
        OBVIOUS
    <2>1. CASE alias'[a] = alias[a]
        <3>1. alias[a] \in 0..Len(entity) /\ Leads(entity[alias[a]], a)
            BY <2>1 DEF Base, Tables, Meaning
        <3>2. alias[a] \in 1..Len(entity)
            BY <3>1, <2>1 DEF NoEntity
        <3> QED BY <2>1, <3>1, <3>2 DEF Grown
    <2> QED BY <2>1
<1> QED BY <1>1, <1>2, <1>3 DEF Base, Meaning

\* A step that leaves the tables alone.
LEMMA Quiet ==
    ASSUME Base, UNCHANGED graph
    PROVE  /\ Tables' /\ Grown /\ Len(docs') = Len(docs) /\ entity' = entity
           /\ \A a \in Aliases : alias'[a] # NoEntity =>
                                     alias'[a] = alias[a] \/ Leads(entity'[alias'[a]], a)
<1>1. docs' = docs /\ entity' = entity /\ alias' = alias /\ rels' = rels
    BY DEF graph
<1>2. Tables'
    BY <1>1 DEF Base, Tables
<1>3. Grown
    BY <1>1, Lengths DEF Base, Grown
<1> QED BY <1>1, <1>2, <1>3

LEMMA EditStep ==
    ASSUME Base, NEW f \in Paths, Edit(f) PROVE Base'
<1>1. UNCHANGED <<graph, pc, job, rounds, faults>>
    BY DEF Edit
<1>2. \A g \in Paths : edition'[g] \in 1..Len(History[g]) /\ edition'[g] \in Nat
    <2> SUFFICES ASSUME NEW g \in Paths
                 PROVE  edition'[g] \in 1..Len(History[g]) /\ edition'[g] \in Nat
        OBVIOUS
    <2>0. Len(History[g]) \in Nat
        <3> DEFINE S == Seq(Seq(Triples))
        <3>1. History[g] \in Seq(S)
            OBVIOUS
        <3> HIDE DEF S
        <3> QED BY <3>1, LenProperties
    <2>1. edition[g] \in 1..Len(History[g]) /\ edition \in [Paths -> Nat]
        BY DEF Base, Control
    <2>2. edition[f] < Len(History[f]) /\ edition' = [edition EXCEPT ![f] = edition[f] + 1]
        BY DEF Edit
    <2>3. CASE g = f
        <3>1. edition'[g] = edition[g] + 1
            BY <2>1, <2>2, <2>3
        <3> QED BY <2>0, <2>1, <2>2, <2>3, <3>1
    <2>4. CASE g # f
        BY <2>1, <2>2, <2>4
    <2> QED BY <2>3, <2>4
<1>3. edition' \in [Paths -> Nat]
    <2>1. edition \in [Paths -> Nat] /\ edition' = [edition EXCEPT ![f] = edition[f] + 1]
        BY DEF Edit, Base, Control
    <2> QED BY <2>1
<1>4. Control'
    BY <1>1, <1>2, <1>3 DEF Base, Control
<1> QED BY <1>1, <1>4, Quiet DEF Base, Meaning, Known, graph

LEMMA BeginStep ==
    ASSUME Base, NEW p \in Procs, NEW f \in Paths, Begin(p, f)
    PROVE  Base'
<1> DEFINE j == [NoJob EXCEPT !.path = f, !.chunks = History[f][edition[f]]]
<1>1. History[f][edition[f]] \in Seq(Seq(Triples))
    <2> DEFINE S == Seq(Seq(Triples))
    <2>1. History[f] \in Seq(S) /\ edition[f] \in 1..Len(History[f])
        BY DEF Base, Control
    <2> HIDE DEF S
    <2>2. History[f][edition[f]] \in S
        BY <2>1, ElementOfSeq
    <2> QED BY <2>2 DEF S
<1>2. j \in Job /\ StageOK("version", j) /\ j.version = 0 /\ j.ids = [n \in Names |-> 0]
    <2> HIDE DEF j
    <2>1. j = [NoJob EXCEPT !.path = f, !.chunks = History[f][edition[f]]]
        BY DEF j
    <2>2. NoJob.version = 0 /\ NoJob.ids = [n \in Names |-> 0]
        BY DEF NoJob, NullVersion, NoEntity
    <2> QED BY <2>1, <2>2, <1>1, NoJobType DEF Job, StageOK, Working
<1>3. pc' = [pc EXCEPT ![p] = "version"] /\ job' = [job EXCEPT ![p] = j]
    BY DEF Begin, Goto
<1>4. edition' = edition /\ rounds' \in Nat /\ faults' \in Nat /\ UNCHANGED graph
    BY DEF Begin, Base, Control
<1> HIDE DEF j
<1>5. KnownIn("version", j, Len(docs'), entity')
    BY <1>2, <1>4, Quiet, Lengths DEF KnownIn, Working, NoEntity, Base
<1> QED BY <1>2, <1>3, <1>4, <1>5, Quiet, Knows DEF Steps

\* A process that is idle knows nothing.
LEMMA IdleKnows ==
    ASSUME Base, UNCHANGED graph
    PROVE  KnownIn("idle", NoJob, Len(docs'), entity')
<1>1. NoJob.version = 0 /\ NoJob.ids = [n \in Names |-> 0]
    BY DEF NoJob, NullVersion, NoEntity
<1> QED BY <1>1, Quiet, Lengths DEF KnownIn, Working, NoEntity, Base

LEMMA LeaveStep ==
    ASSUME Base, NEW p \in Procs, pc' = [pc EXCEPT ![p] = "idle"],
           job' = [job EXCEPT ![p] = NoJob], faults' \in Nat, UNCHANGED <<edition, graph, rounds>>
    PROVE  Base'
<1>1. edition' = edition /\ rounds' \in Nat /\ UNCHANGED graph
    BY DEF Base, Control
<1> QED BY <1>1, IdleKnows, NoJobType, Quiet, Knows DEF Steps

LEMMA EndStep ==
    ASSUME Base, NEW p \in Procs, End(p) PROVE Base'
<1>1. pc' = [pc EXCEPT ![p] = "idle"] /\ job' = [job EXCEPT ![p] = NoJob]
    BY DEF End, Goto
<1>2. faults' \in Nat /\ UNCHANGED <<edition, graph, rounds>>
    BY DEF End, Base, Control
<1> QED BY <1>1, <1>2, LeaveStep

LEMMA CrashStep ==
    ASSUME Base, NEW p \in Procs, Crash(p) PROVE Base'
<1>1. pc' = [pc EXCEPT ![p] = "idle"] /\ job' = [job EXCEPT ![p] = NoJob]
    BY DEF Crash, Goto
<1>2. faults' \in Nat /\ UNCHANGED <<edition, graph, rounds>>
    BY DEF Crash, Base, Control
<1> QED BY <1>1, <1>2, LeaveStep

LEMMA NextVersionStep ==
    ASSUME Base, NEW p \in Procs, NextVersion(p) PROVE Base'
<1>1. PICK v \in Nat : /\ v <= Len(docs) + 1
                       /\ job' = [job EXCEPT ![p] = [job[p] EXCEPT !.version = v]]
    BY NextVersionValue
<1> DEFINE j == [job[p] EXCEPT !.version = v]
<1>2. pc[p] = "version" /\ job[p].chunks # <<>> /\ pc' = [pc EXCEPT ![p] = "insert"]
    BY DEF NextVersion, Goto
<1>3. j \in Job
    BY WorkType DEF Job
<1>4. StageOK("insert", j)
    BY <1>2, WorkType DEF StageOK, Working, Job
<1>5. edition' = edition /\ rounds' \in Nat /\ faults' \in Nat /\ UNCHANGED graph
    BY DEF NextVersion, Base, Control
<1>6. j.version = v /\ j.ids = job[p].ids
    BY WorkType DEF Job
<1>7. KnownIn("insert", j, Len(docs), entity)
    <2> HIDE DEF j
    <2>1. KnownIn(pc[p], job[p], Len(docs), entity)
        BY WorkType DEF Known
    <2> QED BY <1>1, <1>6, <2>1 DEF KnownIn, Working
<1>8. KnownIn("insert", j, Len(docs'), entity')
    BY <1>5, <1>7, Quiet
<1> QED BY <1>1, <1>2, <1>3, <1>4, <1>5, <1>8, Quiet, Knows DEF Steps

LEMMA InsertTables ==
    ASSUME Base, NEW p \in Procs, InsertDocument(p)
    PROVE  Tables' /\ Grown /\ Len(docs') = Len(docs) + 1 /\ entity' = entity
<1> DEFINE row == [path |-> job[p].path, version |-> job[p].version,
                   triples |-> Head(job[p].chunks)]
<1>1. docs' = Append(docs, row) /\ entity' = entity /\ alias' = alias /\ rels' = rels
    BY DEF InsertDocument
<1>2. row \in Doc /\ row.version <= Len(docs) + 1
    <2>1. job[p].path \in Paths /\ job[p].version \in Nat /\ job[p].version <= Len(docs) + 1
        BY InsertedWork, WorkType DEF StageOK, Known, KnownIn, Job
    <2> QED BY <2>1, InsertedWork DEF Doc
<1> HIDE DEF row
<1>3. /\ docs' \in Seq(Doc) /\ Len(docs') = Len(docs) + 1
      /\ \A d \in 1..Len(docs) : docs'[d] = docs[d]
      /\ docs'[Len(docs) + 1] = row
    BY <1>1, <1>2, AppendProperties DEF Base, Tables
<1>4. DOMAIN docs' = 1..(Len(docs) + 1)
    BY <1>3, LenProperties
<1>5. \A d \in DOMAIN docs' : docs'[d].version <= Len(docs')
    <2> SUFFICES ASSUME NEW d \in DOMAIN docs' PROVE docs'[d].version <= Len(docs')
        OBVIOUS
    <2>0. Len(docs) \in Nat
        BY Lengths DEF Base
    <2>1. CASE d \in 1..Len(docs)
        <3>1. docs[d].version \in Nat /\ docs[d].version <= Len(docs)
            BY <2>1, Lengths DEF Base, Tables, Doc
        <3> QED BY <2>0, <2>1, <3>1, <1>3
    <2>2. CASE d = Len(docs) + 1
        BY <2>2, <1>2, <1>3
    <2> QED BY <2>0, <2>1, <2>2, <1>4
<1>6. rels' \in Seq(Relation(Len(entity'), Len(rels'), Len(docs')))
    <2>1. /\ Len(entity) \in Nat /\ Len(rels) \in Nat /\ Len(docs) \in Nat
          /\ Len(docs) + 1 \in Nat /\ Len(docs) <= Len(docs) + 1
          /\ Len(entity) <= Len(entity) /\ Len(rels) <= Len(rels)
        BY Lengths DEF Base
    <2>2. Relation(Len(entity), Len(rels), Len(docs))
              \subseteq Relation(Len(entity), Len(rels), Len(docs) + 1)
        BY <2>1, RelationGrows
    <2>3. rels \in Seq(Relation(Len(entity), Len(rels), Len(docs) + 1))
        BY <2>2, RowsGrow DEF Base, Tables
    <2> QED BY <2>3, <1>1, <1>3 DEF Base, Tables
<1>7. Tables'
    BY <1>1, <1>3, <1>5, <1>6 DEF Base, Tables
<1>8. Grown
    BY <1>1, <1>3, Lengths DEF Grown, Base
<1> QED BY <1>1, <1>3, <1>7, <1>8

LEMMA InsertStep ==
    ASSUME Base, NEW p \in Procs, InsertDocument(p) PROVE Base'
<1> DEFINE j == Inserted(job[p])
<1>1. edition' = edition /\ rounds' \in Nat /\ faults' \in Nat /\ alias' = alias
    BY DEF InsertDocument, Base, Control
<1>2. /\ j.doc = Len(docs) + 1 /\ j.version = job[p].version
      /\ j.ids = NoJob.ids
    BY WorkType DEF Inserted, Job
<1>3. NoJob.ids = [n \in Names |-> 0]
    BY DEF NoJob, NoEntity
<1>4. job[p].version \in Nat /\ job[p].version <= Len(docs) + 1 /\ Len(docs) \in Nat
    BY WorkType, Lengths DEF Known, KnownIn, Job, Base
<1> HIDE DEF j
<1>5. KnownIn("resolve", j, Len(docs'), entity')
    BY <1>2, <1>3, <1>4, InsertTables DEF KnownIn, NoEntity, Working
<1> QED BY <1>1, <1>5, InsertedWork, InsertTables, Knows DEF Steps, Working, j
-----------------------------------------------------------------------------
(* The resolution of names.                                                *)

\* What the four actions that resolve a name have in common.
Resolves(p) ==
    /\ pc[p] \in Working /\ pc' = [pc EXCEPT ![p] = "resolve"]
    /\ \E n \in Names : \E e \in 1..Len(entity') : Resolved(p, n, e) /\ Leads(entity'[e], Norm[n])
    /\ \A a \in Aliases : alias'[a] # NoEntity =>
                              alias'[a] = alias[a] \/ Leads(entity'[alias'[a]], a)
    /\ Tables' /\ Grown /\ Len(docs') = Len(docs)
    /\ UNCHANGED <<edition, docs, rels, rounds, faults>>

LEMMA ResolvesStep ==
    ASSUME Base, NEW p \in Procs, Resolves(p)
    PROVE  Base'
<1>1. PICK n \in Names : \E e \in 1..Len(entity') : Resolved(p, n, e) /\ Leads(entity'[e], Norm[n])
    BY DEF Resolves
<1>2. PICK e \in 1..Len(entity') : Resolved(p, n, e) /\ Leads(entity'[e], Norm[n])
    BY <1>1
<1>3. Tables' /\ Len(entity') \in Nat /\ Len(docs') \in Nat /\ Len(docs) \in Nat
    BY Lengths, LenProperties DEF Resolves, Tables, Base
<1>4. e \in Nat \ {0}
    BY <1>3
<1> DEFINE j == Bound(job[p], n, e)
<1>5. /\ job' = [job EXCEPT ![p] = j] /\ j \in Job /\ StageOK("resolve", j)
    BY <1>2, <1>4, ResolvedWork DEF Resolves
<1>6. KnownIn(pc[p], job[p], Len(docs'), entity')
    BY <1>3, WorkType, KnownGrows DEF Resolves, Grown, Known, Base, Tables
<1>7. KnownIn("resolve", j, Len(docs'), entity')
    <2>1. /\ j.version = job[p].version /\ j.doc = job[p].doc
          /\ j.ids = [job[p].ids EXCEPT ![n] = e]
          /\ \A m \in Names : j.ids[m] = IF m = n THEN e ELSE job[p].ids[m]
        BY WorkType DEF Bound, Job
    <2>2. pc[p] \in Working
        BY DEF Resolves
    <2> HIDE DEF j
    <2> QED BY <1>2, <1>6, <2>1, <2>2 DEF KnownIn, Working
<1>8. edition' = edition /\ rounds' \in Nat /\ faults' \in Nat
    BY DEF Resolves, Base, Control
<1> HIDE DEF j
<1> QED BY <1>5, <1>7, <1>8, Knows DEF Resolves, Steps, Working

LEMMA NamesHaveAliases == \A n \in Names : Norm[n] \in Aliases
    BY DEF Aliases

LEMMA FindAliasResolves ==
    ASSUME Base, NEW p \in Procs, FindAlias(p) PROVE Resolves(p)
<1>1. pc[p] = "resolve" /\ UNCHANGED <<edition, graph, pc, rounds, faults>>
    BY DEF FindAlias
<1>2. pc' = [pc EXCEPT ![p] = "resolve"]
    BY <1>1, WorkType DEF Base, Control
<1>3. PICK n \in job[p].names : alias[Norm[n]] # NoEntity /\ Resolved(p, n, alias[Norm[n]])
    BY DEF FindAlias
<1>4. n \in Names
    BY WorkType DEF Job
<1>5. alias[Norm[n]] \in 1..Len(entity) /\ Leads(entity[alias[Norm[n]]], Norm[n])
    <2>1. alias[Norm[n]] \in 0..Len(entity)
        BY <1>4, NamesHaveAliases DEF Base, Tables
    <2> QED BY <2>1, <1>3, <1>4, NamesHaveAliases DEF Base, Meaning, NoEntity
<1>6. entity' = entity /\ Len(docs') = Len(docs) /\ Tables' /\ Grown
    BY <1>1, Quiet
<1> QED BY <1>1, <1>2, <1>3, <1>4, <1>5, <1>6, Quiet DEF Resolves, Working, graph

LEMMA AddAliasResolves ==
    ASSUME Base, NEW p \in Procs, AddAlias(p) PROVE Resolves(p)
<1> DEFINE n == job[p].cur
           a == Norm[n]
           e == alias'[a]
<1>1. /\ pc[p] = "bind" /\ pc' = [pc EXCEPT ![p] = "resolve"]
      /\ alias' = IF alias[a] = NoEntity THEN [alias EXCEPT ![a] = job[p].found] ELSE alias
      /\ Resolved(p, n, e)
      /\ UNCHANGED <<edition, docs, entity, rels, rounds, faults>>
    BY DEF AddAlias, Goto
<1>2. n \in Names /\ a \in Aliases
    BY <1>1, WorkType, NamesHaveAliases DEF StageOK
<1>3. job[p].found \in 1..Len(entity) /\ <<n, entity[job[p].found]>> \in Similar
    BY <1>1, WorkType DEF Known, KnownIn
<1>4. Leads(entity[job[p].found], a)
    BY <1>2, <1>3 DEF Leads
<1>5. alias \in [Aliases -> 0..Len(entity)] /\ Len(entity) \in Nat
    BY Lengths DEF Base, Tables
<1> HIDE DEF n, a, e
<1>6. alias' \in [Aliases -> 0..Len(entity)]
    <2>1. job[p].found \in 0..Len(entity)
        BY <1>3, <1>5
    <2>2. CASE alias[a] = NoEntity
        <3>1. alias' = [alias EXCEPT ![a] = job[p].found]
            BY <1>1, <2>2
        <3> QED BY <2>1, <3>1, <1>5
    <2>3. CASE alias[a] # NoEntity
        BY <1>1, <1>5, <2>3
    <2> QED BY <2>2, <2>3
<1>7. \A b \in Aliases : alias'[b] = alias[b] \/ (b = a /\ alias'[b] = job[p].found)
    BY <1>1, <1>2, <1>5
<1>8. e \in 1..Len(entity) /\ Leads(entity[e], a)
    <2>0. e = alias'[a]
        BY DEF e
    <2>1. CASE alias[a] = NoEntity
        BY <2>0, <2>1, <1>1, <1>2, <1>3, <1>4, <1>5
    <2>2. CASE alias[a] # NoEntity
        BY <2>0, <2>2, <1>1, <1>2, <1>5 DEF Base, Meaning, NoEntity
    <2> QED BY <2>1, <2>2
<1>9. Tables' /\ Grown /\ Len(docs') = Len(docs)
    BY <1>1, <1>6, Lengths DEF Base, Tables, Grown
<1>10. \A b \in Aliases : alias'[b] # NoEntity =>
                              alias'[b] = alias[b] \/ Leads(entity'[alias'[b]], b)
    BY <1>1, <1>4, <1>7
<1> QED BY <1>1, <1>2, <1>8, <1>9, <1>10 DEF Resolves, Working, a

LEMMA CreateEntityResolves ==
    ASSUME Base, NEW p \in Procs, CreateEntity(p) PROVE Resolves(p)
<1> DEFINE n == job[p].cur
           a == Norm[n]
           new == Len(entity) + 1
<1>1. /\ pc[p] = "create" /\ pc' = [pc EXCEPT ![p] = "resolve"]
      /\ entity' = Append(entity, n)
      /\ alias' = IF alias[a] = NoEntity THEN [alias EXCEPT ![a] = new] ELSE alias
      /\ Resolved(p, n, new)
      /\ UNCHANGED <<edition, docs, rels, rounds, faults>>
    BY DEF CreateEntity, Goto
<1>2. n \in Names /\ a \in Aliases
    BY <1>1, WorkType, NamesHaveAliases DEF StageOK
<1>3. /\ entity \in Seq(Names) /\ Len(entity) \in Nat /\ Len(rels) \in Nat /\ Len(docs) \in Nat
      /\ alias \in [Aliases -> 0..Len(entity)]
    BY Lengths DEF Base, Tables
<1> HIDE DEF n, a
<1>4. /\ entity' \in Seq(Names) /\ Len(entity') = new
      /\ \A e \in 1..Len(entity) : entity'[e] = entity[e]
      /\ entity'[new] = n
    BY <1>1, <1>2, <1>3, AppendProperties
<1>5. Leads(entity'[new], a)
    BY <1>4 DEF Leads, a
<1>6. alias' \in [Aliases -> 0..new]
    <2>1. CASE alias[a] = NoEntity
        <3>1. alias' = [alias EXCEPT ![a] = new]
            BY <1>1, <2>1
        <3>2. 0..Len(entity) \subseteq 0..new /\ new \in 0..new
            BY <1>3
        <3> HIDE DEF new
        <3> QED BY <3>1, <3>2, <1>3
    <2>2. CASE alias[a] # NoEntity
        BY <1>1, <1>3, <2>2
    <2> QED BY <2>1, <2>2
<1>7. \A b \in Aliases : alias'[b] = alias[b] \/ (b = a /\ alias'[b] = new)
    BY <1>1, <1>2, <1>3
<1>8. rels' \in Seq(Relation(Len(entity'), Len(rels'), Len(docs')))
    <2>1. new \in Nat /\ Len(entity) <= new /\ Len(rels) <= Len(rels) /\ Len(docs) <= Len(docs)
        BY <1>3
    <2>2. Relation(Len(entity), Len(rels), Len(docs)) \subseteq Relation(new, Len(rels), Len(docs))
        BY <1>3, <2>1, RelationGrows
    <2>3. rels \in Seq(Relation(new, Len(rels), Len(docs)))
        BY <2>2, RowsGrow DEF Base, Tables
    <2> QED BY <2>3, <1>1, <1>4
<1>9. Tables' /\ Grown /\ Len(docs') = Len(docs)
    <2>1. Grown /\ Len(docs') = Len(docs)
        BY <1>1, <1>3, <1>4 DEF Grown
    <2>2. docs' \in Seq(Doc) /\ \A d \in DOMAIN docs' : docs'[d].version <= Len(docs')
        BY <1>1 DEF Base, Tables
    <2> QED BY <2>1, <2>2, <1>4, <1>6, <1>8 DEF Tables
<1>10. \A b \in Aliases : alias'[b] # NoEntity =>
                              alias'[b] = alias[b] \/ Leads(entity'[alias'[b]], b)
    BY <1>5, <1>7
<1>11. new \in 1..Len(entity')
    BY <1>3, <1>4
<1> HIDE DEF new
<1> QED BY <1>1, <1>2, <1>5, <1>9, <1>10, <1>11 DEF Resolves, Working, a

LEMMA LoseRaceResolves ==
    ASSUME Base, NEW p \in Procs, LoseRace(p) PROVE Resolves(p)
<1> DEFINE n == job[p].cur
           a == Norm[n]
<1>1. /\ pc[p] = "create" /\ pc' = [pc EXCEPT ![p] = "resolve"]
      /\ UNCHANGED <<edition, graph, rounds, faults>>
    BY DEF LoseRace, Goto
<1>2. n \in Names /\ a \in Aliases
    BY <1>1, WorkType, NamesHaveAliases DEF StageOK
<1>3. PICK e \in DOMAIN entity :
         /\ entity[e] = n
         /\ Resolved(p, n, IF alias[a] # NoEntity THEN alias[a] ELSE e)
    BY DEF LoseRace
<1>4. entity' = entity /\ Len(docs') = Len(docs) /\ Tables' /\ Grown
    BY <1>1, Quiet
<1>5. e \in 1..Len(entity) /\ Leads(entity[e], a)
    BY <1>3, Lengths DEF Leads, Base
<1>6. alias[a] # NoEntity => alias[a] \in 1..Len(entity) /\ Leads(entity[alias[a]], a)
    <2>1. alias[a] \in 0..Len(entity)
        BY <1>2 DEF Base, Tables
    <2> QED BY <2>1, <1>2 DEF Base, Meaning, NoEntity
<1> HIDE DEF n, a
<1>7. \E k \in 1..Len(entity) : Resolved(p, n, k) /\ Leads(entity[k], a)
    BY <1>3, <1>5, <1>6
<1>8. \E k \in 1..Len(entity') : Resolved(p, n, k) /\ Leads(entity'[k], Norm[n])
    BY <1>4, <1>7 DEF a
<1>9. \A b \in Aliases : alias'[b] # NoEntity =>
                             alias'[b] = alias[b] \/ Leads(entity'[alias'[b]], b)
    BY <1>1, Quiet
<1> QED BY <1>1, <1>2, <1>4, <1>8, <1>9 DEF Resolves, Working, graph

\* The steps that only read what the tables hold.
LEMMA Reads ==
    ASSUME Base, NEW p \in Procs, NEW at \in Steps, NEW j \in Job, StageOK(at, j),
           KnownIn(at, j, Len(docs), entity),
           pc' = [pc EXCEPT ![p] = at], job' = [job EXCEPT ![p] = j],
           UNCHANGED <<edition, graph, rounds>>, faults' \in Nat
    PROVE  Base'
<1>1. edition' = edition /\ rounds' \in Nat /\ UNCHANGED graph
    BY DEF Base, Control
<1>2. KnownIn(at, j, Len(docs'), entity')
    BY <1>1, Quiet
<1> QED BY <1>1, <1>2, Quiet, Knows

LEMMA MissAliasStep ==
    ASSUME Base, NEW p \in Procs, MissAlias(p) PROVE Base'
<1>1. PICK n \in job[p].names : job' = [job EXCEPT ![p] = [job[p] EXCEPT !.cur = n]]
    BY DEF MissAlias
<1>2. pc[p] = "resolve" /\ pc' = [pc EXCEPT ![p] = "match"]
      /\ UNCHANGED <<edition, graph, rounds>> /\ faults' \in Nat
    BY DEF MissAlias, Goto, Base, Control
<1> DEFINE j == [job[p] EXCEPT !.cur = n]
<1>3. n \in Names /\ j \in Job
    BY WorkType DEF Job
<1>4. /\ j.path = job[p].path /\ j.chunks = job[p].chunks /\ j.cur = n /\ j.ids = job[p].ids
      /\ j.triples = job[p].triples /\ j.names = job[p].names /\ j.doc = job[p].doc
      /\ j.version = job[p].version
    BY WorkType DEF Job
<1>5. StageOK("resolve", job[p]) /\ KnownIn("resolve", job[p], Len(docs), entity)
    BY <1>2, WorkType DEF Known
<1> HIDE DEF j
<1>6. StageOK("match", j)
    BY <1>3, <1>4, <1>5 DEF StageOK, Working
<1>7. KnownIn("match", j, Len(docs), entity)
    BY <1>4, <1>5 DEF KnownIn, Working
<1> QED BY <1>1, <1>2, <1>3, <1>6, <1>7, Reads DEF Steps, Working, j

LEMMA MatchSimilarStep ==
    ASSUME Base, NEW p \in Procs, MatchSimilar(p) PROVE Base'
<1>1. PICK e \in Matches(job[p].cur) : job' = [job EXCEPT ![p] = [job[p] EXCEPT !.found = e]]
    BY DEF MatchSimilar
<1>2. pc[p] = "match" /\ pc' = [pc EXCEPT ![p] = "bind"]
      /\ UNCHANGED <<edition, graph, rounds>> /\ faults' \in Nat
    BY DEF MatchSimilar, Goto, Base, Control
<1> DEFINE j == [job[p] EXCEPT !.found = e]
<1>3. e \in 1..Len(entity) /\ e \in Nat /\ <<job[p].cur, entity[e]>> \in Similar
    BY Lengths DEF Matches, Base
<1>4. /\ j.path = job[p].path /\ j.chunks = job[p].chunks /\ j.cur = job[p].cur
      /\ j.ids = job[p].ids /\ j.found = e
      /\ j.triples = job[p].triples /\ j.names = job[p].names /\ j.doc = job[p].doc
      /\ j.version = job[p].version /\ j \in Job
    BY <1>3, WorkType DEF Job
<1>5. StageOK("match", job[p]) /\ KnownIn("match", job[p], Len(docs), entity)
    BY <1>2, WorkType DEF Known
<1> HIDE DEF j
<1>6. StageOK("bind", j)
    BY <1>4, <1>5 DEF StageOK, Working
<1>7. KnownIn("bind", j, Len(docs), entity)
    BY <1>3, <1>4, <1>5 DEF KnownIn, Working
<1> QED BY <1>1, <1>2, <1>4, <1>6, <1>7, Reads DEF Steps, Working, j

\* A step that changes nothing but the place of the process.
LEMMA Passes ==
    ASSUME Base, NEW p \in Procs, NEW at \in Working \ {"bind"}, pc[p] \in Working,
           StageOK(at, job[p]), pc' = [pc EXCEPT ![p] = at], UNCHANGED job,
           UNCHANGED <<edition, graph, rounds>>, faults' \in Nat
    PROVE  Base'
<1>1. job' = [job EXCEPT ![p] = job[p]]
    BY DEF Base, Control
<1>2. KnownIn(at, job[p], Len(docs), entity)
    BY WorkType DEF Known, KnownIn
<1> QED BY <1>1, <1>2, WorkType, Reads DEF Steps

LEMMA MatchNoneStep ==
    ASSUME Base, NEW p \in Procs, MatchNone(p) PROVE Base'
<1>1. pc[p] = "match" /\ pc' = [pc EXCEPT ![p] = "create"]
      /\ UNCHANGED <<edition, graph, rounds>> /\ UNCHANGED job /\ faults' \in Nat
    BY DEF MatchNone, Goto, Base, Control
<1>2. StageOK("create", job[p])
    BY <1>1, WorkType DEF StageOK, Working
<1> QED BY <1>1, <1>2, Passes DEF Working

LEMMA ResolveEndStep ==
    ASSUME Base, NEW p \in Procs, ResolveEnd(p) PROVE Base'
<1>1. pc[p] = "resolve" /\ pc' = [pc EXCEPT ![p] = "relate"] /\ job[p].names = {}
      /\ UNCHANGED <<edition, graph, rounds>> /\ UNCHANGED job /\ faults' \in Nat
    BY DEF ResolveEnd, Goto, Base, Control
<1>2. StageOK("relate", job[p])
    BY <1>1, WorkType DEF StageOK, Working
<1> QED BY <1>1, <1>2, Passes DEF Working
-----------------------------------------------------------------------------
(* The end of a chunk, in order or by a failure.                           *)

LEMMA LeaveChunkStep ==
    ASSUME Base, NEW p \in Procs, job[p].chunks # <<>>, pc[p] # "idle", LeaveChunk(p),
           pc' = [pc EXCEPT ![p] = "version"], UNCHANGED <<edition, graph, rounds>>,
           faults' \in Nat
    PROVE  Base'
<1> DEFINE j == [job[p] EXCEPT !.chunks = Tail(job[p].chunks), !.doc = 0, !.names = {},
                               !.triples = <<>>]
<1>1. job' = [job EXCEPT ![p] = j]
    BY DEF LeaveChunk
<1>2. Tail(job[p].chunks) \in Seq(Seq(Triples)) /\ <<>> \in Seq(Triples)
    <2> DEFINE S == Seq(Triples)
    <2>1. job[p].chunks \in Seq(S) /\ job[p].chunks # <<>>
        BY WorkType DEF Job
    <2> HIDE DEF S
    <2>2. Tail(job[p].chunks) \in Seq(S)
        BY <2>1, HeadTail
    <2> QED BY <2>2, EmptySeq DEF S
<1>3. j \in Job
    <2> DEFINE rest == Tail(job[p].chunks)
               none == <<>>
    <2>1. rest \in Seq(Seq(Triples)) /\ none \in Seq(Triples)
        BY <1>2
    <2>2. j = [job[p] EXCEPT !.chunks = rest, !.doc = 0, !.names = {}, !.triples = none]
        OBVIOUS
    <2> HIDE DEF rest, none, j
    <2> QED BY <2>1, <2>2, WorkType DEF Job
<1>4. /\ j.path = job[p].path /\ j.doc = 0 /\ j.ids = job[p].ids /\ j.version = job[p].version
    BY WorkType DEF Job
<1>5. job[p].path \in Paths /\ KnownIn(pc[p], job[p], Len(docs), entity)
    BY WorkType DEF StageOK, Known
<1> HIDE DEF j
<1>6. StageOK("version", j)
    BY <1>4, <1>5 DEF StageOK, Working
<1>7. KnownIn("version", j, Len(docs), entity)
    BY <1>4, <1>5 DEF KnownIn, Working
<1> QED BY <1>1, <1>3, <1>6, <1>7, Reads DEF Steps

LEMMA ChunkEndStep ==
    ASSUME Base, NEW p \in Procs, ChunkEnd(p) PROVE Base'
<1>1. pc[p] = "relate" /\ pc' = [pc EXCEPT ![p] = "version"] /\ LeaveChunk(p)
      /\ UNCHANGED <<edition, graph, rounds>> /\ faults' \in Nat
    BY DEF ChunkEnd, Goto, Base, Control
<1>2. job[p].chunks # <<>>
    BY <1>1, WorkType DEF StageOK, Working
<1> QED BY <1>1, <1>2, LeaveChunkStep

LEMMA FailChunkStep ==
    ASSUME Base, NEW p \in Procs, FailChunk(p) PROVE Base'
<1>1. pc' = [pc EXCEPT ![p] = "version"] /\ LeaveChunk(p) /\ job[p].chunks # <<>>
      /\ UNCHANGED <<edition, graph, rounds>> /\ faults' \in Nat
    BY DEF FailChunk, Goto, Base, Control
<1>2. pc[p] # "idle"
    BY <1>1, WorkType DEF StageOK
<1> QED BY <1>1, <1>2, LeaveChunkStep
-----------------------------------------------------------------------------
(* upsert_relation.                                                        *)

NewRow(s, q, t, d) == [source |-> s, predicate |-> q, target |-> t, by |-> NoRelation,
                       evidence |-> {d}]

\* The rows with the document as evidence, before anything is superseded.
LinkedRows(L, s, q, t, d) ==
    /\ L \in Seq(Relation(Len(entity), Len(rels), Len(docs))) /\ Len(rels) <= Len(L)
    /\ \A i \in 1..Len(L) : SameEnds(L[i], s, q, t) => d \in L[i].evidence
    /\ \A i \in 1..Len(L) : i > Len(rels) => L[i].by = NoRelation
    /\ \A i \in 1..Len(rels) : /\ SameEnds(L[i], rels[i].source, rels[i].predicate, rels[i].target)
                               /\ L[i].by = rels[i].by
                               /\ rels[i].evidence \subseteq L[i].evidence

LEMMA WithEvidenceRows ==
    ASSUME Tables, NEW s \in 1..Len(entity), NEW q \in Predicates, NEW t \in 1..Len(entity),
           NEW d \in 1..Len(docs)
    PROVE  LinkedRows(WithEvidence(s, q, t, d), s, q, t, d)
<1> DEFINE R == Relation(Len(entity), Len(rels), Len(docs))
           old == \E i \in DOMAIN rels : SameEnds(rels[i], s, q, t)
           L == WithEvidence(s, q, t, d)
<1>1. /\ rels \in Seq(R) /\ Len(rels) \in Nat /\ DOMAIN rels = 1..Len(rels)
      /\ \A i \in 1..Len(rels) : rels[i] \in R
    BY Lengths DEF Tables
<1>2. CASE old
    <2> DEFINE Row(i) == IF SameEnds(rels[i], s, q, t)
                         THEN [rels[i] EXCEPT !.evidence = rels[i].evidence \cup {d}]
                         ELSE rels[i]
    <2>1. L = [i \in 1..Len(rels) |-> Row(i)]
        BY <1>1, <1>2 DEF WithEvidence
    <2>2. \A i \in 1..Len(rels) :
             /\ Row(i) \in R /\ rels[i].evidence \subseteq Row(i).evidence
             /\ SameEnds(Row(i), rels[i].source, rels[i].predicate, rels[i].target)
             /\ Row(i).by = rels[i].by
             /\ SameEnds(Row(i), s, q, t) => d \in Row(i).evidence
        <3> SUFFICES ASSUME NEW i \in 1..Len(rels)
                     PROVE /\ Row(i) \in R /\ rels[i].evidence \subseteq Row(i).evidence
                           /\ SameEnds(Row(i), rels[i].source, rels[i].predicate, rels[i].target)
                           /\ Row(i).by = rels[i].by
                           /\ SameEnds(Row(i), s, q, t) => d \in Row(i).evidence
            OBVIOUS
        <3>1. rels[i] \in R
            BY <1>1
        <3> QED BY <3>1 DEF Relation, SameEnds
    <2>3. L \in [1..Len(rels) -> R]
        <3> HIDE DEF Row, L, R
        <3> QED BY <2>1, <2>2
    <2>4. L \in Seq(R) /\ Len(L) = Len(rels)
        <3> HIDE DEF L, R
        <3> QED BY <1>1, <2>3, FunctionIsSeq
    <2>5. \A i \in 1..Len(rels) : L[i] = Row(i)
        <3> HIDE DEF Row, L
        <3> QED BY <2>1
    <2> HIDE DEF Row, L, R
    <2>6. \A i \in 1..Len(rels) :
             /\ SameEnds(L[i], rels[i].source, rels[i].predicate, rels[i].target)
             /\ L[i].by = rels[i].by
             /\ rels[i].evidence \subseteq L[i].evidence
             /\ SameEnds(L[i], s, q, t) => d \in L[i].evidence
        BY <2>2, <2>5
    <2>7. Len(rels) <= Len(L) /\ \A i \in 1..Len(L) : i \in 1..Len(rels) /\ ~(i > Len(rels))
        BY <1>1, <2>4
    <2>8. L \in Seq(Relation(Len(entity), Len(rels), Len(docs)))
        BY <2>4 DEF R
    <2> QED BY <2>6, <2>7, <2>8 DEF LinkedRows, L
<1>3. CASE ~old
    <2>1. L = Append(rels, NewRow(s, q, t, d))
        BY <1>3 DEF WithEvidence, NewRow
    <2>2. NewRow(s, q, t, d) \in R /\ SameEnds(NewRow(s, q, t, d), s, q, t)
          /\ NewRow(s, q, t, d).by = NoRelation /\ d \in NewRow(s, q, t, d).evidence
        BY <1>1 DEF NewRow, Relation, SameEnds, NoRelation
    <2> DEFINE row == NewRow(s, q, t, d)
    <2> HIDE DEF row, R
    <2>3. /\ L \in Seq(R) /\ Len(L) = Len(rels) + 1 /\ L[Len(rels) + 1] = row
          /\ \A i \in 1..Len(rels) : L[i] = rels[i]
        <3>1. L = Append(rels, row) /\ row \in R
            BY <2>1, <2>2 DEF row
        <3> HIDE DEF L
        <3> QED BY <1>1, <3>1, AppendProperties
    <2>4. \A i \in 1..Len(rels) : SameEnds(L[i], rels[i].source, rels[i].predicate, rels[i].target)
        BY <2>3 DEF SameEnds
    <2>5. \A i \in 1..Len(L) : i \in 1..Len(rels) \/ i = Len(rels) + 1
        BY <1>1, <2>3
    <2>6. \A i \in 1..Len(rels) : ~SameEnds(L[i], s, q, t)
        BY <1>1, <1>3, <2>3
    <2> HIDE DEF L
    <2>7. /\ \A i \in 1..Len(L) : SameEnds(L[i], s, q, t) => d \in L[i].evidence
          /\ \A i \in 1..Len(L) : i > Len(rels) => L[i].by = NoRelation
          /\ Len(rels) <= Len(L)
        BY <1>1, <2>2, <2>3, <2>5, <2>6 DEF row
    <2>8. \A i \in 1..Len(rels) : /\ L[i].by = rels[i].by
                                  /\ rels[i].evidence \subseteq L[i].evidence
        BY <2>3
    <2>9. L \in Seq(Relation(Len(entity), Len(rels), Len(docs)))
        BY <2>3 DEF R
    <2> QED BY <2>4, <2>7, <2>8, <2>9 DEF LinkedRows, L
<1> QED BY <1>2, <1>3

\* Row k states the triple; every row keeps its ends, its evidence and its
\* replacement, but those it makes outdated.
UpsertEffect(k, s, q, t, d) ==
    /\ rels' \in Seq(Relation(Len(entity), Len(rels'), Len(docs))) /\ Len(rels) <= Len(rels')
    /\ k \in 1..Len(rels') /\ SameEnds(rels'[k], s, q, t) /\ d \in rels'[k].evidence
    /\ \A i \in 1..Len(rels) :
          /\ SameEnds(rels'[i], rels[i].source, rels[i].predicate, rels[i].target)
          /\ rels[i].evidence \subseteq rels'[i].evidence
          /\ rels[i].by # NoRelation => rels'[i].by = rels[i].by
    /\ \A i \in 1..Len(rels') :
          \/ i <= Len(rels) /\ rels'[i].by = rels[i].by
          \/ rels'[i].by = NoRelation
          \/ /\ rels'[i].by = k
             /\ rels'[i].source = s /\ rels'[i].predicate = q /\ rels'[i].target # t
             /\ \E e \in rels'[i].evidence : /\ docs[e].path = docs[d].path
                                             /\ docs[e].version < docs[d].version

LEMMA UpsertedRows ==
    ASSUME Tables, NEW s \in 1..Len(entity), NEW q \in Predicates, NEW t \in 1..Len(entity),
           NEW d \in 1..Len(docs), Upserted(s, q, t, d)
    PROVE  \E k \in 1..Len(rels') : UpsertEffect(k, s, q, t, d)
<1> DEFINE L == WithEvidence(s, q, t, d)
           Old(i) == docs[d].path # NoPath /\ Outdated(L[i], s, q, t, d)
<1>1. LinkedRows(L, s, q, t, d)
    BY WithEvidenceRows
<1>2. PICK k \in DOMAIN L :
         /\ SameEnds(L[k], s, q, t)
         /\ rels' = [i \in DOMAIN L |-> IF Old(i) THEN [L[i] EXCEPT !.by = k] ELSE L[i]]
    BY DEF Upserted
<1> HIDE DEF L
<1> DEFINE R == Relation(Len(entity), Len(rels), Len(docs))
           R2 == Relation(Len(entity), Len(L), Len(docs))
<1>3. /\ Len(L) \in Nat /\ DOMAIN L = 1..Len(L) /\ \A i \in 1..Len(L) : L[i] \in R
      /\ Len(rels) \in Nat /\ Len(rels) <= Len(L)
      /\ Len(entity) \in Nat /\ Len(docs) \in Nat
    <2> HIDE DEF R
    <2>1. L \in Seq(R) /\ Len(rels) <= Len(L)
        BY <1>1 DEF LinkedRows, R
    <2> QED BY <2>1, LenProperties, ElementOfSeq, Lengths
<1>4. R \subseteq R2
    <2>1. Len(entity) <= Len(entity) /\ Len(docs) <= Len(docs)
        BY <1>3
    <2> QED BY <1>3, <2>1, RelationGrows
<1> DEFINE Row(i) == IF Old(i) THEN [L[i] EXCEPT !.by = k] ELSE L[i]
<1>5. \A i \in 1..Len(L) :
         /\ Row(i) \in R2 /\ SameEnds(Row(i), L[i].source, L[i].predicate, L[i].target)
         /\ Row(i).evidence = L[i].evidence
         /\ Row(i).by = IF Old(i) THEN k ELSE L[i].by
    <2> SUFFICES ASSUME NEW i \in 1..Len(L)
                 PROVE  /\ Row(i) \in R2
                        /\ SameEnds(Row(i), L[i].source, L[i].predicate, L[i].target)
                        /\ Row(i).evidence = L[i].evidence
                        /\ Row(i).by = IF Old(i) THEN k ELSE L[i].by
        OBVIOUS
    <2>1. L[i] \in R2 /\ k \in 1..Len(L) /\ k \in 0..Len(L)
        BY <1>2, <1>3, <1>4
    <2> HIDE DEF Old
    <2> QED BY <2>1 DEF Relation, SameEnds
<1>6. rels' = [i \in 1..Len(L) |-> Row(i)]
    BY <1>2, <1>3
<1>7. \A i \in 1..Len(L) : rels'[i] = Row(i)
    <2> HIDE DEF Row
    <2> QED BY <1>6
<1>8. rels' \in Seq(R2) /\ Len(rels') = Len(L)
    <2> HIDE DEF Row, R2, Old
    <2>1. rels' \in [1..Len(L) -> R2]
        BY <1>5, <1>6
    <2> QED BY <2>1, <1>3, FunctionIsSeq
<1> HIDE DEF Row
<1>9. \A i \in 1..Len(L) : Old(i) => /\ L[i].by = NoRelation
                                     /\ L[i].source = s /\ L[i].predicate = q /\ L[i].target # t
                                     /\ \E e \in L[i].evidence :
                                           /\ docs[e].path = docs[d].path
                                           /\ docs[e].version < docs[d].version
    BY DEF Outdated
<1> HIDE DEF Old
<1>10. \A i \in 1..Len(rels) :
          /\ SameEnds(rels'[i], rels[i].source, rels[i].predicate, rels[i].target)
          /\ rels[i].evidence \subseteq rels'[i].evidence
          /\ rels[i].by # NoRelation => rels'[i].by = rels[i].by
    <2> SUFFICES ASSUME NEW i \in 1..Len(rels)
                 PROVE  /\ SameEnds(rels'[i], rels[i].source, rels[i].predicate, rels[i].target)
                        /\ rels[i].evidence \subseteq rels'[i].evidence
                        /\ rels[i].by # NoRelation => rels'[i].by = rels[i].by
        OBVIOUS
    <2>1. i \in 1..Len(L)
        BY <1>3
    <2> QED BY <1>1, <1>5, <1>7, <1>9, <2>1 DEF LinkedRows, SameEnds
<1>11. \A i \in 1..Len(L) :
          \/ i <= Len(rels) /\ rels'[i].by = rels[i].by
          \/ rels'[i].by = NoRelation
          \/ /\ rels'[i].by = k
             /\ rels'[i].source = s /\ rels'[i].predicate = q /\ rels'[i].target # t
             /\ \E e \in rels'[i].evidence : /\ docs[e].path = docs[d].path
                                             /\ docs[e].version < docs[d].version
    <2> SUFFICES ASSUME NEW i \in 1..Len(L)
                 PROVE  \/ i <= Len(rels) /\ rels'[i].by = rels[i].by
                        \/ rels'[i].by = NoRelation
                        \/ /\ rels'[i].by = k
                           /\ rels'[i].source = s /\ rels'[i].predicate = q /\ rels'[i].target # t
                           /\ \E e \in rels'[i].evidence : /\ docs[e].path = docs[d].path
                                                           /\ docs[e].version < docs[d].version
        OBVIOUS
    <2>1. CASE Old(i)
        BY <2>1, <1>5, <1>7, <1>9 DEF SameEnds
    <2>2. CASE ~Old(i)
        <3>1. rels'[i].by = L[i].by
            BY <2>2, <1>5, <1>7
        <3>2. i > Len(rels) => L[i].by = NoRelation
            BY <1>1 DEF LinkedRows
        <3>3. i <= Len(rels) => L[i].by = rels[i].by
            BY <1>1, <1>3 DEF LinkedRows
        <3> QED BY <1>3, <3>1, <3>2, <3>3
    <2> QED BY <2>1, <2>2
<1>12. k \in 1..Len(rels') /\ SameEnds(rels'[k], s, q, t) /\ d \in rels'[k].evidence
    BY <1>1, <1>2, <1>3, <1>5, <1>7, <1>8 DEF LinkedRows, SameEnds
<1>13. rels' \in Seq(Relation(Len(entity), Len(rels'), Len(docs)))
    BY <1>8
<1> HIDE DEF R, R2
<1> QED BY <1>3, <1>8, <1>10, <1>11, <1>12, <1>13 DEF UpsertEffect

\* What an upsert is called with: the entities of the names of the triple.
LEMMA UpsertWork ==
    ASSUME Base, NEW p \in Procs, UpsertRelation(p)
    PROVE  /\ Head(job[p].triples) \in Triples /\ job[p].triples # <<>>
           /\ pc[p] = "relate" /\ pc' = pc /\ UNCHANGED <<edition, docs, entity, alias, rounds, faults>>
           /\ job' = [job EXCEPT ![p] = [job[p] EXCEPT !.triples = Tail(job[p].triples)]]
           /\ job[p].doc \in 1..Len(docs)
           /\ \E s, t \in 1..Len(entity) :
                 /\ Leads(entity[s], Norm[Head(job[p].triples)[1]])
                 /\ Leads(entity[t], Norm[Head(job[p].triples)[3]])
                 /\ \E k \in 1..Len(rels') :
                       UpsertEffect(k, s, Head(job[p].triples)[2], t, job[p].doc)
<1> DEFINE j == job[p]
           triple == Head(j.triples)
           s == j.ids[triple[1]]
           t == j.ids[triple[3]]
<1>1. /\ pc[p] = "relate" /\ j.triples # <<>> /\ Upserted(s, triple[2], t, j.doc)
      /\ UNCHANGED <<edition, docs, entity, alias, pc, rounds, faults>>
      /\ job' = [job EXCEPT ![p] = [j EXCEPT !.triples = Tail(j.triples)]]
    BY DEF UpsertRelation
<1>2. j \in Job /\ StageOK("relate", j) /\ KnownIn("relate", j, Len(docs), entity)
    BY <1>1, WorkType DEF Known
<1>3. j.triples \in Seq(Triples)
    BY <1>2 DEF Job
<1>4. triple \in Triples /\ triple = j.triples[1] /\ 1 \in DOMAIN j.triples
    <2>1. Len(j.triples) \in Nat /\ DOMAIN j.triples = 1..Len(j.triples)
        BY <1>3, LenProperties
    <2>2. Len(j.triples) # 0
        BY <1>1, <1>3, EmptySeq
    <2> HIDE DEF j
    <2> QED BY <1>1, <1>3, <2>1, <2>2, HeadTail
<1>5. triple[1] \in Names /\ triple[2] \in Predicates /\ triple[3] \in Names
    BY <1>4 DEF Triples
<1>6. s # NoEntity /\ t # NoEntity
    BY <1>2, <1>4 DEF StageOK, Working
<1>7. s \in 1..Len(entity) /\ Leads(entity[s], Norm[triple[1]])
      /\ t \in 1..Len(entity) /\ Leads(entity[t], Norm[triple[3]])
    BY <1>2, <1>5, <1>6 DEF KnownIn
<1>8. j.doc \in 1..Len(docs)
    BY <1>2 DEF KnownIn, Working
<1> HIDE DEF s, t, triple
<1>9. \E k \in 1..Len(rels') : UpsertEffect(k, s, triple[2], t, j.doc)
    BY <1>1, <1>5, <1>7, <1>8, UpsertedRows DEF Base
<1> QED BY <1>1, <1>4, <1>7, <1>8, <1>9 DEF triple

\* Rows of relations are never lost; they keep what they state.
RowsKept == /\ Len(rels) <= Len(rels')
            /\ \A i \in 1..Len(rels) :
                  /\ SameEnds(rels'[i], rels[i].source, rels[i].predicate, rels[i].target)
                  /\ rels[i].evidence \subseteq rels'[i].evidence
                  /\ rels[i].by # NoRelation => rels'[i].by = rels[i].by

LEMMA UpsertTables ==
    ASSUME Base, NEW p \in Procs, UpsertRelation(p)
    PROVE  Tables' /\ Grown /\ RowsKept /\ Len(docs') = Len(docs) /\ entity' = entity
<1>1. PICK s \in 1..Len(entity), t \in 1..Len(entity), k \in 1..Len(rels') :
         UpsertEffect(k, s, Head(job[p].triples)[2], t, job[p].doc)
    BY UpsertWork
<1>2. docs' = docs /\ entity' = entity /\ alias' = alias
    BY UpsertWork
<1>3. rels' \in Seq(Relation(Len(entity'), Len(rels'), Len(docs')))
    BY <1>1, <1>2 DEF UpsertEffect
<1>4. Tables'
    BY <1>2, <1>3 DEF Base, Tables
<1>5. Grown
    BY <1>2, Lengths DEF Base, Grown
<1>6. RowsKept
    BY <1>1 DEF UpsertEffect, RowsKept
<1> QED BY <1>2, <1>4, <1>5, <1>6

LEMMA UpsertStep ==
    ASSUME Base, NEW p \in Procs, UpsertRelation(p) PROVE Base'
<1> DEFINE rest == Tail(job[p].triples)
           j == [job[p] EXCEPT !.triples = rest]
<1>1. /\ job[p] \in Job /\ StageOK("relate", job[p]) /\ pc[p] = "relate"
      /\ KnownIn("relate", job[p], Len(docs), entity) /\ job[p].triples # <<>>
      /\ job' = [job EXCEPT ![p] = j] /\ UNCHANGED <<edition, docs, entity, alias>>
      /\ pc' = [pc EXCEPT ![p] = "relate"] /\ rounds' \in Nat /\ faults' \in Nat
    BY UpsertWork, WorkType DEF Known, Base, Control
<1>2. /\ rest \in Seq(Triples)
      /\ \A i \in DOMAIN rest : i + 1 \in DOMAIN job[p].triples /\ rest[i] = job[p].triples[i + 1]
    <2>1. job[p].triples \in Seq(Triples)
        BY <1>1 DEF Job
    <2> QED BY <1>1, <2>1, HeadTail
<1> HIDE DEF rest
<1>3. /\ j \in Job /\ j.path = job[p].path /\ j.chunks = job[p].chunks /\ j.ids = job[p].ids
      /\ j.triples = rest /\ j.names = job[p].names /\ j.doc = job[p].doc
      /\ j.version = job[p].version
    BY <1>1, <1>2 DEF Job
<1> HIDE DEF j
<1>4. \A i \in DOMAIN rest : \A n \in {rest[i][1], rest[i][3]} :
         n \in job[p].names \/ job[p].ids[n] # NoEntity
    <2>1. \A k \in DOMAIN job[p].triples :
             \A n \in {job[p].triples[k][1], job[p].triples[k][3]} :
                n \in job[p].names \/ job[p].ids[n] # NoEntity
        BY <1>1 DEF StageOK, Working
    <2> SUFFICES ASSUME NEW i \in DOMAIN rest, NEW n \in {rest[i][1], rest[i][3]}
                 PROVE  n \in job[p].names \/ job[p].ids[n] # NoEntity
        OBVIOUS
    <2>2. i + 1 \in DOMAIN job[p].triples /\ n \in {job[p].triples[i + 1][1],
                                                   job[p].triples[i + 1][3]}
        BY <1>2
    <2> QED BY <2>1, <2>2
<1>5. StageOK("relate", j)
    BY <1>1, <1>3, <1>4 DEF StageOK, Working
<1>6. KnownIn("relate", j, Len(docs'), entity')
    BY <1>1, <1>3, UpsertTables DEF KnownIn, Working
<1>7. \A a \in Aliases : alias'[a] # NoEntity =>
                             alias'[a] = alias[a] \/ Leads(entity'[alias'[a]], a)
    BY <1>1
<1> QED BY <1>1, <1>3, <1>5, <1>6, <1>7, UpsertTables, Knows DEF Steps, Working
-----------------------------------------------------------------------------
(* The invariant.                                                          *)

LEMMA InitBase == Init => Base
<1> SUFFICES ASSUME Init PROVE Base
    OBVIOUS
<1>1. docs = <<>> /\ entity = <<>> /\ rels = <<>> /\ alias = [a \in Aliases |-> NoEntity]
      /\ pc = [p \in Procs |-> "idle"] /\ job = [p \in Procs |-> NoJob]
    BY DEF Init
<1>2. Len(docs) = 0 /\ Len(entity) = 0 /\ DOMAIN docs = {}
    BY <1>1, EmptySeq
<1>3. Tables
    <2> DEFINE R == Relation(Len(entity), Len(rels), Len(docs))
    <2>1. rels \in Seq(R) /\ docs \in Seq(Doc) /\ entity \in Seq(Names)
        BY <1>1, EmptySeq
    <2> HIDE DEF R
    <2>2. alias \in [Aliases -> 0..Len(entity)]
        BY <1>1, <1>2 DEF NoEntity
    <2> QED BY <1>2, <2>1, <2>2 DEF Tables, R
<1>4. NoJob.version = 0 /\ NoJob.ids = [n \in Names |-> 0]
    BY DEF NoJob, NullVersion, NoEntity
<1>5. KnownIn("idle", NoJob, Len(docs), entity)
    BY <1>2, <1>4 DEF KnownIn, Working, NoEntity
<1>6. Meaning
    BY <1>1, <1>5 DEF Meaning, Known, NoEntity
<1> QED BY <1>3, <1>6, InitControl DEF Base

LEMMA StepBase == Base /\ [Next]_vars => Base'
<1> SUFFICES ASSUME Base, [Next]_vars PROVE Base'
    OBVIOUS
<1>1. CASE UNCHANGED vars
    <2>1. UNCHANGED <<edition, docs, entity, alias, rels, pc, job, rounds, faults>>
        BY <1>1 DEF vars
    <2> QED BY <2>1 DEF Base, Control, Tables, Meaning, Known
<1>2. ASSUME NEW f \in Paths, Edit(f) PROVE Base'
    BY <1>2, EditStep
<1>3. ASSUME NEW p \in Procs, NEW f \in Paths, Begin(p, f) PROVE Base'
    BY <1>3, BeginStep
<1>4. ASSUME NEW p \in Procs, FailChunk(p) \/ Crash(p) PROVE Base'
    BY <1>4, FailChunkStep, CrashStep
<1>5. ASSUME NEW p \in Procs, Ingest(p) PROVE Base'
    BY <1>5, EndStep, NextVersionStep, InsertStep, FindAliasResolves, MissAliasStep,
       MatchSimilarStep, MatchNoneStep, AddAliasResolves, CreateEntityResolves,
       LoseRaceResolves, ResolvesStep, ResolveEndStep, UpsertStep, ChunkEndStep DEF Ingest
<1> QED BY <1>1, <1>2, <1>3, <1>4, <1>5 DEF Next

THEOREM Invariant == Spec => []Base
<1>1. Init => Base
    BY InitBase
<1>2. Base /\ [Next]_vars => Base'
    BY StepBase
<1> QED BY <1>1, <1>2, PTL DEF Spec

(* Every value keeps its type, whatever processes interleave or crash:     *)
(* ids in aliases, relations and the work of a process are ids of rows.    *)
THEOREM TypesHold == Spec => []TypeOK
<1>1. Base => TypeOK
    <2> SUFFICES ASSUME Base PROVE TypeOK
        OBVIOUS
    <2>1. /\ Len(entity) \in Nat /\ Len(rels) \in Nat /\ Len(docs) \in Nat
          /\ DOMAIN docs = 1..Len(docs) /\ DOMAIN rels = 1..Len(rels)
          /\ \A d \in 1..Len(docs) : docs[d] \in Doc
          /\ \A i \in 1..Len(rels) : rels[i] \in Relation(Len(entity), Len(rels), Len(docs))
        BY Lengths DEF Base
    <2>2. 0..Len(entity) = EntityIds \cup {NoEntity} /\ 0..Len(rels) = RelationIds \cup {NoRelation}
        BY <2>1 DEF EntityIds, RelationIds, NoEntity, NoRelation
    <2>3. \A p \in Procs : job[p].ids \in [Names -> EntityIds \cup {NoEntity}]
        <3> SUFFICES ASSUME NEW p \in Procs
                     PROVE  job[p].ids \in [Names -> EntityIds \cup {NoEntity}]
            OBVIOUS
        <3>1. job[p].ids \in [Names -> Nat]
            BY WorkType DEF Job
        <3>2. \A n \in Names : job[p].ids[n] \in EntityIds \cup {NoEntity}
            BY WorkType DEF Known, KnownIn, EntityIds
        <3> QED BY <3>1, <3>2
    <2>4. \A i \in DOMAIN rels : rels[i] \in [source : EntityIds, predicate : Predicates,
                                              target : EntityIds,
                                              by : RelationIds \cup {NoRelation},
                                              evidence : SUBSET DocIds]
        BY <2>1, <2>2 DEF Relation, EntityIds, DocIds
    <2>5. pc \in [Procs -> {"idle", "version", "insert", "resolve", "match", "bind", "create",
                            "relate"}]
        BY DEF Base, Control, Steps, Working
    <2>6. alias \in [Aliases -> EntityIds \cup {NoEntity}] /\ edition \in [Paths -> Nat]
        BY <2>2 DEF Base, Tables, Control
    <2> QED BY <2>1, <2>3, <2>4, <2>5, <2>6 DEF TypeOK, Doc, Base, Tables
<1> QED BY <1>1, Invariant, PTL
-----------------------------------------------------------------------------
(* Aliases, replacements, supersession.                                    *)

(* An alias stays bound to the entity it was first bound to, whichever     *)
(* processes find, match or create the same names.                         *)
THEOREM AliasesStay == Spec => AliasStays
<1>1. Base /\ [Next]_vars => [\A a \in Aliases : alias[a] # NoEntity => alias'[a] = alias[a]]_vars
    <2> SUFFICES ASSUME Base, Next, NEW a \in Aliases, alias[a] # NoEntity
                 PROVE  alias'[a] = alias[a]
        OBVIOUS
    <2>1. alias \in [Aliases -> 0..Len(entity)]
        BY DEF Base, Tables
    <2>2. ASSUME NEW p \in Procs, Ingest(p) PROVE alias'[a] = alias[a]
        <3>1. CASE AddAlias(p)
            BY <3>1, <2>1 DEF AddAlias
        <3>2. CASE CreateEntity(p)
            BY <3>2, <2>1 DEF CreateEntity
        <3>3. CASE End(p) \/ NextVersion(p) \/ InsertDocument(p) \/ FindAlias(p) \/ MissAlias(p)
            BY <3>3 DEF End, NextVersion, InsertDocument, FindAlias, MissAlias, graph
        <3>4. CASE MatchSimilar(p) \/ MatchNone(p) \/ LoseRace(p) \/ ResolveEnd(p)
            BY <3>4 DEF MatchSimilar, MatchNone, LoseRace, ResolveEnd, graph
        <3>5. CASE UpsertRelation(p) \/ ChunkEnd(p)
            BY <3>5 DEF UpsertRelation, ChunkEnd, graph
        <3> QED BY <2>2, <3>1, <3>2, <3>3, <3>4, <3>5 DEF Ingest
    <2>3. ASSUME NEW p \in Procs, NEW f \in Paths, Begin(p, f) PROVE alias'[a] = alias[a]
        BY <2>3 DEF Begin, graph
    <2>4. ASSUME NEW p \in Procs, FailChunk(p) \/ Crash(p) PROVE alias'[a] = alias[a]
        BY <2>4 DEF FailChunk, Crash, graph
    <2>5. ASSUME NEW f \in Paths, Edit(f) PROVE alias'[a] = alias[a]
        BY <2>5 DEF Edit, graph
    <2> QED BY <2>2, <2>3, <2>4, <2>5 DEF Next
<1> QED BY <1>1, Invariant, PTL DEF Spec, AliasStays

\* What a step does to the tables: an upsert, or nothing to the relations.
LEMMA TablesStep ==
    ASSUME Base, Next
    PROVE  /\ Grown
           /\ \/ rels' = rels
              \/ \E p \in Procs : UpsertRelation(p)
<1>1. Base'
    BY StepBase
<1>2. ASSUME NEW p \in Procs, Ingest(p) PROVE Grown /\ (rels' = rels \/ UpsertRelation(p))
    <2>1. CASE AddAlias(p)
        BY <2>1, AddAliasResolves DEF Resolves
    <2>2. CASE CreateEntity(p)
        BY <2>2, CreateEntityResolves DEF Resolves
    <2>3. CASE InsertDocument(p)
        BY <2>3, InsertTables DEF InsertDocument
    <2>4. CASE UpsertRelation(p)
        BY <2>4, UpsertTables
    <2>5. CASE End(p) \/ NextVersion(p) \/ FindAlias(p) \/ MissAlias(p)
        BY <2>5, Quiet DEF End, NextVersion, FindAlias, MissAlias, graph
    <2>6. CASE MatchSimilar(p) \/ MatchNone(p) \/ LoseRace(p) \/ ResolveEnd(p) \/ ChunkEnd(p)
        BY <2>6, Quiet DEF MatchSimilar, MatchNone, LoseRace, ResolveEnd, ChunkEnd, graph
    <2> QED BY <1>2, <2>1, <2>2, <2>3, <2>4, <2>5, <2>6 DEF Ingest
<1>3. ASSUME NEW p \in Procs, NEW f \in Paths, Begin(p, f) PROVE Grown /\ rels' = rels
    BY <1>3, Quiet DEF Begin, graph
<1>4. ASSUME NEW p \in Procs, FailChunk(p) \/ Crash(p) PROVE Grown /\ rels' = rels
    BY <1>4, Quiet DEF FailChunk, Crash, graph
<1>5. ASSUME NEW f \in Paths, Edit(f) PROVE Grown /\ rels' = rels
    BY <1>5, Quiet DEF Edit, graph
<1> QED BY <1>2, <1>3, <1>4, <1>5 DEF Next

LEMMA RowsStep ==
    ASSUME Base, Next
    PROVE  RowsKept
<1>1. CASE rels' = rels
    <2>1. /\ Len(rels) \in Nat
          /\ \A i \in 1..Len(rels) :
                SameEnds(rels[i], rels[i].source, rels[i].predicate, rels[i].target)
        BY Lengths DEF Base, SameEnds
    <2> QED BY <1>1, <2>1 DEF RowsKept
<1>2. CASE \E p \in Procs : UpsertRelation(p)
    BY <1>2, UpsertTables
<1> QED BY <1>1, <1>2, TablesStep

(* A relation that was superseded keeps its first replacement, whichever   *)
(* processes upsert the triples of later versions.                         *)
THEOREM ReplacementsStay == Spec => FirstReplacementStays
<1>1. Base /\ [Next]_vars =>
          [\A i \in DOMAIN rels : rels[i].by # NoRelation => rels'[i].by = rels[i].by]_vars
    <2> SUFFICES ASSUME Base, Next, NEW i \in DOMAIN rels, rels[i].by # NoRelation
                 PROVE  rels'[i].by = rels[i].by
        OBVIOUS
    <2>1. i \in 1..Len(rels)
        BY Lengths DEF Base
    <2> QED BY <2>1, RowsStep DEF RowsKept
<1> QED BY <1>1, Invariant, PTL DEF Spec, FirstReplacementStays

LEMMA SupersededStep == Base /\ SupersededByNewer /\ [Next]_vars => SupersededByNewer'
<1> SUFFICES ASSUME Base, SupersededByNewer, [Next]_vars PROVE SupersededByNewer'
    OBVIOUS
<1>1. CASE UNCHANGED vars
    BY <1>1 DEF vars, SupersededByNewer
<1>2. CASE Next
    <2> SUFFICES ASSUME NEW i \in DOMAIN rels', rels'[i].by # NoRelation
                 PROVE  /\ rels'[rels'[i].by].source = rels'[i].source
                        /\ rels'[rels'[i].by].predicate = rels'[i].predicate
                        /\ rels'[rels'[i].by].target # rels'[i].target
                        /\ \E d \in rels'[i].evidence, e \in rels'[rels'[i].by].evidence :
                              docs'[d].path = docs'[e].path /\ docs'[d].version < docs'[e].version
        BY DEF SupersededByNewer
    <2> DEFINE k == rels'[i].by
    <2>1. Base' /\ Grown /\ RowsKept /\ Tables /\ Tables'
        BY <1>2, StepBase, TablesStep, RowsStep DEF Base
    <2>2. /\ Len(rels') \in Nat /\ DOMAIN rels' = 1..Len(rels') /\ Len(rels) \in Nat
          /\ DOMAIN rels = 1..Len(rels)
          /\ \A r \in 1..Len(rels) : rels[r] \in Relation(Len(entity), Len(rels), Len(docs))
        BY <2>1, Lengths, LenProperties DEF Tables
    <2>3. \A r \in 1..Len(rels) : /\ rels[r].by \in 0..Len(rels)
                                  /\ rels[r].evidence \subseteq 1..Len(docs)
        BY <2>2 DEF Relation
    <2>4. ASSUME i \in 1..Len(rels), rels'[i].by = rels[i].by
          PROVE  /\ rels'[k].source = rels'[i].source
                 /\ rels'[k].predicate = rels'[i].predicate
                 /\ rels'[k].target # rels'[i].target
                 /\ \E d \in rels'[i].evidence, e \in rels'[k].evidence :
                       docs'[d].path = docs'[e].path /\ docs'[d].version < docs'[e].version
        <3>1. k \in 1..Len(rels) /\ rels[i].by = k
            BY <2>2, <2>3, <2>4 DEF NoRelation
        <3> HIDE DEF k
        <3>2. /\ rels[k].source = rels[i].source /\ rels[k].predicate = rels[i].predicate
              /\ rels[k].target # rels[i].target
              /\ \E d \in rels[i].evidence, e \in rels[k].evidence :
                    docs[d].path = docs[e].path /\ docs[d].version < docs[e].version
            BY <2>2, <2>4, <3>1 DEF SupersededByNewer, NoRelation
        <3>3. PICK d \in rels[i].evidence, e \in rels[k].evidence :
                 docs[d].path = docs[e].path /\ docs[d].version < docs[e].version
            BY <3>2
        <3>4. docs'[d] = docs[d] /\ docs'[e] = docs[e]
            BY <2>1, <2>3, <2>4, <3>1, <3>3 DEF Grown
        <3>5. d \in rels'[i].evidence /\ e \in rels'[k].evidence
            BY <2>1, <2>4, <3>1, <3>3 DEF RowsKept
        <3>6. /\ rels'[k].source = rels'[i].source
              /\ rels'[k].predicate = rels'[i].predicate
              /\ rels'[k].target # rels'[i].target
            BY <2>1, <2>4, <3>1, <3>2 DEF RowsKept, SameEnds
        <3> QED BY <3>3, <3>4, <3>5, <3>6
    <2>5. CASE rels' = rels
        <3>1. i \in 1..Len(rels) /\ rels'[i].by = rels[i].by
            BY <2>2, <2>5
        <3> QED BY <2>4, <3>1
    <2>6. CASE \E p \in Procs : UpsertRelation(p)
        <3>1. PICK p \in Procs : UpsertRelation(p)
            BY <2>6
        <3>2. PICK s \in 1..Len(entity), t \in 1..Len(entity), r \in 1..Len(rels') :
                 UpsertEffect(r, s, Head(job[p].triples)[2], t, job[p].doc)
            BY <3>1, UpsertWork
        <3>3. docs' = docs
            BY <3>1, UpsertWork
        <3>4. CASE i <= Len(rels) /\ rels'[i].by = rels[i].by
            BY <2>2, <2>4, <3>4
        <3>5. CASE /\ k = r
                   /\ rels'[i].source = s /\ rels'[i].predicate = Head(job[p].triples)[2]
                   /\ rels'[i].target # t
                   /\ \E e \in rels'[i].evidence :
                         /\ docs[e].path = docs[job[p].doc].path
                         /\ docs[e].version < docs[job[p].doc].version
            <4>1. /\ SameEnds(rels'[k], s, Head(job[p].triples)[2], t)
                  /\ job[p].doc \in rels'[k].evidence
                BY <3>2, <3>5 DEF UpsertEffect
            <4> HIDE DEF k
            <4> QED BY <3>3, <3>5, <4>1 DEF SameEnds, k
        <3> QED BY <2>2, <3>2, <3>4, <3>5 DEF UpsertEffect
    <2> QED BY <2>5, <2>6, <1>2, TablesStep
<1> QED BY <1>1, <1>2

(* A superseded relation was replaced by one that says something else of   *)
(* the same source and predicate, on the evidence of a later version of a  *)
(* path it has evidence of itself, however ingests of the path overlap.    *)
THEOREM SupersessionJustified == Spec => []SupersededByNewer
<1>1. Init => SupersededByNewer
    BY EmptySeq DEF Init, SupersededByNewer
<1>2. Base /\ SupersededByNewer /\ [Next]_vars => SupersededByNewer'
    BY SupersededStep
<1> QED BY <1>1, <1>2, Invariant, PTL DEF Spec
-----------------------------------------------------------------------------
(* The evidence of a document is complete.                                 *)

\* A relation states the triple, with the document as evidence.
Stated(d, triple) == \E i \in DOMAIN rels : /\ d \in rels[i].evidence
                                            /\ Means(rels[i].source, triple[1])
                                            /\ rels[i].predicate = triple[2]
                                            /\ Means(rels[i].target, triple[3])

\* What is not stated yet of the chunk of a process is still to be upserted.
Pending(at, j) ==
    at \in Working => \A k \in DOMAIN docs[j.doc].triples :
                         \/ Stated(j.doc, docs[j.doc].triples[k])
                         \/ \E i \in DOMAIN j.triples : j.triples[i] = docs[j.doc].triples[k]

Complete == faults = 0 => /\ \A p \in Procs : Pending(pc[p], job[p])
                          /\ EvidenceComplete

LEMMA StatedStays ==
    ASSUME Base, Next, NEW d, NEW triple, Stated(d, triple)
    PROVE  Stated(d, triple)'
<1>1. PICK i \in DOMAIN rels : /\ d \in rels[i].evidence
                               /\ Means(rels[i].source, triple[1])
                               /\ rels[i].predicate = triple[2]
                               /\ Means(rels[i].target, triple[3])
    BY DEF Stated
<1>2. Grown /\ RowsKept /\ Tables /\ Tables'
    BY TablesStep, RowsStep, StepBase DEF Base
<1>3. /\ i \in 1..Len(rels) /\ Len(rels) \in Nat /\ Len(rels') \in Nat
      /\ DOMAIN rels' = 1..Len(rels') /\ rels[i].source \in 1..Len(entity)
      /\ rels[i].target \in 1..Len(entity)
    BY <1>1, <1>2, Lengths, LenProperties DEF Tables, Relation
<1>4. i \in DOMAIN rels'
    BY <1>2, <1>3 DEF RowsKept
<1>5. /\ rels'[i].source = rels[i].source /\ rels'[i].predicate = rels[i].predicate
      /\ rels'[i].target = rels[i].target /\ d \in rels'[i].evidence
    BY <1>1, <1>2, <1>3 DEF RowsKept, SameEnds
<1>6. entity'[rels[i].source] = entity[rels[i].source]
      /\ entity'[rels[i].target] = entity[rels[i].target]
    BY <1>2, <1>3 DEF Grown
<1>7. Means(rels[i].source, triple[1])' /\ Means(rels[i].target, triple[3])'
    BY <1>1, <1>5, <1>6 DEF Means
<1> QED BY <1>1, <1>4, <1>5, <1>7 DEF Stated

LEMMA PendingStays ==
    ASSUME Base, Next, NEW p \in Procs, pc[p] \in Working, Pending(pc[p], job[p]),
           job'[p].doc = job[p].doc, job'[p].triples = job[p].triples
    PROVE  Pending(pc[p], job[p])'
<1>1. job[p].doc \in 1..Len(docs)
    BY WorkType DEF Known, KnownIn
<1>2. docs'[job[p].doc] = docs[job[p].doc]
    BY <1>1, TablesStep DEF Grown
<1>3. PICK d, row, todo : d = job[p].doc /\ row = docs[d] /\ todo = job[p].triples
    OBVIOUS
<1>4. \A k \in DOMAIN row.triples : \/ Stated(d, row.triples[k])
                                    \/ \E i \in DOMAIN todo : todo[i] = row.triples[k]
    BY <1>3 DEF Pending
<1>5. \A k \in DOMAIN row.triples : Stated(d, row.triples[k]) => Stated(d, row.triples[k])'
    BY StatedStays
<1>6. \A k \in DOMAIN row.triples : \/ Stated(d, row.triples[k])'
                                    \/ \E i \in DOMAIN todo : todo[i] = row.triples[k]
    BY <1>4, <1>5
<1>7. job'[p].doc = d /\ docs'[d] = row /\ job'[p].triples = todo
    BY <1>2, <1>3
<1> QED BY <1>6, <1>7 DEF Pending

\* Only the process that leaves a document has to have stated all of it, and
\* the one that takes up work has to have it all before it.
LEMMA Completes ==
    ASSUME Base, Complete, Next, faults = 0, NEW p \in Procs,
           \A q \in Procs \ {p} : pc'[q] = pc[q] /\ job'[q] = job[q],
           Pending(pc[p], job[p])',
           \A d \in 1..Len(docs') : d > Len(docs) => job'[p].doc = d,
           job[p].doc \in 1..Len(docs) /\ job'[p].doc # job[p].doc =>
               \A k \in DOMAIN docs[job[p].doc].triples :
                  Stated(job[p].doc, docs[job[p].doc].triples[k])
    PROVE  Complete'
<1>1. Grown /\ Base' /\ Tables /\ Tables'
    BY TablesStep, StepBase DEF Base
<1>2. /\ Len(docs) \in Nat /\ Len(docs') \in Nat /\ Len(docs) <= Len(docs')
      /\ DOMAIN docs = 1..Len(docs) /\ DOMAIN docs' = 1..Len(docs')
      /\ \A d \in 1..Len(docs) : docs'[d] = docs[d]
    BY <1>1, Lengths, LenProperties DEF Tables, Grown
<1>3. ASSUME NEW q \in Procs PROVE Pending(pc[q], job[q])'
    <2>1. CASE q # p /\ pc[q] \in Working
        <3>1. pc'[q] = pc[q] /\ job'[q] = job[q] /\ Pending(pc[q], job[q])
            BY <2>1 DEF Complete
        <3> QED BY <2>1, <3>1, PendingStays
    <2>2. CASE q # p /\ pc[q] \notin Working
        BY <2>2 DEF Pending
    <2>3. CASE q = p
        BY <2>3
    <2> QED BY <2>1, <2>2, <2>3
<1>4. EvidenceComplete'
    <2> SUFFICES ASSUME NEW d \in DOMAIN docs', \A q \in Procs : job'[q].doc # d,
                        NEW k \in DOMAIN docs'[d].triples
                 PROVE  Stated(d, docs[d].triples[k])'
        BY DEF EvidenceComplete, Stated
    <2>1. d \in 1..Len(docs)
        BY <1>2
    <2>2. docs'[d] = docs[d]
        BY <2>1, <1>2
    <2>3. Stated(d, docs[d].triples[k])
        <3>1. CASE job[p].doc = d
            BY <2>1, <2>2, <3>1
        <3>2. CASE job[p].doc # d
            <4>1. \A q \in Procs : job[q].doc # d
                BY <3>2
            <4>2. EvidenceComplete /\ d \in DOMAIN docs
                BY <2>1, <1>2 DEF Complete
            <4> QED BY <2>2, <4>1, <4>2 DEF EvidenceComplete, Stated
        <3> QED BY <3>1, <3>2
    <2>4. PICK t : t = docs[d].triples[k]
        OBVIOUS
    <2>5. Stated(d, t)'
        BY <2>3, <2>4, StatedStays
    <2> QED BY <2>2, <2>4, <2>5
<1> QED BY <1>3, <1>4 DEF Complete

\* A process that goes on with the same document and the same triples.
LEMMA KeepsWork ==
    ASSUME Base, Complete, Next, faults = 0, NEW p \in Procs, NEW at, NEW j,
           pc' = [pc EXCEPT ![p] = at], job' = [job EXCEPT ![p] = j], docs' = docs,
           j.doc = job[p].doc, j.triples = job[p].triples,
           at \in Working => pc[p] \in Working
    PROVE  Complete'
<1>1. pc'[p] = at /\ job'[p] = j /\ \A q \in Procs \ {p} : pc'[q] = pc[q] /\ job'[q] = job[q]
    BY DEF Base, Control
<1>2. Pending(pc[p], job[p])'
    <2>1. CASE at \in Working
        <3>1. Pending(pc[p], job[p])
            BY DEF Complete
        <3> QED BY <2>1, <3>1, <1>1, PendingStays
    <2>2. CASE at \notin Working
        BY <2>2, <1>1 DEF Pending
    <2> QED BY <2>1, <2>2
<1>3. \A d \in 1..Len(docs') : ~(d > Len(docs))
    BY Lengths DEF Base
<1> QED BY <1>1, <1>2, <1>3, Completes

LEMMA BoundKeeps ==
    ASSUME Base, NEW p \in Procs, NEW n, NEW e
    PROVE  Bound(job[p], n, e).doc = job[p].doc /\ Bound(job[p], n, e).triples = job[p].triples
    BY WorkType DEF Bound, Job

LEMMA ResolvesComplete ==
    ASSUME Base, Complete, Next, faults = 0, NEW p \in Procs, Resolves(p)
    PROVE  Complete'
<1>1. PICK n \in Names : \E e \in 1..Len(entity') : Resolved(p, n, e)
    BY DEF Resolves
<1>2. PICK e \in 1..Len(entity') : Resolved(p, n, e)
    BY <1>1
<1>3. e \in Nat \ {0}
    BY <1>2, LenProperties DEF Resolves, Tables
<1>4. job' = [job EXCEPT ![p] = Bound(job[p], n, e)]
    BY <1>2, <1>3, ResolvedWork DEF Resolves
<1> QED BY ZenonT(30), <1>4, BoundKeeps, KeepsWork DEF Resolves

LEMMA LooksComplete ==
    ASSUME Base, Complete, Next, faults = 0, NEW p \in Procs,
           MissAlias(p) \/ MatchSimilar(p) \/ MatchNone(p) \/ ResolveEnd(p)
    PROVE  Complete'
<1>1. job[p] \in Job /\ pc \in [Procs -> Steps] /\ job \in [Procs -> Job]
    BY WorkType DEF Base, Control
<1>2. CASE MissAlias(p)
    <2>1. PICK n : job' = [job EXCEPT ![p] = [job[p] EXCEPT !.cur = n]]
        BY <1>2 DEF MissAlias
    <2>2. pc[p] \in Working /\ docs' = docs /\ pc' = [pc EXCEPT ![p] = "match"]
        BY <1>2 DEF MissAlias, Goto, Working, graph
    <2> DEFINE j == [job[p] EXCEPT !.cur = n]
    <2>3. j.doc = job[p].doc /\ j.triples = job[p].triples
        BY <1>1 DEF Job
    <2> QED BY <2>1, <2>2, <2>3, KeepsWork
<1>3. CASE MatchSimilar(p)
    <2>1. PICK e : job' = [job EXCEPT ![p] = [job[p] EXCEPT !.found = e]]
        BY <1>3 DEF MatchSimilar
    <2>2. pc[p] \in Working /\ docs' = docs /\ pc' = [pc EXCEPT ![p] = "bind"]
        BY <1>3 DEF MatchSimilar, Goto, Working, graph
    <2> DEFINE j == [job[p] EXCEPT !.found = e]
    <2>3. j.doc = job[p].doc /\ j.triples = job[p].triples
        BY <1>1 DEF Job
    <2> QED BY <2>1, <2>2, <2>3, KeepsWork
<1>4. CASE MatchNone(p) \/ ResolveEnd(p)
    <2>1. PICK at : pc' = [pc EXCEPT ![p] = at]
        BY <1>4 DEF MatchNone, ResolveEnd, Goto
    <2>2. pc[p] \in Working /\ docs' = docs /\ job' = job
        BY <1>4 DEF MatchNone, ResolveEnd, Goto, Working, graph
    <2>3. job' = [job EXCEPT ![p] = job[p]]
        BY <1>1, <2>2
    <2> QED BY <2>1, <2>2, <2>3, KeepsWork
<1> QED BY <1>2, <1>3, <1>4

LEMMA BetweenComplete ==
    ASSUME Base, Complete, Next, faults = 0, NEW p \in Procs,
           (\E f \in Paths : Begin(p, f)) \/ End(p) \/ NextVersion(p)
    PROVE  Complete'
<1>1. job[p] \in Job /\ StageOK(pc[p], job[p]) /\ NoJob \in Job /\ NoJob.doc = 0
      /\ job \in [Procs -> Job] /\ pc \in [Procs -> Steps]
    BY WorkType, NoJobType DEF Base, Control
<1>2. PICK at \in {"version", "idle", "insert"} : pc' = [pc EXCEPT ![p] = at]
    BY DEF Begin, End, NextVersion, Goto
<1>3. pc[p] \in {"idle", "version"} /\ docs' = docs
    BY DEF Begin, End, NextVersion, Goto, graph
<1>4. job[p].doc = 0
    BY <1>1, <1>3 DEF StageOK, Working
<1>5. job'[p].doc = 0 /\ \A q \in Procs \ {p} : job'[q] = job[q]
    <2>1. CASE \E f \in Paths : Begin(p, f)
        <3>1. PICK f \in Paths :
                 job' = [job EXCEPT ![p] = [NoJob EXCEPT !.path = f,
                                                         !.chunks = History[f][edition[f]]]]
            BY <2>1 DEF Begin
        <3> QED BY <3>1, <1>1 DEF Job
    <2>2. CASE End(p)
        BY <2>2, <1>1 DEF End
    <2>3. CASE NextVersion(p)
        <3>1. PICK v \in Nat : job' = [job EXCEPT ![p] = [job[p] EXCEPT !.version = v]]
            BY <2>3, NextVersionValue
        <3> QED BY <3>1, <1>1, <1>4 DEF Job
    <2> QED BY <2>1, <2>2, <2>3
<1>6. pc'[p] \notin Working /\ \A q \in Procs \ {p} : pc'[q] = pc[q]
    BY <1>1, <1>2 DEF Working
<1>7. Pending(pc[p], job[p])'
    BY <1>6 DEF Pending
<1>8. \A d \in 1..Len(docs') : ~(d > Len(docs))
    BY <1>3, Lengths DEF Base
<1> QED BY <1>4, <1>5, <1>6, <1>7, <1>8, Completes

LEMMA InsertComplete ==
    ASSUME Base, Complete, Next, faults = 0, NEW p \in Procs, InsertDocument(p)
    PROVE  Complete'
<1> DEFINE chunk == Head(job[p].chunks)
           j == Inserted(job[p])
<1>1. /\ pc[p] = "insert" /\ pc' = [pc EXCEPT ![p] = "resolve"]
      /\ job' = [job EXCEPT ![p] = j] /\ Len(docs') = Len(docs) + 1 /\ Len(docs) \in Nat
    BY InsertedWork, InsertTables, Lengths DEF Base
<1>2. job[p].doc = 0
    BY <1>1, WorkType DEF StageOK, Working
<1>3. j.doc = Len(docs) + 1 /\ j.triples = chunk
    BY WorkType DEF Inserted, Job
<1>4. docs'[Len(docs) + 1].triples = chunk
    <2> DEFINE row == [path |-> job[p].path, version |-> job[p].version, triples |-> chunk]
    <2>1. docs' = Append(docs, row)
        BY DEF InsertDocument
    <2>2. docs \in Seq(Doc)
        BY DEF Base, Tables
    <2>3. row.triples = chunk
        OBVIOUS
    <2> HIDE DEF row
    <2>4. docs'[Len(docs) + 1] = row
        BY <2>1, <2>2
    <2> QED BY <2>3, <2>4
<1> HIDE DEF j, chunk
<1>5. pc'[p] = "resolve" /\ job'[p] = j
      /\ \A q \in Procs \ {p} : pc'[q] = pc[q] /\ job'[q] = job[q]
    BY <1>1 DEF Base, Control
<1>6. \A k \in DOMAIN docs'[job'[p].doc].triples :
         \E i \in DOMAIN job'[p].triples : job'[p].triples[i] = docs'[job'[p].doc].triples[k]
    BY <1>3, <1>4, <1>5
<1>7. Pending(pc[p], job[p])'
    BY <1>6 DEF Pending
<1>8. \A d \in 1..Len(docs') : d > Len(docs) => job'[p].doc = d
    BY <1>1, <1>3, <1>5
<1> QED BY <1>2, <1>5, <1>7, <1>8, Completes

\* The row that an upsert leaves states the triple.
LEMMA UpsertStates ==
    ASSUME Base, NEW p \in Procs, UpsertRelation(p), NEW triple, triple = Head(job[p].triples),
           NEW d, d = job[p].doc
    PROVE  Stated(d, triple)'
<1>1. PICK s \in 1..Len(entity), t \in 1..Len(entity) :
         /\ Leads(entity[s], Norm[triple[1]]) /\ Leads(entity[t], Norm[triple[3]])
         /\ \E k \in 1..Len(rels') : UpsertEffect(k, s, triple[2], t, d)
    BY UpsertWork
<1>2. PICK k \in 1..Len(rels') : UpsertEffect(k, s, triple[2], t, d)
    BY <1>1
<1>3. entity' = entity /\ k \in DOMAIN rels'
    BY <1>2, UpsertTables, LenProperties DEF Tables
<1>4. d \in rels'[k].evidence /\ rels'[k].source = s /\ rels'[k].predicate = triple[2]
      /\ rels'[k].target = t
    BY <1>2 DEF UpsertEffect, SameEnds
<1>5. Means(rels[k].source, triple[1])' /\ Means(rels[k].target, triple[3])'
    BY <1>1, <1>3, <1>4 DEF Means, Leads
<1> QED BY <1>3, <1>4, <1>5 DEF Stated

LEMMA UpsertComplete ==
    ASSUME Base, Complete, Next, faults = 0, NEW p \in Procs, UpsertRelation(p)
    PROVE  Complete'
<1> DEFINE rest == Tail(job[p].triples)
           j == [job[p] EXCEPT !.triples = rest]
<1>1. /\ job[p] \in Job /\ job[p].triples # <<>> /\ job' = [job EXCEPT ![p] = j]
      /\ pc[p] = "relate" /\ pc' = pc /\ docs' = docs
    BY UpsertWork, WorkType
<1>2. /\ Head(job[p].triples) = job[p].triples[1]
      /\ \A i \in DOMAIN job[p].triples :
            i = 1 \/ (i - 1 \in DOMAIN rest /\ job[p].triples[i] = rest[i - 1])
    <2>1. job[p].triples \in Seq(Triples)
        BY <1>1 DEF Job
    <2> QED BY <1>1, <2>1, HeadTail
<1> HIDE DEF rest
<1>3. j.doc = job[p].doc /\ j.triples = rest
    BY <1>1 DEF Job
<1> HIDE DEF j
<1>4. pc'[p] = pc[p] /\ job'[p] = j
      /\ \A q \in Procs \ {p} : pc'[q] = pc[q] /\ job'[q] = job[q]
    BY <1>1 DEF Base, Control
<1>5. Pending(pc[p], job[p])
    BY DEF Complete
<1>6. PICK d, row, todo, triple : /\ d = job[p].doc /\ row = docs[d] /\ todo = job[p].triples
                                  /\ triple = Head(job[p].triples)
    OBVIOUS
<1>7. Stated(d, triple)'
    BY <1>6, UpsertStates
<1>8. \A k \in DOMAIN row.triples : \/ Stated(d, row.triples[k])
                                    \/ \E i \in DOMAIN todo : todo[i] = row.triples[k]
    BY <1>1, <1>5, <1>6 DEF Pending, Working
<1>9. \A k \in DOMAIN row.triples : Stated(d, row.triples[k]) => Stated(d, row.triples[k])'
    BY StatedStays
<1>10. \A i \in DOMAIN todo : \/ todo[i] = triple
                              \/ \E m \in DOMAIN rest : rest[m] = todo[i]
    BY <1>2, <1>6
<1>11. \A k \in DOMAIN row.triples : \/ Stated(d, row.triples[k])'
                                     \/ \E m \in DOMAIN rest : rest[m] = row.triples[k]
    <2> SUFFICES ASSUME NEW k \in DOMAIN row.triples
                 PROVE  \/ Stated(d, row.triples[k])'
                        \/ \E m \in DOMAIN rest : rest[m] = row.triples[k]
        OBVIOUS
    <2>1. CASE Stated(d, row.triples[k])
        BY <2>1, <1>9
    <2>2. CASE \E i \in DOMAIN todo : todo[i] = row.triples[k]
        <3>1. row.triples[k] = triple \/ \E m \in DOMAIN rest : rest[m] = row.triples[k]
            BY <2>2, <1>10
        <3>2. CASE row.triples[k] = triple
            BY <3>2, <1>7
        <3> QED BY <3>1, <3>2
    <2> QED BY <2>1, <2>2, <1>8
<1>12. job'[p].doc = d /\ docs'[d] = row /\ job'[p].triples = rest
    BY <1>1, <1>3, <1>4, <1>6
<1>13. Pending(pc[p], job[p])'
    BY <1>11, <1>12 DEF Pending
<1>14. \A e \in 1..Len(docs') : ~(e > Len(docs))
    BY <1>1, Lengths DEF Base
<1> QED BY <1>3, <1>4, <1>13, <1>14, Completes

LEMMA ChunkEndComplete ==
    ASSUME Base, Complete, Next, faults = 0, NEW p \in Procs, ChunkEnd(p)
    PROVE  Complete'
<1>1. /\ pc[p] = "relate" /\ pc' = [pc EXCEPT ![p] = "version"] /\ job[p].triples = <<>>
      /\ docs' = docs
    BY DEF ChunkEnd, Goto, graph
<1>2. job'[p].doc = 0 /\ \A q \in Procs \ {p} : job'[q] = job[q]
    <2>1. job' = [job EXCEPT ![p] = [job[p] EXCEPT !.chunks = Tail(job[p].chunks), !.doc = 0,
                                                   !.names = {}, !.triples = <<>>]]
        BY DEF ChunkEnd, LeaveChunk
    <2> DEFINE rest == Tail(job[p].chunks)
    <2> HIDE DEF rest
    <2>2. job \in [Procs -> Job] /\ job[p] \in Job
        BY DEF Base, Control
    <2> QED BY <2>1, <2>2 DEF Job
<1>3. pc'[p] = "version" /\ \A q \in Procs \ {p} : pc'[q] = pc[q]
    BY <1>1 DEF Base, Control
<1>4. \A k \in DOMAIN docs[job[p].doc].triples : Stated(job[p].doc, docs[job[p].doc].triples[k])
    <2>1. Pending(pc[p], job[p])
        BY DEF Complete
    <2>2. DOMAIN job[p].triples = {}
        BY <1>1
    <2> QED BY <1>1, <2>1, <2>2 DEF Pending, Working
<1>5. Pending(pc[p], job[p])'
    BY <1>3 DEF Pending, Working
<1>6. \A d \in 1..Len(docs') : ~(d > Len(docs))
    BY <1>1, Lengths DEF Base
<1> QED BY <1>2, <1>3, <1>4, <1>5, <1>6, Completes

LEMMA NothingMoves ==
    ASSUME Complete, UNCHANGED <<docs, entity, rels, pc, job, faults>>
    PROVE  Complete'
<1>1. faults' = faults /\ docs' = docs /\ entity' = entity /\ rels' = rels /\ pc' = pc /\ job' = job
    OBVIOUS
<1>2. \A e, n : Means(e, n)' <=> Means(e, n)
    BY <1>1 DEF Means
<1>3. \A d, triple : Stated(d, triple)' <=> Stated(d, triple)
    BY <1>1, <1>2 DEF Stated
<1>4. EvidenceComplete' <=> EvidenceComplete
    BY <1>1 DEF EvidenceComplete, Means
<1>5. \A p \in Procs : Pending(pc[p], job[p]) => Pending(pc[p], job[p])'
    BY <1>1, <1>3 DEF Pending
<1> QED BY <1>1, <1>4, <1>5 DEF Complete

LEMMA CompleteStep == Base /\ Complete /\ [Next]_vars => Complete'
<1> SUFFICES ASSUME Base, Complete, [Next]_vars PROVE Complete'
    OBVIOUS
<1>1. CASE UNCHANGED vars
    <2>1. UNCHANGED <<docs, entity, rels, pc, job, faults>>
        BY <1>1 DEF vars
    <2> QED BY <2>1, NothingMoves
<1>2. ASSUME NEW f \in Paths, Edit(f) PROVE Complete'
    <2>1. UNCHANGED <<docs, entity, rels, pc, job, faults>>
        BY <1>2 DEF Edit, graph
    <2> QED BY <2>1, NothingMoves
<1>3. ASSUME NEW p \in Procs, FailChunk(p) \/ Crash(p) PROVE Complete'
    <2>1. faults' = faults + 1 /\ faults \in Nat
        BY <1>3 DEF FailChunk, Crash, Base, Control
    <2>2. faults' # 0
        BY <2>1
    <2> QED BY <2>2 DEF Complete
<1>4. ASSUME NEW p \in Procs, Next, (\E f \in Paths : Begin(p, f)) \/ Ingest(p) PROVE Complete'
    <2>1. faults' = faults
        BY <1>4 DEF Begin, Ingest, End, NextVersion, InsertDocument, FindAlias, MissAlias,
           MatchSimilar, MatchNone, AddAlias, CreateEntity, LoseRace, ResolveEnd,
           UpsertRelation, ChunkEnd
    <2>2. CASE faults # 0
        BY <2>1, <2>2 DEF Complete
    <2>3. CASE faults = 0
        <3>1. CASE (\E f \in Paths : Begin(p, f)) \/ End(p) \/ NextVersion(p)
            BY <1>4, <2>3, <3>1, BetweenComplete
        <3>2. CASE InsertDocument(p)
            BY <1>4, <2>3, <3>2, InsertComplete
        <3>3. CASE MissAlias(p) \/ MatchSimilar(p) \/ MatchNone(p) \/ ResolveEnd(p)
            BY <1>4, <2>3, <3>3, LooksComplete
        <3>4. CASE FindAlias(p) \/ AddAlias(p) \/ CreateEntity(p) \/ LoseRace(p)
            <4>1. Resolves(p)
                BY <3>4, FindAliasResolves, AddAliasResolves, CreateEntityResolves, LoseRaceResolves
            <4> QED BY <1>4, <2>3, <4>1, ResolvesComplete
        <3>5. CASE UpsertRelation(p)
            BY <1>4, <2>3, <3>5, UpsertComplete
        <3>6. CASE ChunkEnd(p)
            BY <1>4, <2>3, <3>6, ChunkEndComplete
        <3> QED BY <1>4, <3>1, <3>2, <3>3, <3>4, <3>5, <3>6 DEF Ingest
    <2> QED BY <2>2, <2>3
<1> QED BY <1>1, <1>2, <1>3, <1>4 DEF Next

(* Without failures, every triple of a document nobody is working on is a  *)
(* relation between entities of its names, with the document as evidence,  *)
(* although other processes create and bind the same names meanwhile.      *)
THEOREM EvidenceIsComplete == Spec => []EvidenceComplete
<1>1. Init => Complete
    BY EmptySeq DEF Init, Complete, Pending, Working, EvidenceComplete
<1>2. Base /\ Complete /\ [Next]_vars => Complete'
    BY CompleteStep
<1>3. Spec => [](faults = 0 => EvidenceComplete)
    <2>1. Complete => (faults = 0 => EvidenceComplete)
        BY DEF Complete
    <2> QED BY <1>1, <1>2, <2>1, Invariant, PTL DEF Spec
<1>4. (faults = 0 => EvidenceComplete) => EvidenceComplete
    BY DEF EvidenceComplete
<1> QED BY <1>3, <1>4, PTL
=============================================================================
