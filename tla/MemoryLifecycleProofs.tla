----------------------- MODULE MemoryLifecycleProofs -----------------------
(***************************************************************************)
(* Theorems about MemoryLifecycle for any number of processes, projects,   *)
(* traces, gates, units and faults, and any text heuristics.               *)
(***************************************************************************)
EXTENDS MemoryLifecycle, ConsolidationProofs

USE ProcsAssumption, TracesAssumption, BoundsAssumption, CommandsAssumption

RowType == [content : Contents \cup {NoContent}, status : Statuses, by : Ids \cup {NoUnit},
            sources : SUBSET Sources, logged : Statuses, before : Statuses]
Rows == [Ids -> RowType]
Present == Statuses \ {"absent"}
MoveType == [unit : Ids, to : Present, by : Ids \cup {NoUnit}]
JobType == [name : CommandNames \cup {"none"}, project : Projects, gate : Gates,
            todo : SUBSET Keys, done : SUBSET Keys, cur : Keys \cup Captures \cup {NoKey},
            unit : Ids \cup {NoUnit}, target : Ids \cup {NoUnit}, to : Statuses,
            plan : SUBSET MoveType]
LeaseType == [owner : Procs \cup {NoProc, Killed}, live : BOOLEAN]
Pcs == Leased \cup {"idle", "lease", "put"}

\* What a command knows when it is at a step.
StageOK(at, j) ==
    /\ at # "idle" => j.name \in Commands
    /\ at = "lease" => j.name # "capture"
    /\ at = "insert" => j.cur \in Keys
    /\ at = "put" => j.cur \in Captures
    /\ at = "apply" => j.name = "consolidate"
    /\ at = "read" => j.name = "restore"
    /\ at = "move" => j.name \in {"retract", "restore", "supersede"} /\ j.to \in Present
    /\ at \in {"lease", "read", "move"} /\ j.name \in {"retract", "restore", "supersede"}
           => j.unit \in Ids
    /\ at \in {"lease", "move"} /\ j.name = "retract" => j.to = "retracted"
    /\ at = "lease" /\ j.name = "supersede" => j.to = "superseded"

Tables == /\ triage \in [Keys -> TriageStates]
          /\ unit \in Rows
          /\ lease \in [Projects -> LeaseType]
          /\ faults \in 0..MaxFaults
Control == /\ pc \in [Procs -> Pcs]
           /\ job \in [Procs -> JobType]
           /\ \A p \in Procs : StageOK(pc[p], job[p])
TypeInv == Tables /\ Control
-----------------------------------------------------------------------------
(* Facts about the policy and about the tables.                            *)

(* A transition writes the status and keeps what the unit says and quotes. *)
LEMMA MovedRow ==
    ASSUME NEW row \in RowType, NEW to \in Present, NEW by \in Ids \cup {NoUnit}
    PROVE  /\ Moved(row, to, by) \in RowType
           /\ Moved(row, to, by).status = to
           /\ Moved(row, to, by).content = row.content
           /\ Moved(row, to, by).sources = row.sources
BY DEF Moved, RowType, Present

\* The row as it was, or moved.
Kept(row, new) == /\ new \in RowType
                  /\ new.content = row.content /\ new.sources = row.sources
                  /\ row.status \in Present => new.status \in Present
                  /\ new.status \notin Present => new = row

(* A plan applied keeps the contents and sources of all rows, and makes no *)
(* row vanish.                                                             *)
LEMMA AppliedRows ==
    ASSUME NEW U \in Rows, NEW plan \in SUBSET MoveType
    PROVE  /\ Applied(U, plan) \in Rows
           /\ \A u \in Ids : Kept(U[u], Applied(U, plan)[u])
<1>1. ASSUME NEW u \in Ids, NEW row \in RowType, NEW to \in Present
      PROVE  Kept(row, After(plan, u, row, to))
    <2> DEFINE moves == {m \in plan : m.unit = u /\ m.to = to}
    <2>1. CASE moves = {}
        BY <2>1 DEF Kept, After
    <2>2. CASE moves # {}
        <3>1. (CHOOSE m \in moves : TRUE) \in moves
            BY <2>2
        <3>2. (CHOOSE m \in moves : TRUE).by \in Ids \cup {NoUnit}
            BY <3>1 DEF MoveType
        <3> QED BY <2>2, <3>2, MovedRow DEF Kept, After
    <2> QED BY <2>1, <2>2
<1>2. DOMAIN U = Ids /\ \A u \in Ids : U[u] \in RowType
    BY DEF Rows
<1>3. ASSUME NEW u \in Ids PROVE Kept(U[u], AfterAll(plan, u, U[u]))
    <2> DEFINE
            a1 == After(plan, u, U[u], "superseded")
            a2 == After(plan, u, a1, "archived")
            a3 == After(plan, u, a2, "crystal")
            a4 == After(plan, u, a3, "crystal_candidate")
            a5 == After(plan, u, a4, "active_unit")
    <2>0. MoveKinds \subseteq Present
        BY DEF MoveKinds, Present, Statuses, LiveStatuses
    <2> USE DEF MoveKinds
    <2>1. Kept(U[u], a1)
        BY <1>1, <1>2, <2>0
    <2>2. Kept(a1, a2)
        <3> HIDE DEF a1
        <3> QED BY <1>1, <2>0, <2>1 DEF Kept
    <2>3. Kept(a2, a3)
        <3> HIDE DEF a2
        <3> QED BY <1>1, <2>0, <2>2 DEF Kept
    <2>4. Kept(a3, a4)
        <3> HIDE DEF a3
        <3> QED BY <1>1, <2>0, <2>3 DEF Kept
    <2>5. Kept(a4, a5)
        <3> HIDE DEF a4
        <3> QED BY <1>1, <2>0, <2>4 DEF Kept
    <2>6. AfterAll(plan, u, U[u]) = a5
        BY DEF AfterAll
    <2> HIDE DEF a1, a2, a3, a4, a5
    <2> QED BY <2>1, <2>2, <2>3, <2>4, <2>5, <2>6 DEF Kept
<1> QED BY <1>2, <1>3, AppliedAfter DEF Rows, Kept

(* A plan moves units of the table, to statuses a unit may have.           *)
LEMMA PlanType ==
    ASSUME NEW U \in Rows
    PROVE  Plan(U) \subseteq MoveType
<1>1. DOMAIN U = 1..MaxUnits
    BY DEF Rows, Ids
<1>2. ASSUME NEW m \in Plan(U) PROVE m \in MoveType
    <2>1. /\ m.unit \in Ids /\ m.to \in MoveKinds /\ m.by \in Ids \cup {NoUnit}
          /\ m = [unit |-> m.unit, to |-> m.to, by |-> m.by]
        BY <1>1, PlanUnits DEF Ids
    <2> QED BY <2>1 DEF MoveType, MoveKinds, Present, Statuses, LiveStatuses
<1> QED BY <1>2

(* create_memory_unit keeps every source, adds the one it is given, and    *)
(* disturbs no status but that of a row it creates.                        *)
LEMMA PutRows ==
    ASSUME unit \in Rows,
           NEW content \in Contents, NEW source \in Sources,
           NEW status \in {"active_unit", "unit_candidate"},
           Put(content, source, status)
    PROVE  /\ unit' \in Rows
           /\ \E u \in Ids : source \in unit'[u].sources
           /\ \A u \in Ids : unit[u].status = "absent" \/ Kept(unit[u], unit'[u])
                             \/ /\ unit'[u] \in RowType
                                /\ unit'[u].status = unit[u].status
                                /\ unit'[u].content = unit[u].content
                                /\ unit[u].sources \subseteq unit'[u].sources
<1>1. CASE \E u \in Ids : /\ unit[u].content = content
                          /\ unit' = [unit EXCEPT ![u].sources = @ \cup {source},
                                                  ![u].logged = status]
    <2>1. PICK u \in Ids : /\ unit[u].content = content
                           /\ unit' = [unit EXCEPT ![u].sources = @ \cup {source},
                                                   ![u].logged = status]
        BY <1>1
    <2>2. unit[u] \in RowType
        BY DEF Rows
    <2>3. unit'[u] = [unit[u] EXCEPT !.sources = @ \cup {source}, !.logged = status]
        BY <2>1 DEF Rows
    <2>4. /\ unit'[u] \in RowType /\ source \in unit'[u].sources
          /\ unit'[u].status = unit[u].status /\ unit'[u].content = unit[u].content
          /\ unit[u].sources \subseteq unit'[u].sources
        <3> DEFINE sources == unit[u].sources \cup {source}
        <3>1. status \in Statuses /\ sources \in SUBSET Sources
            BY <2>2 DEF RowType, Statuses, LiveStatuses
        <3>2. unit'[u] = [unit[u] EXCEPT !.sources = sources, !.logged = status]
            BY <2>3
        <3>3. source \in sources /\ unit[u].sources \subseteq sources
            OBVIOUS
        <3> HIDE DEF sources
        <3>4. /\ unit'[u] \in RowType /\ unit'[u].sources = sources
              /\ unit'[u].status = unit[u].status /\ unit'[u].content = unit[u].content
            BY <2>2, <3>1, <3>2 DEF RowType
        <3> QED BY <3>3, <3>4
    <2>5. \A v \in Ids \ {u} : unit'[v] = unit[v] /\ unit'[v] \in RowType
        BY <2>1 DEF Rows
    <2>6. unit' \in Rows
        BY <2>1, <2>4, <2>5 DEF Rows
    <2> QED BY <2>4, <2>5, <2>6 DEF Kept
<1>2. CASE \E u \in Ids : /\ FreeId(u)
                          /\ unit' = [unit EXCEPT ![u] =
                                 [AbsentRow EXCEPT !.content = content, !.status = status,
                                                   !.sources = {source}, !.logged = status]]
    <2>1. PICK u \in Ids : /\ FreeId(u)
                           /\ unit' = [unit EXCEPT ![u] =
                                 [AbsentRow EXCEPT !.content = content, !.status = status,
                                                   !.sources = {source}, !.logged = status]]
        BY <1>2
    <2>2. unit[u].status = "absent"
        BY <2>1 DEF FreeId, Exists
    <2>3. unit'[u] = [content |-> content, status |-> status, by |-> NoUnit,
                      sources |-> {source}, logged |-> status, before |-> "absent"]
        BY <2>1 DEF Rows, AbsentRow
    <2>4. unit'[u] \in RowType /\ source \in unit'[u].sources
        <3>1. status \in Statuses /\ "absent" \in Statuses /\ {source} \in SUBSET Sources
            BY DEF Statuses, LiveStatuses
        <3> QED BY <2>3, <3>1 DEF RowType
    <2>5. \A v \in Ids \ {u} : unit'[v] = unit[v] /\ unit'[v] \in RowType
        BY <2>1 DEF Rows
    <2>6. unit' \in Rows
        BY <2>1, <2>4, <2>5 DEF Rows
    <2> QED BY <2>2, <2>4, <2>5, <2>6 DEF Kept
<1> QED BY <1>1, <1>2 DEF Put
-----------------------------------------------------------------------------
(* The type invariant.                                                     *)

\* What a command does when it begins: it has read, and is at its first call.
\* Its plan, if it has one, is that of the rows it has read.
Began(p, to, j) ==
    /\ pc[p] = "idle"
    /\ pc' = [pc EXCEPT ![p] = to]
    /\ job' = [job EXCEPT ![p] = j]
    /\ to \in {"lease", "put"} /\ j.done = {} /\ j.plan \subseteq Plan(unit)
    /\ UNCHANGED <<triage, unit, lease, faults>>

LEMMA BeginShape ==
    ASSUME TypeInv, NEW p \in Procs, Begin(p)
    PROVE  \E j \in JobType, to \in Pcs : Began(p, to, j) /\ StageOK(to, j)
<1> USE DEF StageOK
<1>0. /\ NoJob \in JobType /\ unit \in Rows
      /\ \A s \in Statuses : s # "absent" => s \in Present
      /\ {"retracted", "superseded", "absent"} \subseteq Statuses
      /\ {"lease", "put"} \subseteq Pcs
      /\ NoUnit \notin Ids
    BY DEF NoJob, JobType, TypeInv, Tables, Rows, RowType, Present, Statuses, LiveStatuses, Pcs,
           Ids, NoUnit
<1>1. ASSUME NEW g \in Gates, StartTriage(p, g) \/ StartExtract(p, g)
      PROVE  \E j \in JobType, to \in Pcs : Began(p, to, j) /\ StageOK(to, j)
    <2>1. Untriaged(g) \in SUBSET Keys /\ PendingRows(g) \in SUBSET Keys
        BY DEF Untriaged, PendingRows
    <2>2. CASE StartTriage(p, g)
        <3> DEFINE j == [[NoJob EXCEPT !.gate = g, !.todo = Untriaged(g)] EXCEPT !.name = "triage"]
        <3>1. j \in JobType /\ j.done = {} /\ j.plan = {} /\ j.name = "triage"
            BY <1>0, <2>1 DEF JobType, CommandNames, NoJob
        <3>2. Began(p, "lease", j) /\ "triage" \in Commands
            BY <2>2, <3>1 DEF StartTriage, Start, Began, Goto
        <3> HIDE DEF j
        <3> QED BY <1>0, <3>1, <3>2
    <2>3. CASE StartExtract(p, g)
        <3> DEFINE j == [[NoJob EXCEPT !.gate = g, !.todo = PendingRows(g)] EXCEPT !.name = "extract"]
        <3>1. j \in JobType /\ j.done = {} /\ j.plan = {} /\ j.name = "extract"
            BY <1>0, <2>1 DEF JobType, CommandNames, NoJob
        <3>2. Began(p, "lease", j) /\ "extract" \in Commands
            BY <2>3, <3>1 DEF StartExtract, Start, Began, Goto
        <3> HIDE DEF j
        <3> QED BY <1>0, <3>1, <3>2
    <2> QED BY <1>1, <2>2, <2>3
<1>2. ASSUME StartConsolidate(p) PROVE \E j \in JobType, to \in Pcs : Began(p, to, j) /\ StageOK(to, j)
    <2> DEFINE j == [[NoJob EXCEPT !.plan = Plan(unit)] EXCEPT !.name = "consolidate"]
    <2>0. Plan(unit) \in SUBSET MoveType
        BY <1>0, PlanType
    <2>1. j \in JobType /\ j.done = {} /\ j.plan = Plan(unit) /\ j.name = "consolidate"
        BY <1>0, <2>0 DEF JobType, CommandNames, NoJob
    <2>2. Began(p, "lease", j) /\ "consolidate" \in Commands
        BY <1>2, <2>1 DEF StartConsolidate, Start, Began, Goto
    <2> HIDE DEF j
    <2> QED BY <1>0, <2>1, <2>2
<1>3. ASSUME StartCheckpoint(p) PROVE \E j \in JobType, to \in Pcs : Began(p, to, j) /\ StageOK(to, j)
    <2> DEFINE j == [NoJob EXCEPT !.name = "checkpoint"]
    <2>1. j \in JobType /\ j.done = {} /\ j.plan = {} /\ j.name = "checkpoint"
        BY <1>0 DEF JobType, CommandNames, NoJob
    <2>2. Began(p, "lease", j) /\ "checkpoint" \in Commands
        BY <1>3, <2>1 DEF StartCheckpoint, Start, Began, Goto
    <2> HIDE DEF j
    <2> QED BY <1>0, <2>1, <2>2
<1>4. ASSUME NEW u \in Ids, NEW r \in Projects,
             Start(p, "retract", "lease",
                   [NoJob EXCEPT !.project = r, !.unit = u, !.to = "retracted"])
      PROVE  \E j \in JobType, to \in Pcs : Began(p, to, j) /\ StageOK(to, j)
    <2> DEFINE j == [[NoJob EXCEPT !.project = r, !.unit = u, !.to = "retracted"]
                        EXCEPT !.name = "retract"]
    <2>1. j \in JobType /\ j.done = {} /\ j.plan = {} /\ j.name = "retract" /\ j.unit = u /\ j.to = "retracted"
        BY <1>0 DEF JobType, CommandNames, NoJob
    <2>2. Began(p, "lease", j) /\ "retract" \in Commands
        BY <1>4, <2>1 DEF Start, Began, Goto
    <2> HIDE DEF j
    <2> QED BY <1>0, <2>1, <2>2
<1>5. ASSUME NEW u \in Ids, NEW r \in Projects,
             Start(p, "restore", "lease", [NoJob EXCEPT !.project = r, !.unit = u])
      PROVE  \E j \in JobType, to \in Pcs : Began(p, to, j) /\ StageOK(to, j)
    <2> DEFINE j == [[NoJob EXCEPT !.project = r, !.unit = u] EXCEPT !.name = "restore"]
    <2>1. j \in JobType /\ j.done = {} /\ j.plan = {} /\ j.name = "restore" /\ j.unit = u
        BY <1>0 DEF JobType, CommandNames, NoJob
    <2>2. Began(p, "lease", j) /\ "restore" \in Commands
        BY <1>5, <2>1 DEF Start, Began, Goto
    <2> HIDE DEF j
    <2> QED BY <1>0, <2>1, <2>2
<1>6. ASSUME NEW u \in Ids, NEW v \in Ids, NEW r \in Projects,
             Start(p, "supersede", "lease",
                   [NoJob EXCEPT !.project = r, !.unit = u, !.target = v, !.to = "superseded"])
      PROVE  \E j \in JobType, to \in Pcs : Began(p, to, j) /\ StageOK(to, j)
    <2> DEFINE j == [[NoJob EXCEPT !.project = r, !.unit = u, !.target = v, !.to = "superseded"]
                        EXCEPT !.name = "supersede"]
    <2>1. j \in JobType /\ j.done = {} /\ j.plan = {} /\ j.name = "supersede" /\ j.unit = u
          /\ j.to = "superseded"
        BY <1>0 DEF JobType, CommandNames, NoJob
    <2>2. Began(p, "lease", j) /\ "supersede" \in Commands
        BY <1>6, <2>1 DEF Start, Began, Goto
    <2> HIDE DEF j
    <2> QED BY <1>0, <2>1, <2>2
<1>7. ASSUME NEW c \in Captures, Start(p, "capture", "put", [NoJob EXCEPT !.cur = c])
      PROVE  \E j \in JobType, to \in Pcs : Began(p, to, j) /\ StageOK(to, j)
    <2> DEFINE j == [[NoJob EXCEPT !.cur = c] EXCEPT !.name = "capture"]
    <2>1. j \in JobType /\ j.done = {} /\ j.plan = {} /\ j.name = "capture" /\ j.cur = c
        BY <1>0 DEF JobType, CommandNames, NoJob
    <2>2. Began(p, "put", j) /\ "capture" \in Commands
        BY <1>7, <2>1 DEF Start, Began, Goto
    <2> HIDE DEF j
    <2> QED BY <1>0, <2>1, <2>2
<1> HIDE DEF StageOK
<1> QED BY <1>1, <1>2, <1>3, <1>4, <1>5, <1>6, <1>7
        DEF Begin, StartRetract, StartRestore, StartSupersede, StartCapture

LEMMA TypeInvTypeOK == TypeInv => TypeOK
<1> SUFFICES ASSUME TypeInv PROVE TypeOK
    OBVIOUS
<1>1. ASSUME NEW p \in Procs
      PROVE  /\ job[p].todo \cup job[p].done \subseteq Keys
             /\ job[p].plan \subseteq [unit : Ids, to : Statuses, by : Ids \cup {NoUnit}]
    <2>1. job[p] \in JobType
        BY DEF TypeInv, Control
    <2>2. MoveType \subseteq [unit : Ids, to : Statuses, by : Ids \cup {NoUnit}]
        BY DEF MoveType, Present
    <2> QED BY <2>1, <2>2 DEF JobType
<1> QED BY <1>1 DEF TypeInv, Tables, Control, TypeOK, Rows, RowType, LeaseType, Pcs

LEMMA InitTypeInv == Init => TypeInv
<1> SUFFICES ASSUME Init PROVE TypeInv
    OBVIOUS
<1>1. NoJob \in JobType /\ AbsentRow \in RowType /\ NoLease \in LeaseType
    BY DEF NoJob, JobType, AbsentRow, RowType, NoLease, LeaseType, Statuses
<1>2. Tables
    BY <1>1 DEF Init, Tables, TriageStates, Rows
<1>3. StageOK("idle", NoJob)
    BY DEF StageOK
<1>4. Control
    BY <1>1, <1>3 DEF Init, Control, Pcs
<1> QED BY <1>2, <1>4 DEF TypeInv

\* The process is at `to` next, with the job j.
Went(p, to, j) == pc' = [pc EXCEPT ![p] = to] /\ job' = [job EXCEPT ![p] = j]

LEMMA WentControl ==
    ASSUME Control, NEW p \in Procs, NEW to \in Pcs, NEW j \in JobType,
           Went(p, to, j), StageOK(to, j)
    PROVE  Control'
BY DEF Control, Went

LEMMA StayControl ==
    ASSUME Control, UNCHANGED <<pc, job>>
    PROVE  Control'
BY DEF Control

LEMMA StepTypeInv == TypeInv /\ [Next]_vars => TypeInv'
<1> SUFFICES ASSUME TypeInv, [Next]_vars PROVE TypeInv'
    OBVIOUS
<1> USE DEF TypeInv
<1>p. /\ Leased \cup {"idle", "lease", "put"} = Pcs
      /\ \A at \in {"list", "triage", "select", "cover", "insert", "apply", "read", "move",
                    "release", "idle", "lease", "put"} : at \in Pcs
    BY DEF Pcs, Leased
<1>j. NoJob \in JobType /\ StageOK("idle", NoJob)
    BY DEF NoJob, JobType, StageOK, Statuses
<1>s. \A p \in Procs : job[p] \in JobType /\ pc[p] \in Pcs /\ StageOK(pc[p], job[p])
    BY DEF Control
<1>1. ASSUME NEW p \in Procs, Begin(p) PROVE TypeInv'
    <2>1. PICK j \in JobType, to \in Pcs : Began(p, to, j) /\ StageOK(to, j)
        BY <1>1, BeginShape
    <2> QED BY <2>1, WentControl DEF Began, Went, Tables
<1>2. ASSUME NEW p \in Procs, Capture(p) PROVE TypeInv'
    <2>1. job[p].cur \in Captures
        BY <1>2, <1>s DEF Capture, Goto, StageOK
    <2>2. job[p].cur[1] \in Contents /\ job[p].cur[2] \in Sources
        BY <2>1 DEF Sources
    <2>3. unit' \in Rows
        BY <1>2, <2>2, PutRows DEF Capture, Tables
    <2>4. Went(p, "idle", NoJob)
        BY <1>2 DEF Capture, Goto, Went
    <2> QED BY <1>2, <1>j, <1>p, <2>3, <2>4, WentControl DEF Capture, Tables
<1>3. ASSUME NEW p \in Procs, Acquire(p) PROVE TypeInv'
    <2>1. /\ job[p].name \in CommandNames \ {"capture"} /\ job[p].name \in Commands
          /\ StageOK("lease", job[p])
        BY <1>3, <1>s DEF Acquire, Goto, StageOK
    <2>2. Went(p, FirstStep(job[p].name), job[p])
        BY <1>3, <1>s DEF Acquire, Goto, Went, Control
    <2>3. FirstStep(job[p].name) \in Pcs /\ StageOK(FirstStep(job[p].name), job[p])
        BY <1>p, <2>1 DEF FirstStep, StageOK, CommandNames, Present, Statuses
    <2>4. lease' \in [Projects -> LeaseType]
        BY <1>3 DEF Acquire, Tables, LeaseType
    <2> QED BY <1>3, <1>s, <2>2, <2>3, <2>4, WentControl DEF Acquire, Tables
<1>4. ASSUME NEW p \in Procs, AcquireDenied(p) PROVE TypeInv'
    <2>1. Went(p, "idle", NoJob)
        BY <1>4 DEF AcquireDenied, Goto, Went
    <2> QED BY <1>4, <1>j, <1>p, <2>1, WentControl DEF AcquireDenied, Tables
<1>5. ASSUME NEW p \in Procs, Release(p) PROVE TypeInv'
    <2>1. Went(p, "idle", NoJob)
        BY <1>5 DEF Release, Goto, Went
    <2>2. lease' \in [Projects -> LeaseType]
        <3>1. NoLease \in LeaseType
            BY DEF NoLease, LeaseType
        <3> QED BY <1>5, <3>1 DEF Release, Tables
    <2> QED BY <1>5, <1>j, <1>p, <2>1, <2>2, WentControl DEF Release, Tables
<1>6. ASSUME NEW p \in Procs, List(p) PROVE TypeInv'
    <2> DEFINE j == [job[p] EXCEPT !.todo = Untriaged(job[p].gate)]
    <2>1. j \in JobType /\ j.name = job[p].name
        BY <1>s DEF JobType, Untriaged
    <2>2. Went(p, "triage", j)
        BY <1>6 DEF List, Goto, Went
    <2>3. StageOK("triage", j)
        BY <1>6, <1>s, <2>1 DEF List, Goto, StageOK
    <2> QED BY <1>6, <1>p, <2>1, <2>2, <2>3, WentControl DEF List, Tables
<1>7. ASSUME NEW p \in Procs, TriageRow(p) PROVE TypeInv'
    <2>1. PICK k \in job[p].todo :
             /\ triage' = [triage EXCEPT ![k] = IF @ = "consumed" THEN @
                                                ELSE IF k[1] \in Extractable THEN "pending"
                                                ELSE "rejected"]
             /\ job' = [job EXCEPT ![p].todo = @ \ {k}]
        BY <1>7 DEF TriageRow
    <2> DEFINE j == [job[p] EXCEPT !.todo = @ \ {k}]
    <2>2. j \in JobType /\ j.name = job[p].name
        BY <1>s DEF JobType
    <2>3. Went(p, "triage", j)
        BY <1>7, <2>1 DEF TriageRow, Went, Control
    <2>4. StageOK("triage", j)
        BY <1>7, <1>s, <2>2 DEF TriageRow, StageOK
    <2>5. triage' \in [Keys -> TriageStates]
        BY <2>1 DEF Tables, TriageStates
    <2> QED BY <1>7, <1>p, <2>2, <2>3, <2>4, <2>5, WentControl DEF TriageRow, Tables
<1>8. ASSUME NEW p \in Procs, TriageEnd(p) PROVE TypeInv'
    <2>1. PICK to \in {"select", "release"} : pc[p] = "triage" /\ pc' = [pc EXCEPT ![p] = to]
        BY <1>8 DEF TriageEnd, Goto
    <2>2. Went(p, to, job[p]) /\ StageOK(to, job[p])
        BY <1>8, <1>s, <2>1 DEF TriageEnd, Went, StageOK, Control
    <2> QED BY <1>8, <1>p, <1>s, <2>1, <2>2, WentControl DEF TriageEnd, Tables
<1>9. ASSUME NEW p \in Procs, Select(p) PROVE TypeInv'
    <2> DEFINE j == [job[p] EXCEPT !.todo = PendingRows(job[p].gate)]
    <2>1. j \in JobType /\ j.name = job[p].name
        BY <1>s DEF JobType, PendingRows
    <2>2. Went(p, "cover", j)
        BY <1>9 DEF Select, Goto, Went
    <2>3. StageOK("cover", j)
        BY <1>9, <1>s, <2>1 DEF Select, Goto, StageOK
    <2> QED BY <1>9, <1>p, <2>1, <2>2, <2>3, WentControl DEF Select, Tables
<1>10. ASSUME NEW p \in Procs, Cover(p) PROVE TypeInv'
    <2>1. PICK k \in job[p].todo :
             IF Covered(k[1])
             THEN /\ job' = [job EXCEPT ![p].todo = @ \ {k}, ![p].done = @ \cup {k}]
                  /\ UNCHANGED pc
             ELSE /\ job' = [job EXCEPT ![p].todo = @ \ {k}, ![p].cur = k]
                  /\ Goto(p, "cover", "insert")
        BY <1>10 DEF Cover
    <2>2. k \in Keys /\ pc[p] = "cover" /\ job[p].name \in Commands
        BY <1>10, <1>s DEF Cover, JobType, StageOK
    <2>3. CASE Covered(k[1])
        <3> DEFINE j == [job[p] EXCEPT !.todo = @ \ {k}, !.done = @ \cup {k}]
        <3>1. j \in JobType /\ j.name = job[p].name
            BY <1>s, <2>2 DEF JobType
        <3>2. Went(p, "cover", j)
            BY <2>1, <2>2, <2>3 DEF Went, Control
        <3>3. StageOK("cover", j)
            BY <2>2, <3>1 DEF StageOK
        <3> QED BY <1>10, <1>p, <3>1, <3>2, <3>3, WentControl DEF Cover, Tables
    <2>4. CASE ~Covered(k[1])
        <3> DEFINE j == [job[p] EXCEPT !.todo = @ \ {k}, !.cur = k]
        <3>1. j \in JobType /\ j.name = job[p].name /\ j.cur = k
            BY <1>s, <2>2 DEF JobType
        <3>2. Went(p, "insert", j)
            BY <2>1, <2>4 DEF Went, Goto
        <3>3. StageOK("insert", j)
            BY <2>2, <3>1 DEF StageOK
        <3> QED BY <1>10, <1>p, <3>1, <3>2, <3>3, WentControl DEF Cover, Tables
    <2> QED BY <2>3, <2>4
<1>11. ASSUME NEW p \in Procs, Insert(p) PROVE TypeInv'
    <2>1. job[p].cur \in Keys /\ job[p].name \in Commands
        BY <1>11, <1>s DEF Insert, Goto, StageOK
    <2>2. job[p].cur[1] \in Contents /\ job[p].cur[1] \in Sources
        BY <2>1 DEF Keys, Sources
    <2>3. unit' \in Rows
        BY <1>11, <2>2, PutRows DEF Insert, Tables, InitialStatus
    <2> DEFINE j == [job[p] EXCEPT !.done = @ \cup {job[p].cur}, !.cur = NoKey]
    <2>4. j \in JobType /\ j.name = job[p].name
        BY <1>s, <2>1 DEF JobType
    <2>5. Went(p, "cover", j)
        BY <1>11 DEF Insert, Goto, Went
    <2>6. StageOK("cover", j)
        BY <2>1, <2>4 DEF StageOK
    <2> QED BY <1>11, <1>p, <2>3, <2>4, <2>5, <2>6, WentControl DEF Insert, Tables
<1>12. ASSUME NEW p \in Procs, Consume(p) PROVE TypeInv'
    <2>1. Went(p, "release", job[p]) /\ StageOK("release", job[p])
        BY <1>12, <1>s DEF Consume, Goto, Went, StageOK, Control
    <2>2. triage' \in [Keys -> TriageStates]
        BY <1>12 DEF Consume, Tables, TriageStates
    <2> QED BY <1>12, <1>p, <1>s, <2>1, <2>2, WentControl DEF Consume, Tables
<1>13. ASSUME NEW p \in Procs, Apply(p) PROVE TypeInv'
    <2>1. Went(p, "release", job[p]) /\ StageOK("release", job[p])
        BY <1>13, <1>s DEF Apply, Goto, Went, StageOK, Control
    <2>2. job[p].plan \in SUBSET MoveType
        BY <1>s DEF JobType
    <2>3. unit' \in Rows
        BY <1>13, <2>2, AppliedRows DEF Apply, Tables
    <2> QED BY <1>13, <1>p, <1>s, <2>1, <2>3, WentControl DEF Apply, Tables
<1>14. ASSUME NEW p \in Procs, ReadBefore(p) PROVE TypeInv'
    <2>1. pc[p] = "read" /\ job[p].name = "restore" /\ job[p].name \in Commands
          /\ job[p].unit \in Ids
        BY <1>14, <1>s DEF ReadBefore, Goto, StageOK
    <2> DEFINE before == unit[job[p].unit].before
               to == IF before = "absent" THEN "active_unit" ELSE before
               j == [job[p] EXCEPT !.to = to]
    <2>2. to \in Present /\ to \in Statuses
        BY <2>1 DEF Tables, Rows, RowType, Present, Statuses, LiveStatuses
    <2> HIDE DEF to
    <2>3. j \in JobType /\ j.name = job[p].name /\ j.unit = job[p].unit /\ j.to = to
        BY <1>s, <2>2 DEF JobType
    <2>4. Went(p, "move", j)
        BY <1>14 DEF ReadBefore, Goto, Went, to
    <2>5. StageOK("move", j)
        BY <2>1, <2>2, <2>3 DEF StageOK
    <2> QED BY <1>14, <1>p, <2>3, <2>4, <2>5, WentControl DEF ReadBefore, Tables
<1>15. ASSUME NEW p \in Procs, Move(p) PROVE TypeInv'
    <2>1. Went(p, "release", job[p]) /\ StageOK("release", job[p])
        BY <1>15, <1>s DEF Move, Goto, Went, StageOK, Control
    <2>2. /\ job[p].unit \in Ids /\ job[p].to \in Present
          /\ job[p].target \in Ids \cup {NoUnit}
        BY <1>15, <1>s DEF Move, Goto, StageOK, JobType
    <2>3. unit' \in Rows
        BY <1>15, <2>2, MovedRow DEF Move, Tables, Rows
    <2> QED BY <1>15, <1>p, <1>s, <2>1, <2>3, WentControl DEF Move, Tables
<1>16. ASSUME NEW p \in Procs, Crash(p) PROVE TypeInv'
    <2>1. Went(p, "idle", NoJob)
        BY <1>16 DEF Crash, Goto, Went
    <2>2. lease' \in [Projects -> LeaseType]
        BY <1>16 DEF Crash, Tables, LeaseType
    <2>3. faults' \in 0..MaxFaults
        BY <1>16 DEF Crash, Tables
    <2> QED BY <1>16, <1>j, <1>p, <2>1, <2>2, <2>3, WentControl DEF Crash, Tables
<1>17. ASSUME NEW p \in Procs, Abort(p) PROVE TypeInv'
    <2>1. Went(p, "release", job[p])
        BY <1>17 DEF Abort, Goto, Went, Control
    <2>2. StageOK("release", job[p])
        BY <1>17, <1>s DEF Abort, Leased, StageOK
    <2>3. faults' \in 0..MaxFaults
        BY <1>17 DEF Abort, Tables
    <2> QED BY <1>17, <1>p, <1>s, <2>1, <2>2, <2>3, WentControl DEF Abort, Tables
<1>18. ASSUME NEW r \in Projects, Expire(r) PROVE TypeInv'
    <2>1. lease' \in [Projects -> LeaseType]
        BY <1>18 DEF Expire, Tables, LeaseType
    <2> QED BY <1>18, <2>1, StayControl DEF Expire, Tables
<1>19. ASSUME UNCHANGED vars PROVE TypeInv'
    BY <1>19, StayControl DEF vars, Tables
<1> QED
    BY <1>1, <1>2, <1>3, <1>4, <1>5, <1>6, <1>7, <1>8, <1>9, <1>10, <1>11, <1>12, <1>13,
       <1>14, <1>15, <1>16, <1>17, <1>18, <1>19 DEF Next, Continue

LEMMA TypeInvAlways == Spec => []TypeInv
BY InitTypeInv, StepTypeInv, PTL DEF Spec

(* Every table, lease and command keeps its type, whatever goes wrong.     *)
THEOREM TypeCorrect == Spec => []TypeOK
BY TypeInvAlways, TypeInvTypeOK, PTL
-----------------------------------------------------------------------------
(* The lifecycle lease excludes.                                           *)

Timely == "slow" \notin Env

\* Whoever is past acquire_lifecycle_lease holds the lease, and it is live.
HolderInv == \A p \in Procs : pc[p] \in Leased =>
                 lease[job[p].project] = [owner |-> p, live |-> TRUE]

HInv == TypeInv /\ HolderInv

LEMMA HolderExclusive == HInv => LeaseExclusive
<1> SUFFICES ASSUME HInv, NEW p \in Procs, NEW q \in Procs,
                    pc[p] \in Leased, pc[q] \in Leased, job[p].project = job[q].project
             PROVE  p = q
    BY DEF LeaseExclusive
<1>1. [owner |-> p, live |-> TRUE] = [owner |-> q, live |-> TRUE]
    BY DEF HInv, HolderInv
<1>2. [owner |-> p, live |-> TRUE].owner = [owner |-> q, live |-> TRUE].owner
    BY <1>1
<1> QED BY <1>2

\* The leased part of a command goes on with the lease and project it has.
Inner(p) == \/ List(p) \/ TriageRow(p) \/ TriageEnd(p) \/ Select(p) \/ Cover(p) \/ Insert(p)
            \/ Consume(p) \/ Apply(p) \/ ReadBefore(p) \/ Move(p) \/ Abort(p)

LEMMA InnerKeeps ==
    ASSUME TypeInv, NEW p \in Procs, Inner(p)
    PROVE  /\ pc[p] \in Leased /\ UNCHANGED lease
           /\ \A q \in Procs : job'[q].project = job[q].project
           /\ \A q \in Procs \ {p} : pc'[q] = pc[q]
<1> USE DEF Goto
<1>0. /\ pc \in [Procs -> Pcs] /\ job \in [Procs -> JobType]
      /\ \A q \in Procs : job[q] \in JobType
    BY DEF TypeInv, Control
<1>1. CASE List(p)
    BY <1>0, <1>1 DEF List, Leased, JobType
<1>2. CASE TriageRow(p)
    BY <1>0, <1>2 DEF TriageRow, Leased, JobType
<1>3. CASE TriageEnd(p)
    BY <1>0, <1>3 DEF TriageEnd, Leased
<1>4. CASE Select(p)
    BY <1>0, <1>4 DEF Select, Leased, JobType
<1>5. CASE Cover(p)
    BY <1>0, <1>5 DEF Cover, Leased, JobType
<1>6. CASE Insert(p)
    BY <1>0, <1>6 DEF Insert, Leased, JobType
<1>7. CASE Consume(p) \/ Apply(p) \/ Move(p)
    BY <1>0, <1>7 DEF Consume, Apply, Move, Leased
<1>8. CASE ReadBefore(p)
    BY <1>0, <1>8 DEF ReadBefore, Leased, JobType
<1>9. CASE Abort(p)
    BY <1>0, <1>9 DEF Abort
<1> QED BY <1>1, <1>2, <1>3, <1>4, <1>5, <1>6, <1>7, <1>8, <1>9 DEF Inner

LEMMA StepHInv == Timely /\ HInv /\ [Next]_vars => HInv'
<1> SUFFICES ASSUME Timely, HInv, [Next]_vars PROVE HolderInv'
    BY StepTypeInv DEF HInv
<1>0. /\ TypeInv /\ HolderInv
      /\ pc \in [Procs -> Pcs] /\ job \in [Procs -> JobType]
      /\ lease \in [Projects -> LeaseType]
      /\ \A p \in Procs : job[p].project \in Projects
    BY DEF HInv, TypeInv, Control, Tables, JobType
<1>1. ASSUME NEW p \in Procs, Begin(p) PROVE HolderInv'
    <2>1. PICK j \in JobType, to \in Pcs : Began(p, to, j)
        BY <1>0, <1>1, BeginShape
    <2>2. to \notin Leased
        BY <2>1 DEF Began, Leased
    <2> QED BY <1>0, <2>1, <2>2 DEF Began, HolderInv
<1>2. ASSUME NEW p \in Procs, Capture(p) \/ AcquireDenied(p) PROVE HolderInv'
    BY <1>0, <1>2 DEF Capture, AcquireDenied, Goto, HolderInv, Leased
<1>3. ASSUME NEW p \in Procs, Acquire(p) PROVE HolderInv'
    <2>1. /\ pc[p] = "lease" /\ job' = job
          /\ \A q \in Procs \ {p} : pc'[q] = pc[q]
          /\ lease' = [lease EXCEPT ![job[p].project] = [owner |-> p, live |-> TRUE]]
          /\ ~LeaseRefused(p)
        BY <1>0, <1>3 DEF Acquire, Goto
    <2>2. ASSUME NEW q \in Procs, pc'[q] \in Leased
          PROVE  lease'[job'[q].project] = [owner |-> q, live |-> TRUE]
        <3>1. CASE q = p
            BY <1>0, <2>1, <3>1
        <3>2. CASE q # p
            <4>1. lease[job[q].project] = [owner |-> q, live |-> TRUE]
                BY <1>0, <2>1, <2>2, <3>2 DEF HolderInv
            <4>2. job[q].project # job[p].project
                BY <2>1, <3>2, <4>1 DEF LeaseRefused
            <4> QED BY <1>0, <2>1, <4>1, <4>2
        <3> QED BY <3>1, <3>2
    <2> QED BY <2>2 DEF HolderInv
<1>4. ASSUME NEW p \in Procs, Release(p) PROVE HolderInv'
    <2>1. /\ pc[p] = "release" /\ pc[p] \in Leased /\ pc'[p] = "idle"
          /\ \A q \in Procs \ {p} : pc'[q] = pc[q] /\ job'[q] = job[q]
        BY <1>0, <1>4 DEF Release, Goto, Leased
    <2>2. ASSUME NEW q \in Procs, pc'[q] \in Leased
          PROVE  lease'[job'[q].project] = [owner |-> q, live |-> TRUE]
        <3>1. q # p
            BY <2>1, <2>2 DEF Leased
        <3>2. /\ lease[job[q].project] = [owner |-> q, live |-> TRUE]
              /\ lease[job[p].project] = [owner |-> p, live |-> TRUE]
            BY <1>0, <2>1, <2>2, <3>1 DEF HolderInv
        <3>3. job[q].project # job[p].project
            BY <3>1, <3>2
        <3> QED BY <1>0, <1>4, <2>1, <3>1, <3>2, <3>3 DEF Release
    <2> QED BY <2>2 DEF HolderInv
<1>5. ASSUME NEW p \in Procs, Inner(p) PROVE HolderInv'
    BY <1>0, <1>5, InnerKeeps DEF HolderInv
<1>6. ASSUME NEW p \in Procs, Crash(p) PROVE HolderInv'
    <2>1. /\ pc'[p] = "idle"
          /\ \A q \in Procs \ {p} : pc'[q] = pc[q] /\ job'[q] = job[q]
        BY <1>0, <1>6 DEF Crash, Goto
    <2>2. ASSUME NEW q \in Procs, pc'[q] \in Leased
          PROVE  lease'[job'[q].project] = [owner |-> q, live |-> TRUE]
        <3>1. q # p
            BY <2>1, <2>2 DEF Leased
        <3>2. lease[job[q].project] = [owner |-> q, live |-> TRUE]
            BY <1>0, <2>1, <2>2, <3>1 DEF HolderInv
        <3> QED BY <1>0, <1>6, <2>1, <3>1, <3>2 DEF Crash
    <2> QED BY <2>2 DEF HolderInv
<1>7. ASSUME NEW r \in Projects, Expire(r) PROVE HolderInv'
    <2>1. lease[r].owner = Killed /\ pc' = pc /\ job' = job
        BY <1>7 DEF Expire, Timely
    <2>2. ASSUME NEW q \in Procs, pc[q] \in Leased
          PROVE  lease'[job[q].project] = [owner |-> q, live |-> TRUE]
        <3>1. lease[job[q].project] = [owner |-> q, live |-> TRUE]
            BY <1>0, <2>2 DEF HolderInv
        <3>2. job[q].project # r
            BY <2>1, <3>1
        <3> QED BY <1>0, <1>7, <3>1, <3>2 DEF Expire
    <2> QED BY <2>1, <2>2 DEF HolderInv
<1>8. ASSUME UNCHANGED vars PROVE HolderInv'
    BY <1>8 DEF vars, HInv, HolderInv
<1> QED
    BY <1>1, <1>2, <1>3, <1>4, <1>5, <1>6, <1>7, <1>8 DEF Next, Continue, Inner

(* At most one process is between acquire_lifecycle_lease and              *)
(* release_lifecycle_lease of a project, as long as no command outlives    *)
(* the 30 seconds its lease lasts.                                         *)
THEOREM LeaseExclusiveHolds == ASSUME Timely PROVE Spec => []LeaseExclusive
<1>1. Init => HInv
    BY InitTypeInv DEF Init, HInv, HolderInv, Leased
<1>2. HInv /\ [Next]_vars => HInv'
    BY Timely, StepHInv
<1> QED BY <1>1, <1>2, HolderExclusive, PTL DEF Spec
-----------------------------------------------------------------------------
(* Consumption.                                                            *)

\* What no step undoes in a row.
Grows(u) == /\ unit[u].sources \subseteq unit'[u].sources
            /\ unit'[u].content = unit[u].content /\ unit'[u].status # "absent"

(* Whatever a command writes, a row keeps what it says and its sources,    *)
(* and no row that exists is unmade.                                       *)
LEMMA RowsGrow ==
    ASSUME TypeInv, [Next]_vars, NEW u \in Ids, unit[u].status # "absent"
    PROVE  Grows(u)
<1>0. /\ unit \in Rows /\ unit[u] \in RowType
      /\ \A p \in Procs : job[p] \in JobType /\ StageOK(pc[p], job[p])
    BY DEF TypeInv, Tables, Rows, Control
<1>p. unit[u].status \in Present /\ "absent" \notin Present
    BY <1>0 DEF RowType, Present
<1>1. ASSUME NEW p \in Procs, Capture(p)
      PROVE  Grows(u)
    <2>1. job[p].cur \in Captures
        BY <1>1, <1>0 DEF Capture, Goto, StageOK
    <2>2. job[p].cur[1] \in Contents /\ job[p].cur[2] \in Sources
        BY <2>1 DEF Sources
    <2> QED BY <1>0, <1>1, <1>p, <2>2, PutRows DEF Capture, Kept, Grows
<1>2. ASSUME NEW p \in Procs, Insert(p)
      PROVE  Grows(u)
    <2>1. job[p].cur \in Keys
        BY <1>2, <1>0 DEF Insert, Goto, StageOK
    <2>2. job[p].cur[1] \in Contents /\ job[p].cur[1] \in Sources
        BY <2>1 DEF Keys, Sources
    <2> QED BY <1>0, <1>2, <1>p, <2>2, PutRows DEF Insert, Kept, Grows, InitialStatus
<1>3. ASSUME NEW p \in Procs, Apply(p)
      PROVE  Grows(u)
    <2>1. job[p].plan \in SUBSET MoveType
        BY <1>0 DEF JobType
    <2> QED BY <1>0, <1>3, <1>p, <2>1, AppliedRows DEF Apply, Kept, Grows
<1>4. ASSUME NEW p \in Procs, Move(p)
      PROVE  Grows(u)
    <2>1. /\ job[p].unit \in Ids /\ job[p].to \in Present
          /\ job[p].target \in Ids \cup {NoUnit}
        BY <1>4, <1>0 DEF Move, Goto, StageOK, JobType
    <2> DEFINE new == Moved(unit[job[p].unit], job[p].to, job[p].target)
    <2>2. unit[job[p].unit] \in RowType
        BY <1>0, <2>1 DEF Rows
    <2>3. /\ new.sources = unit[job[p].unit].sources /\ new.status \in Present
          /\ new.content = unit[job[p].unit].content
        BY <2>1, <2>2, MovedRow
    <2>4. unit' = [unit EXCEPT ![job[p].unit] = new]
        BY <1>4 DEF Move
    <2> HIDE DEF new
    <2>5. \/ u = job[p].unit /\ unit'[u] = new
          \/ u # job[p].unit /\ unit'[u] = unit[u]
        BY <1>0, <2>1, <2>4 DEF Rows
    <2> QED BY <1>p, <2>3, <2>5 DEF Grows
<1>5. CASE UNCHANGED unit
    BY <1>5 DEF Grows
<1>6. ASSUME NEW p \in Procs, Begin(p) PROVE UNCHANGED unit
    BY <1>6, BeginShape DEF Began
<1> QED
    BY <1>1, <1>2, <1>3, <1>4, <1>5, <1>6
       DEF Next, Continue, vars, Acquire, AcquireDenied, Release, List, TriageRow, TriageEnd,
           Select, Cover, Consume, ReadBefore, Crash, Abort, Expire

\* A row that was never written has no sources, so that writing it loses none.
EmptyInv == \A u \in Ids : unit[u].status = "absent" => unit[u] = AbsentRow

\* What an extraction will mark consumed has a unit.
DoneInv == \A p \in Procs : \A k \in job[p].done : \E u \in Ids : k[1] \in unit[u].sources

CInv == TypeInv /\ EmptyInv /\ DoneInv /\ ConsumedCovered

LEMMA PutKeepsEmpty ==
    ASSUME unit \in Rows, EmptyInv,
           NEW content \in Contents, NEW source \in Sources,
           NEW status \in {"active_unit", "unit_candidate"},
           Put(content, source, status)
    PROVE  EmptyInv'
<1>1. CASE \E u \in Ids : /\ unit[u].content = content
                          /\ unit' = [unit EXCEPT ![u].sources = @ \cup {source},
                                                  ![u].logged = status]
    <2>1. PICK u \in Ids : /\ unit[u].content = content
                           /\ unit' = [unit EXCEPT ![u].sources = @ \cup {source},
                                                   ![u].logged = status]
        BY <1>1
    <2>2. unit[u].status # "absent"
        BY <2>1, ContentAssumption DEF EmptyInv, AbsentRow
    <2>3. unit'[u].status = unit[u].status
        BY <2>1 DEF Rows, RowType
    <2>4. \A v \in Ids \ {u} : unit'[v] = unit[v]
        BY <2>1 DEF Rows
    <2> QED BY <2>2, <2>3, <2>4 DEF EmptyInv
<1>2. CASE \E u \in Ids : /\ FreeId(u)
                          /\ unit' = [unit EXCEPT ![u] =
                                 [AbsentRow EXCEPT !.content = content, !.status = status,
                                                   !.sources = {source}, !.logged = status]]
    <2>1. PICK u \in Ids :
              unit' = [unit EXCEPT ![u] =
                          [AbsentRow EXCEPT !.content = content, !.status = status,
                                            !.sources = {source}, !.logged = status]]
        BY <1>2
    <2>2. unit'[u].status # "absent"
        BY <2>1 DEF Rows, AbsentRow
    <2>3. \A v \in Ids \ {u} : unit'[v] = unit[v]
        BY <2>1 DEF Rows
    <2> QED BY <2>2, <2>3 DEF EmptyInv
<1> QED BY <1>1, <1>2 DEF Put

LEMMA StepEmptyInv == TypeInv /\ EmptyInv /\ [Next]_vars => EmptyInv'
<1> SUFFICES ASSUME TypeInv, EmptyInv, [Next]_vars PROVE EmptyInv'
    OBVIOUS
<1>0. /\ unit \in Rows
      /\ \A p \in Procs : job[p] \in JobType /\ StageOK(pc[p], job[p])
    BY DEF TypeInv, Tables, Control
<1>p. "absent" \notin Present
    BY DEF Present
<1>1. ASSUME NEW p \in Procs, Capture(p) PROVE EmptyInv'
    <2>1. job[p].cur \in Captures
        BY <1>1, <1>0 DEF Capture, Goto, StageOK
    <2>2. job[p].cur[1] \in Contents /\ job[p].cur[2] \in Sources
        BY <2>1 DEF Sources
    <2> QED BY <1>0, <1>1, <2>2, PutKeepsEmpty DEF Capture
<1>2. ASSUME NEW p \in Procs, Insert(p) PROVE EmptyInv'
    <2>1. job[p].cur \in Keys
        BY <1>2, <1>0 DEF Insert, Goto, StageOK
    <2>2. job[p].cur[1] \in Contents /\ job[p].cur[1] \in Sources
        BY <2>1 DEF Keys, Sources
    <2> QED BY <1>0, <1>2, <2>2, PutKeepsEmpty DEF Insert, InitialStatus
<1>3. ASSUME NEW p \in Procs, Apply(p) PROVE EmptyInv'
    <2>1. job[p].plan \in SUBSET MoveType
        BY <1>0 DEF JobType
    <2>2. \A u \in Ids : Kept(unit[u], unit'[u])
        BY <1>0, <1>3, <2>1, AppliedRows DEF Apply
    <2> QED BY <1>p, <2>2 DEF EmptyInv, Kept
<1>4. ASSUME NEW p \in Procs, Move(p) PROVE EmptyInv'
    <2>1. /\ job[p].unit \in Ids /\ job[p].to \in Present
          /\ job[p].target \in Ids \cup {NoUnit}
        BY <1>4, <1>0 DEF Move, Goto, StageOK, JobType
    <2>2. unit'[job[p].unit].status \in Present
        BY <1>0, <1>4, <2>1, MovedRow DEF Move, Rows
    <2>3. \A u \in Ids \ {job[p].unit} : unit'[u] = unit[u]
        BY <1>0, <1>4 DEF Move, Rows
    <2> QED BY <1>p, <2>2, <2>3 DEF EmptyInv
<1>5. CASE UNCHANGED unit
    BY <1>5 DEF EmptyInv
<1>6. ASSUME NEW p \in Procs, Begin(p) PROVE UNCHANGED unit
    BY <1>6, BeginShape DEF Began
<1> QED
    BY <1>1, <1>2, <1>3, <1>4, <1>5, <1>6
       DEF Next, Continue, vars, Acquire, AcquireDenied, Release, List, TriageRow, TriageEnd,
           Select, Cover, Consume, ReadBefore, Crash, Abort, Expire

(* What a step adds to the rows to be marked has a unit once it is taken.  *)
LEMMA StepDoneInv == TypeInv /\ EmptyInv /\ DoneInv /\ [Next]_vars => DoneInv'
<1> SUFFICES ASSUME TypeInv, EmptyInv, DoneInv, [Next]_vars PROVE DoneInv'
    OBVIOUS
<1>0. /\ unit \in Rows /\ job \in [Procs -> JobType]
      /\ \A p \in Procs : job[p] \in JobType /\ StageOK(pc[p], job[p])
      /\ NoJob.done = {}
    BY DEF TypeInv, Tables, Control, NoJob
<1>1. \A u \in Ids : unit[u].sources \subseteq unit'[u].sources
    BY RowsGrow DEF EmptyInv, AbsentRow, Grows
<1>2. ASSUME \A q \in Procs : job'[q].done \subseteq job[q].done PROVE DoneInv'
    BY <1>1, <1>2 DEF DoneInv
<1>3. ASSUME NEW p \in Procs, Begin(p) PROVE DoneInv'
    <2>1. PICK j \in JobType, to \in Pcs : Began(p, to, j)
        BY <1>3, BeginShape
    <2> QED BY <1>0, <1>2, <2>1 DEF Began
<1>4. ASSUME NEW p \in Procs,
             Capture(p) \/ AcquireDenied(p) \/ Release(p) \/ Crash(p)
      PROVE  DoneInv'
    <2>1. job' = [job EXCEPT ![p] = NoJob]
        BY <1>4 DEF Capture, AcquireDenied, Release, Crash
    <2> QED BY <1>0, <1>2, <2>1
<1>5. ASSUME NEW p \in Procs, List(p) \/ TriageRow(p) \/ Select(p) \/ ReadBefore(p)
      PROVE  DoneInv'
    <2>1. \A q \in Procs : job'[q].done = job[q].done
        BY <1>0, <1>5 DEF List, TriageRow, Select, ReadBefore, JobType
    <2> QED BY <1>2, <2>1
<1>6. ASSUME NEW p \in Procs, Cover(p) PROVE DoneInv'
    <2>1. PICK k \in job[p].todo :
             IF Covered(k[1])
             THEN job' = [job EXCEPT ![p].todo = @ \ {k}, ![p].done = @ \cup {k}]
             ELSE job' = [job EXCEPT ![p].todo = @ \ {k}, ![p].cur = k]
        BY <1>6 DEF Cover
    <2>2. \A q \in Procs \ {p} : job'[q] = job[q]
        BY <1>0, <2>1
    <2>3. CASE Covered(k[1])
        <3>1. job'[p].done = job[p].done \cup {k}
            BY <1>0, <2>1, <2>3 DEF JobType
        <3>2. \E u \in Ids : k[1] \in unit[u].sources
            BY <2>3 DEF Covered
        <3> QED BY <1>1, <2>2, <3>1, <3>2 DEF DoneInv
    <2>4. CASE ~Covered(k[1])
        <3>1. job'[p].done = job[p].done
            BY <1>0, <2>1, <2>4 DEF JobType
        <3> QED BY <1>2, <2>2, <3>1
    <2> QED BY <2>3, <2>4
<1>7. ASSUME NEW p \in Procs, Insert(p) PROVE DoneInv'
    <2>1. job[p].cur \in Keys
        BY <1>7, <1>0 DEF Insert, Goto, StageOK
    <2>2. job[p].cur[1] \in Contents /\ job[p].cur[1] \in Sources
        BY <2>1 DEF Keys, Sources
    <2>3. \E u \in Ids : job[p].cur[1] \in unit'[u].sources
        BY <1>0, <1>7, <2>2, PutRows DEF Insert, InitialStatus
    <2>4. \A q \in Procs \ {p} : job'[q] = job[q]
        BY <1>0, <1>7 DEF Insert
    <2>5. job'[p].done = job[p].done \cup {job[p].cur}
        BY <1>0, <1>7 DEF Insert, JobType
    <2> QED BY <1>1, <2>3, <2>4, <2>5 DEF DoneInv
<1>8. CASE UNCHANGED job
    BY <1>2, <1>8
<1> QED
    BY <1>3, <1>4, <1>5, <1>6, <1>7, <1>8
       DEF Next, Continue, vars, Acquire, TriageEnd, Consume, Apply, Move, Abort, Expire

\* A step makes consumed only what was, or what an extraction has done.
LEMMA ConsumedFrom ==
    ASSUME TypeInv, [Next]_vars, NEW k \in Keys, triage'[k] = "consumed"
    PROVE  triage[k] = "consumed" \/ \E p \in Procs : k \in job[p].done
<1>0. triage \in [Keys -> TriageStates]
    BY DEF TypeInv, Tables
<1>1. ASSUME NEW p \in Procs, TriageRow(p) PROVE triage[k] = "consumed"
    BY <1>0, <1>1 DEF TriageRow
<1>2. ASSUME NEW p \in Procs, Consume(p) PROVE triage[k] = "consumed" \/ k \in job[p].done
    BY <1>2 DEF Consume
<1>3. CASE UNCHANGED triage
    BY <1>3
<1>4. ASSUME NEW p \in Procs, Begin(p) PROVE UNCHANGED triage
    BY <1>4, BeginShape DEF Began
<1> QED
    BY <1>1, <1>2, <1>3, <1>4
       DEF Next, Continue, vars, Capture, Acquire, AcquireDenied, Release, List, TriageEnd,
           Select, Cover, Insert, Apply, ReadBefore, Move, Crash, Abort, Expire

LEMMA StepCInv == CInv /\ [Next]_vars => CInv'
<1> SUFFICES ASSUME CInv, [Next]_vars PROVE CInv'
    OBVIOUS
<1>1. TypeInv' /\ EmptyInv' /\ DoneInv'
    BY StepTypeInv, StepEmptyInv, StepDoneInv DEF CInv
<1>2. \A u \in Ids : unit[u].sources \subseteq unit'[u].sources
    BY RowsGrow DEF CInv, EmptyInv, AbsentRow, Grows
<1>3. ASSUME NEW k \in Keys, triage'[k] = "consumed"
      PROVE  \E u \in Ids : k[1] \in unit'[u].sources
    <2>1. \E u \in Ids : k[1] \in unit[u].sources
        BY <1>3, ConsumedFrom DEF CInv, DoneInv, ConsumedCovered
    <2> QED BY <1>2, <2>1
<1> QED BY <1>1, <1>3 DEF CInv, ConsumedCovered

(* A trace that is marked consumed has a unit, wherever the extraction was *)
(* killed or interrupted, and whoever wrote units meanwhile.               *)
THEOREM ConsumedCoveredHolds == Spec => []ConsumedCovered
<1>1. Init => CInv
    <2> SUFFICES ASSUME Init PROVE CInv
        OBVIOUS
    <2>1. NoJob.done = {} /\ "none" # "consumed"
        BY DEF NoJob
    <2> QED BY <2>1, InitTypeInv DEF Init, CInv, EmptyInv, DoneInv, ConsumedCovered
<1>2. CInv => ConsumedCovered
    BY DEF CInv
<1> QED BY <1>1, <1>2, StepCInv, PTL DEF Spec

(* A consumed row stays consumed, though triage decides again about rows   *)
(* it read before it had the lease.                                        *)
THEOREM ConsumedFinalHolds == Spec => ConsumedIsFinal
<1>1. ASSUME TypeInv, [Next]_vars, NEW k \in Keys, triage[k] = "consumed"
      PROVE  triage'[k] = "consumed"
    <2>0. triage \in [Keys -> TriageStates]
        BY <1>1 DEF TypeInv, Tables
    <2>1. ASSUME NEW p \in Procs, TriageRow(p) PROVE triage'[k] = "consumed"
        BY <1>1, <2>0, <2>1 DEF TriageRow
    <2>2. ASSUME NEW p \in Procs, Consume(p) PROVE triage'[k] = "consumed"
        BY <1>1, <2>2 DEF Consume
    <2>3. CASE UNCHANGED triage
        BY <1>1, <2>3
    <2>4. ASSUME NEW p \in Procs, Begin(p) PROVE UNCHANGED triage
        BY <1>1, <2>4, BeginShape DEF Began
    <2> QED
        BY <1>1, <2>1, <2>2, <2>3, <2>4
           DEF Next, Continue, vars, Capture, Acquire, AcquireDenied, Release, List, TriageEnd,
               Select, Cover, Insert, Apply, ReadBefore, Move, Crash, Abort, Expire
<1>2. TypeInv /\ [Next]_vars => [\A k \in Keys : triage[k] = "consumed" => triage'[k] = "consumed"]_vars
    BY <1>1
<1> QED BY <1>2, TypeInvAlways, PTL DEF Spec, ConsumedIsFinal
-----------------------------------------------------------------------------
(* Retraction.                                                             *)

(* No plan names a unit that was retracted when the rows were read.        *)
LEMMA PlanOfListed ==
    ASSUME NEW U \in Rows, NEW m \in Plan(U)
    PROVE  U[m.unit].status # "retracted"
<1>1. DOMAIN U = 1..MaxUnits
    BY DEF Rows, Ids
<1>2. Ordinary(U) \cup Current(U) \subseteq Listed(U)
    BY DEF Ordinary, Current, Valid
<1>3. m.unit \in Listed(U)
    BY <1>1, <1>2, PlanGroups, SupersessionMove
<1> QED BY <1>3 DEF Listed, LiveStatuses

(* Only a restore, a supersede or an older plan that names it brings a     *)
(* retracted unit back, whichever commands run beside it.                  *)
THEOREM RetractionHeldHolds == Spec => RetractionHeld
<1>1. ASSUME TypeInv, [Next]_vars, NEW u \in Ids, unit[u].status = "retracted",
             unit'[u].status # "retracted"
      PROVE  \E p \in Procs : Overrules(p, u)
    <2>0. /\ unit \in Rows
          /\ pc \in [Procs -> Pcs]
          /\ \A p \in Procs : job[p] \in JobType /\ StageOK(pc[p], job[p])
        BY <1>1 DEF TypeInv, Tables, Control
    <2>1. ASSUME NEW content \in Contents, NEW source \in Sources,
                 NEW status \in {"active_unit", "unit_candidate"},
                 Put(content, source, status)
          PROVE  FALSE
        <3>1. CASE \E v \in Ids : unit' = [unit EXCEPT ![v].sources = @ \cup {source},
                                                       ![v].logged = status]
            BY <1>1, <2>0, <2>1, <3>1 DEF Rows, RowType
        <3>2. CASE \E v \in Ids :
                      /\ FreeId(v)
                      /\ unit' = [unit EXCEPT ![v] =
                            [AbsentRow EXCEPT !.content = content, !.status = status,
                                              !.sources = {source}, !.logged = status]]
            BY <1>1, <2>0, <2>1, <3>2 DEF Rows, FreeId, Exists
        <3> QED BY <2>1, <3>1, <3>2 DEF Put
    <2>2. ASSUME NEW p \in Procs, Capture(p) PROVE FALSE
        <3>1. job[p].cur \in Captures
            BY <2>0, <2>2 DEF Capture, Goto, StageOK
        <3>2. job[p].cur[1] \in Contents /\ job[p].cur[2] \in Sources
            BY <3>1 DEF Sources
        <3> QED BY <2>1, <2>2, <3>2 DEF Capture
    <2>3. ASSUME NEW p \in Procs, Insert(p) PROVE FALSE
        <3>1. job[p].cur \in Keys
            BY <2>0, <2>3 DEF Insert, Goto, StageOK
        <3>2. job[p].cur[1] \in Contents /\ job[p].cur[1] \in Sources
            BY <3>1 DEF Keys, Sources
        <3> QED BY <2>1, <2>3, <3>2 DEF Insert, InitialStatus
    <2>4. ASSUME NEW p \in Procs, Apply(p) PROVE Overrules(p, u)
        <3>1. pc[p] = "apply" /\ pc'[p] = "release"
            BY <2>0, <2>4 DEF Apply, Goto
        <3>2. ~Names(p, u) => unit'[u] = unit[u]
            <4> SUFFICES ASSUME ~Names(p, u) PROVE Applied(unit, job[p].plan)[u] = unit[u]
                BY <2>4 DEF Apply
            <4>1. \A to : {m \in job[p].plan : m.unit = u /\ m.to = to} = {}
                BY DEF Names
            <4>2. u \in DOMAIN unit
                BY <2>0 DEF Rows
            <4> QED BY <4>1, <4>2 DEF Applied
        <3> QED BY <1>1, <3>1, <3>2 DEF Overrules
    <2>5. ASSUME NEW p \in Procs, Move(p) PROVE Overrules(p, u)
        <3>1. /\ job[p].unit \in Ids /\ job[p].to \in Present
              /\ job[p].target \in Ids \cup {NoUnit}
              /\ job[p].name \in {"retract", "restore", "supersede"}
              /\ job[p].name = "retract" => job[p].to = "retracted"
              /\ pc[p] = "move" /\ pc'[p] = "release"
            BY <2>0, <2>5 DEF Move, Goto, StageOK, JobType
        <3> DEFINE new == Moved(unit[job[p].unit], job[p].to, job[p].target)
        <3>2. new.status = job[p].to
            BY <2>0, <3>1, MovedRow DEF Rows
        <3>3. unit' = [unit EXCEPT ![job[p].unit] = new]
            BY <2>5 DEF Move
        <3> HIDE DEF new
        <3>4. job[p].unit = u /\ job[p].to # "retracted"
            BY <1>1, <2>0, <3>1, <3>2, <3>3 DEF Rows
        <3> QED BY <3>1, <3>4 DEF Overrules
    <2>6. CASE UNCHANGED unit
        BY <1>1, <2>6
    <2>7. ASSUME NEW p \in Procs, Begin(p) PROVE UNCHANGED unit
        BY <1>1, <2>7, BeginShape DEF Began
    <2> QED
        BY <1>1, <2>2, <2>3, <2>4, <2>5, <2>6, <2>7
           DEF Next, Continue, vars, Acquire, AcquireDenied, Release, List, TriageRow, TriageEnd,
               Select, Cover, Consume, ReadBefore, Crash, Abort, Expire
<1>2. ASSUME TypeInv, [Next]_vars, NEW u \in Ids, unit[u].status = "retracted",
             NEW p \in Procs, Names(p, u)'
      PROVE  Names(p, u)
    <2>0. unit \in Rows /\ job \in [Procs -> JobType] /\ NoJob.plan = {}
        BY <1>2 DEF TypeInv, Tables, Control, NoJob
    <2>1. job'[p].plan \subseteq job[p].plan => Names(p, u)
        BY <1>2 DEF Names
    <2>2. CASE Begin(p)
        <3>1. job'[p].plan \subseteq Plan(unit)
            BY <1>2, <2>0, <2>2, BeginShape DEF Began
        <3>2. ~Names(p, u)'
            BY <1>2, <2>0, <3>1, PlanOfListed DEF Names
        <3> QED BY <1>2, <3>2
    <2>3. ASSUME NEW q \in Procs, Begin(q), q # p PROVE job'[p] = job[p]
        BY <1>2, <2>0, <2>3, BeginShape DEF Began
    <2>4. ASSUME NEW q \in Procs, Continue(q) \/ Crash(q) \/ Abort(q)
          PROVE  job'[p].plan \subseteq job[p].plan
        <3>1. CASE Capture(q) \/ AcquireDenied(q) \/ Release(q) \/ Crash(q)
            <4>1. job' = [job EXCEPT ![q] = NoJob]
                BY <3>1 DEF Capture, AcquireDenied, Release, Crash
            <4> QED BY <2>0, <4>1
        <3>2. CASE List(q) \/ Select(q)
            <4>1. \E x : job' = [job EXCEPT ![q].todo = x]
                BY <3>2 DEF List, Select
            <4> QED BY <2>0, <4>1 DEF JobType
        <3>3. CASE TriageRow(q)
            <4>1. \E x : job' = [job EXCEPT ![q].todo = x]
                BY <3>3 DEF TriageRow
            <4> QED BY <2>0, <4>1 DEF JobType
        <3>4. CASE Cover(q)
            <4>1. \/ \E x, y : job' = [job EXCEPT ![q].todo = x, ![q].done = y]
                  \/ \E x, y : job' = [job EXCEPT ![q].todo = x, ![q].cur = y]
                BY <3>4 DEF Cover
            <4>2. CASE \E x, y : job' = [job EXCEPT ![q].todo = x, ![q].done = y]
                BY <2>0, <4>2 DEF JobType
            <4>3. CASE \E x, y : job' = [job EXCEPT ![q].todo = x, ![q].cur = y]
                BY <2>0, <4>3 DEF JobType
            <4> QED BY <4>1, <4>2, <4>3
        <3>5. CASE Insert(q)
            <4>1. \E x, y : job' = [job EXCEPT ![q].done = x, ![q].cur = y]
                BY <3>5 DEF Insert
            <4> QED BY <2>0, <4>1 DEF JobType
        <3>6. CASE ReadBefore(q)
            <4>1. \E x : job' = [job EXCEPT ![q].to = x]
                BY <3>6 DEF ReadBefore
            <4> QED BY <2>0, <4>1 DEF JobType
        <3>7. CASE UNCHANGED job
            BY <3>7
        <3> QED
            BY <2>4, <3>1, <3>2, <3>3, <3>4, <3>5, <3>6, <3>7
               DEF Continue, Acquire, TriageEnd, Consume, Apply, Move, Abort
    <2>5. CASE UNCHANGED job
        BY <2>1, <2>5
    <2> QED BY <1>2, <2>1, <2>2, <2>3, <2>4, <2>5 DEF Next, vars, Expire
<1>3. TypeInv /\ [Next]_vars =>
          [\A u \in Ids : unit[u].status = "retracted" =>
              /\ unit'[u].status # "retracted" => \E p \in Procs : Overrules(p, u)
              /\ \A p \in Procs : Names(p, u)' => Names(p, u)]_vars
    BY <1>1, <1>2
<1> QED BY <1>3, TypeInvAlways, PTL DEF Spec, RetractionHeld
-----------------------------------------------------------------------------
(* A crystal was earned, though the plan that promoted it, or the restore  *)
(* that brought it back, was applied to rows that other processes had      *)
(* changed since they were read.                                           *)

\* What content and sources earn, whatever the row is now.
Independent(ss) == \A s, t \in ss : SessionOf[s] = SessionOf[t] => s = t
Earns(content, sources) == \/ content \in Confirmed
                           \/ \E ss \in SUBSET sources :
                                 Cardinality(ss) >= CrystalSourceThreshold /\ Independent(ss)

(* More sources earn no less.                                              *)
LEMMA EarnsMore ==
    ASSUME NEW content, NEW few, NEW many, few \subseteq many, Earns(content, few)
    PROVE  Earns(content, many)
BY DEF Earns

(* Of sources from n sessions, n can be chosen of which no two share one.  *)
LEMMA Representatives ==
    ASSUME NEW sources, IsFiniteSet(sources)
    PROVE  \E ss \in SUBSET sources :
              Cardinality(ss) = Cardinality({SessionOf[s] : s \in sources}) /\ Independent(ss)
<1> DEFINE sessions == {SessionOf[s] : s \in sources}
           first == [k \in sessions |-> CHOOSE s \in sources : SessionOf[s] = k]
           chosen == {first[k] : k \in sessions}
<1>1. IsFiniteSet(sessions)
    <2> DEFINE session == [s \in sources |-> SessionOf[s]]
    <2>1. session \in Surjection(sources, sessions)
        BY DEF Surjection
    <2> HIDE DEF session, sessions
    <2> QED BY <2>1, FS_Surjection
<1>2. \A k \in sessions : first[k] \in sources /\ SessionOf[first[k]] = k
    <2> SUFFICES ASSUME NEW k \in sessions PROVE first[k] \in sources /\ SessionOf[first[k]] = k
        OBVIOUS
    <2>1. \E s \in sources : SessionOf[s] = k
        OBVIOUS
    <2>2. first[k] = CHOOSE s \in sources : SessionOf[s] = k
        OBVIOUS
    <2> HIDE DEF first, sessions
    <2> QED BY <2>1, <2>2
<1> HIDE DEF sessions
<1>3. first \in Bijection(sessions, chosen)
    <2>1. DOMAIN first = sessions
        OBVIOUS
    <2> HIDE DEF first
    <2>2. first = [k \in sessions |-> first[k]]
        BY <2>1 DEF first
    <2>3. \A k, l \in sessions : first[k] = first[l] => k = l
        BY <1>2
    <2>4. first \in [sessions -> chosen]
        BY <2>2
    <2>5. first \in Injection(sessions, chosen)
        BY <2>1, <2>3, <2>4 DEF Injection, IsInjective
    <2>6. first \in Surjection(sessions, chosen)
        BY <2>4 DEF Surjection
    <2> QED BY <2>5, <2>6 DEF Bijection
<1>4. chosen \in SUBSET sources /\ Independent(chosen)
    <2> HIDE DEF first
    <2> QED BY <1>2 DEF Independent
<1> HIDE DEF first, chosen
<1>5. Cardinality(chosen) = Cardinality(sessions)
    BY <1>1, <1>3, FS_Bijection DEF ExistsBijection
<1> QED BY <1>4, <1>5 DEF sessions

(* What crystal_policy promotes has earned it, its sources being finite.   *)
LEMMA PolicyEarns ==
    ASSUME NEW U, NEW u, IsFiniteSet(U[u].sources), CrystalPolicy(U, u)
    PROVE  Earns(U[u].content, U[u].sources)
<1>1. PICK ss \in SUBSET U[u].sources :
          /\ Cardinality(ss) = Cardinality({SessionOf[s] : s \in U[u].sources})
          /\ Independent(ss)
    BY Representatives
<1> QED BY <1>1 DEF CrystalPolicy, IndependentSources, Earns

\* A crystal, and what was one when it was archived, has earned it.
RowEarned(row) == row.status = "crystal" \/ row.before = "crystal"
                      => Earns(row.content, row.sources)

\* What a command is about to make a crystal.
Due(u) == /\ u \in Ids /\ unit[u].status # "absent"
          /\ Earns(unit[u].content, unit[u].sources)

RowsEarned == \A u \in Ids : IsFiniteSet(unit[u].sources) /\ RowEarned(unit[u])
JobEarned(j) == /\ j.to = "crystal" => Due(j.unit)
                /\ \A m \in j.plan : m.to = "crystal" => Due(m.unit)
JobsEarned == \A p \in Procs : JobEarned(job[p])
EarnedInv == TypeInv /\ EmptyInv /\ RowsEarned /\ JobsEarned

(* One more source, or a new row, leaves every crystal earned.             *)
LEMMA PutEarned ==
    ASSUME unit \in Rows, RowsEarned,
           NEW content \in Contents, NEW source \in Sources,
           NEW status \in {"active_unit", "unit_candidate"},
           Put(content, source, status)
    PROVE  RowsEarned'
<1>1. CASE \E u \in Ids : /\ unit[u].content = content
                          /\ unit' = [unit EXCEPT ![u].sources = @ \cup {source},
                                                  ![u].logged = status]
    <2>1. PICK u \in Ids : unit' = [unit EXCEPT ![u].sources = @ \cup {source},
                                                ![u].logged = status]
        BY <1>1
    <2>2. unit[u] \in RowType
        BY DEF Rows
    <2>3. unit'[u] = [unit[u] EXCEPT !.sources = @ \cup {source}, !.logged = status]
        BY <2>1 DEF Rows
    <2>4. /\ unit'[u].sources = unit[u].sources \cup {source}
          /\ unit'[u].content = unit[u].content /\ unit'[u].status = unit[u].status
          /\ unit'[u].before = unit[u].before
        BY <2>2, <2>3 DEF RowType
    <2>5. \A v \in Ids \ {u} : unit'[v] = unit[v]
        BY <2>1 DEF Rows
    <2>6. IsFiniteSet(unit'[u].sources)
        <3>1. PICK old : old = unit[u].sources
            OBVIOUS
        <3>2. IsFiniteSet(old)
            BY <3>1 DEF RowsEarned
        <3>3. IsFiniteSet(old \cup {source})
            BY <3>2, FS_AddElement
        <3> QED BY <2>4, <3>1, <3>3
    <2>7. RowEarned(unit'[u])
        <3>1. RowEarned(unit[u])
            BY DEF RowsEarned
        <3> QED BY <2>4, <3>1, EarnsMore DEF RowEarned
    <2> QED BY <2>5, <2>6, <2>7 DEF RowsEarned
<1>2. CASE \E u \in Ids : /\ FreeId(u)
                          /\ unit' = [unit EXCEPT ![u] =
                                 [AbsentRow EXCEPT !.content = content, !.status = status,
                                                   !.sources = {source}, !.logged = status]]
    <2>1. PICK u \in Ids : unit' = [unit EXCEPT ![u] =
                                 [AbsentRow EXCEPT !.content = content, !.status = status,
                                                   !.sources = {source}, !.logged = status]]
        BY <1>2
    <2>2. unit'[u] = [content |-> content, status |-> status, by |-> NoUnit,
                      sources |-> {source}, logged |-> status, before |-> "absent"]
        BY <2>1 DEF Rows, AbsentRow
    <2>3. IsFiniteSet({source})
        BY FS_Singleton
    <2>4. IsFiniteSet(unit'[u].sources) /\ RowEarned(unit'[u])
        BY <2>2, <2>3 DEF RowEarned
    <2>5. \A v \in Ids \ {u} : unit'[v] = unit[v]
        BY <2>1 DEF Rows
    <2> QED BY <2>4, <2>5 DEF RowsEarned
<1> QED BY <1>1, <1>2 DEF Put

(* A transition leaves the row earned when a crystal it makes was due.     *)
LEMMA MovedEarned ==
    ASSUME NEW row \in RowType, RowEarned(row), IsFiniteSet(row.sources), NEW to, NEW by,
           to = "crystal" => Earns(row.content, row.sources)
    PROVE  RowEarned(Moved(row, to, by)) /\ IsFiniteSet(Moved(row, to, by).sources)
<1>1. IsRow(row)
    BY DEF RowType, IsRow
<1>2. PICK new : new = Moved(row, to, by)
    OBVIOUS
<1>3. /\ new.content = row.content /\ new.sources = row.sources /\ new.status = to
      /\ new.before = IF to = "archived" THEN row.status ELSE row.before
    BY <1>1, <1>2, MovedFields
<1>4. RowEarned(new) /\ IsFiniteSet(new.sources)
    BY <1>3 DEF RowEarned
<1> QED BY <1>2, <1>4

(* A plan applied, however late, leaves every crystal earned, when those   *)
(* it makes are due.                                                       *)
LEMMA AppliedEarned ==
    ASSUME NEW U \in Rows, NEW plan \in SUBSET MoveType, NEW u \in Ids,
           RowEarned(U[u]), IsFiniteSet(U[u].sources),
           \A m \in plan : m.to = "crystal" /\ m.unit = u => Earns(U[u].content, U[u].sources)
    PROVE  RowEarned(Applied(U, plan)[u]) /\ IsFiniteSet(Applied(U, plan)[u].sources)
<1> DEFINE Good(row) == /\ row \in RowType /\ Kept(U[u], row)
                        /\ RowEarned(row) /\ IsFiniteSet(row.sources)
<1>1. ASSUME NEW row \in RowType, Good(row), NEW to \in Present PROVE Good(After(plan, u, row, to))
    <2> DEFINE moves == {m \in plan : m.unit = u /\ m.to = to}
               m == CHOOSE n \in moves : TRUE
    <2>1. CASE moves = {}
        BY <1>1, <2>1 DEF After
    <2>2. CASE moves # {}
        <3>1. m \in moves
            BY <2>2
        <3>2. m \in plan /\ m.unit = u /\ m.to = to /\ m.by \in Ids \cup {NoUnit}
            BY <3>1 DEF MoveType
        <3>3. to = "crystal" => Earns(row.content, row.sources)
            BY <1>1, <3>2 DEF Kept
        <3>4. After(plan, u, row, to) = Moved(row, to, m.by)
            BY <2>2 DEF After
        <3> HIDE DEF m
        <3>5. RowEarned(Moved(row, to, m.by)) /\ IsFiniteSet(Moved(row, to, m.by).sources)
            BY <1>1, <3>3, MovedEarned
        <3>6. Kept(U[u], Moved(row, to, m.by)) /\ Moved(row, to, m.by) \in RowType
            BY <1>1, <3>2, MovedRow DEF Kept
        <3> QED BY <3>4, <3>5, <3>6
    <2> QED BY <2>1, <2>2
<1>2. DOMAIN U = Ids /\ U[u] \in RowType
    BY DEF Rows
<1>3. Good(U[u])
    BY <1>2 DEF Kept
<1>4. Good(AfterAll(plan, u, U[u]))
    <2> DEFINE
            a1 == After(plan, u, U[u], "superseded")
            a2 == After(plan, u, a1, "archived")
            a3 == After(plan, u, a2, "crystal")
            a4 == After(plan, u, a3, "crystal_candidate")
            a5 == After(plan, u, a4, "active_unit")
    <2>0. MoveKinds \subseteq Present /\ \A row : Good(row) => row \in RowType
        BY DEF MoveKinds, Present, Statuses, LiveStatuses
    <2> HIDE DEF Good
    <2> USE DEF MoveKinds
    <2>1. Good(a1)
        BY <1>1, <1>3, <2>0
    <2>2. Good(a2)
        <3> HIDE DEF a1
        <3> QED BY <1>1, <2>0, <2>1
    <2>3. Good(a3)
        <3> HIDE DEF a2
        <3> QED BY <1>1, <2>0, <2>2
    <2>4. Good(a4)
        <3> HIDE DEF a3
        <3> QED BY <1>1, <2>0, <2>3
    <2>5. Good(a5)
        <3> HIDE DEF a4
        <3> QED BY <1>1, <2>0, <2>4
    <2>6. AfterAll(plan, u, U[u]) = a5
        BY DEF AfterAll
    <2> QED BY <2>5, <2>6
<1>5. Applied(U, plan)[u] = AfterAll(plan, u, U[u])
    BY <1>2, AppliedAfter
<1> QED BY <1>4, <1>5
-----------------------------------------------------------------------------
(* The invariant.                                                          *)

(* What is due stays due: what a unit says is fixed, its sources grow.     *)
LEMMA DueStays ==
    ASSUME TypeInv, [Next]_vars, NEW u, Due(u)
    PROVE  Due(u)'
<1>1. u \in Ids /\ Grows(u)
    BY RowsGrow DEF Due
<1>2. Earns(unit[u].content, unit'[u].sources)
    BY <1>1, EarnsMore DEF Due, Grows
<1> QED BY <1>1, <1>2 DEF Due, Grows

(* Only a consolidation begins with a plan, and its crystals are due; no   *)
(* manual transition is to a crystal before it has read the status log.    *)
LEMMA BeginDue ==
    ASSUME TypeInv, RowsEarned, NEW p \in Procs, Begin(p)
    PROVE  /\ JobEarned(job'[p]) /\ job'[p].to # "crystal"
           /\ \A q \in Procs \ {p} : job'[q] = job[q]
<1>0. unit \in Rows /\ job \in [Procs -> JobType]
    BY DEF TypeInv, Tables, Control
<1>1. CASE StartConsolidate(p)
    <2>1. job'[p].to = "absent" /\ job'[p].plan = Plan(unit)
        BY <1>0, <1>1 DEF StartConsolidate, Start, NoJob
    <2>2. \A q \in Procs \ {p} : job'[q] = job[q]
        BY <1>0, <1>1 DEF StartConsolidate, Start
    <2>3. ASSUME NEW m \in Plan(unit), m.to = "crystal" PROVE Due(m.unit)
        <3>1. DOMAIN unit = 1..MaxUnits
            BY <1>0 DEF Rows, Ids
        <3>2. m \notin Supersessions(unit)
            BY <2>3, <3>1, SupersessionMove
        <3>3. m.unit \in Promotions(unit)
            BY <2>3, <3>2, PlanGroups
        <3>4. m.unit \in Ids
            BY <3>1, PlanUnits DEF Ids
        <3>5. IsFiniteSet(unit[m.unit].sources)
            BY <3>4 DEF RowsEarned
        <3>6. Earns(unit[m.unit].content, unit[m.unit].sources)
            BY <3>3, <3>5, PolicyEarns DEF Promotions
        <3> QED BY <3>3, <3>4, <3>6 DEF Due, Promotions
    <2> QED BY <2>1, <2>2, <2>3 DEF JobEarned
<1>2. ASSUME NEW g \in Gates, StartTriage(p, g) \/ StartExtract(p, g)
      PROVE  /\ job'[p].to = "absent" /\ job'[p].plan = {}
             /\ \A q \in Procs \ {p} : job'[q] = job[q]
    BY <1>0, <1>2 DEF StartTriage, StartExtract, Start, NoJob
<1>3. CASE StartCheckpoint(p)
    BY <1>0, <1>3 DEF StartCheckpoint, Start, NoJob, JobEarned
<1>4. CASE StartRetract(p)
    BY <1>0, <1>4 DEF StartRetract, Start, NoJob, JobEarned
<1>5. CASE StartRestore(p)
    BY <1>0, <1>5 DEF StartRestore, Start, NoJob, JobEarned
<1>6. CASE StartSupersede(p)
    BY <1>0, <1>6 DEF StartSupersede, Start, NoJob, JobEarned
<1>7. CASE StartCapture(p)
    BY <1>0, <1>7 DEF StartCapture, Start, NoJob, JobEarned
<1> QED BY <1>1, <1>2, <1>3, <1>4, <1>5, <1>6, <1>7 DEF Begin, JobEarned

(* No step makes a row a crystal that has not earned it.                   *)
LEMMA StepRowsEarned == EarnedInv /\ [Next]_vars => RowsEarned'
<1> SUFFICES ASSUME EarnedInv, [Next]_vars PROVE RowsEarned'
    OBVIOUS
<1>0. /\ TypeInv /\ RowsEarned /\ JobsEarned /\ unit \in Rows
      /\ \A p \in Procs : job[p] \in JobType /\ StageOK(pc[p], job[p])
    BY DEF EarnedInv, TypeInv, Tables, Control
<1>1. ASSUME NEW p \in Procs, Capture(p) PROVE RowsEarned'
    <2>1. job[p].cur \in Captures
        BY <1>1, <1>0 DEF Capture, Goto, StageOK
    <2>2. job[p].cur[1] \in Contents /\ job[p].cur[2] \in Sources
        BY <2>1 DEF Sources
    <2> QED BY <1>0, <1>1, <2>2, PutEarned DEF Capture
<1>2. ASSUME NEW p \in Procs, Insert(p) PROVE RowsEarned'
    <2>1. job[p].cur \in Keys
        BY <1>2, <1>0 DEF Insert, Goto, StageOK
    <2>2. job[p].cur[1] \in Contents /\ job[p].cur[1] \in Sources
        BY <2>1 DEF Keys, Sources
    <2> QED BY <1>0, <1>2, <2>2, PutEarned DEF Insert, InitialStatus
<1>3. ASSUME NEW p \in Procs, Apply(p) PROVE RowsEarned'
    <2>1. job[p].plan \in SUBSET MoveType
        BY <1>0 DEF JobType
    <2>2. \A m \in job[p].plan : m.to = "crystal" => Earns(unit[m.unit].content, unit[m.unit].sources)
        BY <1>0 DEF JobsEarned, JobEarned, Due
    <2>3. ASSUME NEW u \in Ids
          PROVE  RowEarned(Applied(unit, job[p].plan)[u])
                 /\ IsFiniteSet(Applied(unit, job[p].plan)[u].sources)
        BY <1>0, <2>1, <2>2, AppliedEarned DEF RowsEarned
    <2> QED BY <1>3, <2>3 DEF Apply, RowsEarned
<1>4. ASSUME NEW p \in Procs, Move(p) PROVE RowsEarned'
    <2>1. job[p].unit \in Ids
        BY <1>4, <1>0 DEF Move, Goto, StageOK
    <2>2. PICK new : new = Moved(unit[job[p].unit], job[p].to, job[p].target)
        OBVIOUS
    <2>3. unit[job[p].unit] \in RowType
        BY <1>0, <2>1 DEF Rows
    <2>4. job[p].to = "crystal" => Earns(unit[job[p].unit].content, unit[job[p].unit].sources)
        BY <1>0 DEF JobsEarned, JobEarned, Due
    <2>5. RowEarned(new) /\ IsFiniteSet(new.sources)
        BY <1>0, <2>1, <2>2, <2>3, <2>4, MovedEarned DEF RowsEarned
    <2>6. unit' = [unit EXCEPT ![job[p].unit] = new]
        BY <1>4, <2>2 DEF Move
    <2>7. \A u \in Ids : unit'[u] = unit[u] \/ unit'[u] = new
        BY <1>0, <2>6 DEF Rows
    <2> QED BY <1>0, <2>5, <2>7 DEF RowsEarned
<1>5. CASE UNCHANGED unit
    BY <1>0, <1>5 DEF RowsEarned
<1>6. ASSUME NEW p \in Procs, Begin(p) PROVE UNCHANGED unit
    BY <1>0, <1>6, BeginShape DEF Began
<1> QED
    BY <1>1, <1>2, <1>3, <1>4, <1>5, <1>6
       DEF Next, Continue, vars, Acquire, AcquireDenied, Release, List, TriageRow, TriageEnd,
           Select, Cover, Consume, ReadBefore, Crash, Abort, Expire

(* What a command knows stays true while others run.                       *)
LEMMA StepJobsEarned == EarnedInv /\ [Next]_vars => JobsEarned'
<1> SUFFICES ASSUME EarnedInv, [Next]_vars PROVE JobsEarned'
    OBVIOUS
<1>0. /\ TypeInv /\ RowsEarned /\ JobsEarned /\ EmptyInv
      /\ unit \in Rows /\ job \in [Procs -> JobType]
      /\ \A p \in Procs : job[p] \in JobType /\ StageOK(pc[p], job[p])
      /\ NoJob.to = "absent" /\ NoJob.plan = {}
    BY DEF EarnedInv, TypeInv, Tables, Control, NoJob
<1>1. \A u : Due(u) => Due(u)'
    BY <1>0, DueStays
<1>2. ASSUME NEW q \in Procs, NEW j, JobEarned(j),
             job'[q].plan = j.plan, job'[q].to = j.to, job'[q].unit = j.unit
      PROVE  JobEarned(job[q])'
    <2>1. j.to = "crystal" => Due(j.unit)'
        BY <1>1, <1>2 DEF JobEarned
    <2>2. \A m \in j.plan : m.to = "crystal" => Due(m.unit)'
        BY <1>1, <1>2 DEF JobEarned
    <2> QED BY <1>2, <2>1, <2>2 DEF JobEarned, Due
<1>3. ASSUME NEW p \in Procs, \A q \in Procs \ {p} : job'[q] = job[q], JobEarned(job[p])'
      PROVE  JobsEarned'
    <2>1. \A q \in Procs \ {p} : JobEarned(job[q])'
        BY <1>0, <1>2, <1>3 DEF JobsEarned
    <2> QED BY <1>3, <2>1 DEF JobsEarned
<1>4. ASSUME NEW p \in Procs, Begin(p) PROVE JobsEarned'
    <2>1. /\ JobEarned(job'[p]) /\ job'[p].to # "crystal"
          /\ \A q \in Procs \ {p} : job'[q] = job[q]
        BY <1>0, <1>4, BeginDue
    <2>2. PICK j : j = job'[p]
        OBVIOUS
    <2>3. JobEarned(job[p])'
        BY <1>2, <2>1, <2>2
    <2> QED BY <1>3, <2>1, <2>3
<1>5. ASSUME NEW p \in Procs, Capture(p) \/ AcquireDenied(p) \/ Release(p) \/ Crash(p)
      PROVE  JobsEarned'
    <2>1. job' = [job EXCEPT ![p] = NoJob]
        BY <1>5 DEF Capture, AcquireDenied, Release, Crash
    <2>2. job'[p] = NoJob /\ \A q \in Procs \ {p} : job'[q] = job[q]
        BY <1>0, <2>1
    <2>3. JobEarned(job[p])'
        BY <1>0, <2>2 DEF JobEarned
    <2> QED BY <1>3, <2>2, <2>3
<1>6. ASSUME NEW p \in Procs,
             List(p) \/ TriageRow(p) \/ Select(p) \/ Cover(p) \/ Insert(p)
      PROVE  JobsEarned'
    <2>1. /\ job'[p].to = job[p].to /\ job'[p].plan = job[p].plan /\ job'[p].unit = job[p].unit
          /\ \A q \in Procs \ {p} : job'[q] = job[q]
        <3>1. CASE List(p) \/ Select(p)
            BY <1>0, <3>1 DEF List, Select, JobType
        <3>2. CASE TriageRow(p)
            BY <1>0, <3>2 DEF TriageRow, JobType
        <3>3. CASE Cover(p)
            BY <1>0, <3>3 DEF Cover, JobType
        <3>4. CASE Insert(p)
            BY <1>0, <3>4 DEF Insert, JobType
        <3> QED BY <1>6, <3>1, <3>2, <3>3, <3>4
    <2>2. PICK j : j = job[p]
        OBVIOUS
    <2>3. JobEarned(job[p])'
        BY <1>0, <1>2, <2>1, <2>2 DEF JobsEarned
    <2> QED BY <1>3, <2>1, <2>3
<1>7. ASSUME NEW p \in Procs, ReadBefore(p) PROVE JobsEarned'
    <2>1. pc[p] = "read" /\ job[p].unit \in Ids
        BY <1>7, <1>0 DEF ReadBefore, Goto, StageOK
    <2>2. PICK to : to = IF unit[job[p].unit].before = "absent" THEN "active_unit"
                         ELSE unit[job[p].unit].before
        OBVIOUS
    <2>3. job' = [job EXCEPT ![p].to = to]
        BY <1>7, <2>2 DEF ReadBefore
    <2>4. /\ job'[p].to = to /\ job'[p].plan = job[p].plan /\ job'[p].unit = job[p].unit
          /\ \A q \in Procs \ {p} : job'[q] = job[q]
        BY <1>0, <2>3 DEF JobType
    <2>5. to = "crystal" => Due(job[p].unit)
        <3>1. PICK u \in Ids : u = job[p].unit
            BY <2>1
        <3> SUFFICES ASSUME to = "crystal" PROVE Due(u)
            BY <3>1
        <3>2. unit[u].before = "crystal"
            BY <2>2, <3>1
        <3>3. unit[u].status # "absent"
            BY <1>0, <3>2 DEF EmptyInv, AbsentRow
        <3> QED BY <1>0, <3>2, <3>3 DEF RowsEarned, RowEarned, Due
    <2>6. PICK j : j = [job[p] EXCEPT !.to = to]
        OBVIOUS
    <2>7. j.to = to /\ j.plan = job[p].plan /\ j.unit = job[p].unit
        BY <1>0, <2>6 DEF JobType
    <2>8. JobEarned(j)
        BY <1>0, <2>5, <2>7 DEF JobsEarned, JobEarned
    <2>9. JobEarned(job[p])'
        BY <1>2, <2>4, <2>7, <2>8
    <2> QED BY <1>3, <2>4, <2>9
<1>8. CASE UNCHANGED job
    <2>1. \A q \in Procs : JobEarned(job[q])'
        BY <1>0, <1>2, <1>8 DEF JobsEarned
    <2> QED BY <2>1 DEF JobsEarned
<1> QED
    BY <1>4, <1>5, <1>6, <1>7, <1>8
       DEF Next, Continue, vars, Acquire, TriageEnd, Consume, Apply, Move, Abort, Expire

(* A crystal was confirmed, or is quoted by independent sessions, although *)
(* plans and restores are applied to rows read long before: contents are   *)
(* fixed once written and sources only grow.                               *)
THEOREM CrystalEarnedHolds == Spec => []CrystalEarned
<1>1. Init => EarnedInv
    <2> SUFFICES ASSUME Init PROVE EarnedInv
        OBVIOUS
    <2>1. TypeInv /\ EmptyInv
        BY InitTypeInv DEF Init, EmptyInv
    <2>2. RowsEarned
        <3>1. IsFiniteSet(AbsentRow.sources) /\ RowEarned(AbsentRow)
            BY FS_EmptySet DEF AbsentRow, RowEarned
        <3> QED BY <3>1 DEF Init, RowsEarned
    <2>3. JobsEarned
        BY DEF Init, JobsEarned, JobEarned, NoJob
    <2> QED BY <2>1, <2>2, <2>3 DEF EarnedInv
<1>2. EarnedInv /\ [Next]_vars => EarnedInv'
    <2> SUFFICES ASSUME EarnedInv, [Next]_vars PROVE EarnedInv'
        OBVIOUS
    <2>1. TypeInv' /\ EmptyInv'
        BY StepTypeInv, StepEmptyInv DEF EarnedInv
    <2>2. RowsEarned' /\ JobsEarned'
        BY StepRowsEarned, StepJobsEarned
    <2> QED BY <2>1, <2>2 DEF EarnedInv
<1>3. EarnedInv => CrystalEarned
    BY DEF EarnedInv, RowsEarned, RowEarned, Earns, Independent, CrystalEarned
<1> QED BY <1>1, <1>2, <1>3, PTL DEF Spec
=============================================================================
