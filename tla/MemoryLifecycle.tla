-------------------------- MODULE MemoryLifecycle --------------------------
(***************************************************************************)
(* The memory lifecycle of membox over one project's history traces:       *)
(* triage, extraction, capture, consolidation and manual transitions, run  *)
(* by CLI processes that share the SQLite database.                        *)
(*                                                                         *)
(* A command is the sequence of store operations its code makes; each      *)
(* operation is one action, and other processes run between them.  The     *)
(* lifecycle lease is taken where the code takes it, which for triage,     *)
(* extract and consolidate is after the rows they work on were read.       *)
(***************************************************************************)
EXTENDS Consolidation

CONSTANTS Procs,       \* processes that run CLI commands
          NoProc,      \* owner of a lease that has no row
          Killed,      \* owner of a lease row left by a process that was killed
          Projects,    \* names a lease may be taken for
          Home,        \* the project of the traces and units
          Traces,      \* history messages and events; also their own contents
          Gates,       \* gate versions
          CurrentGate, \* GATE_VERSION
          Extractable, \* traces with should_extract
          Activating,  \* traces that pass the activation rule
          Captures,    \* <<content, source>> pairs ingest-graph may write
          MaxUnits,    \* bound: rows of memory_units
          MaxFaults,   \* bound: crashes and aborts
          Commands,    \* the commands that are run, a subset of CommandNames
          Env          \* what may go wrong, a subset of {"crash", "abort", "slow"}

CommandNames == {"triage", "extract", "checkpoint", "consolidate", "capture",
                 "retract", "restore", "supersede"}
Sources == Traces \cup {c[2] : c \in Captures}

ASSUME ProcsAssumption == /\ NoProc \notin Procs
                          /\ Killed \notin Procs \cup {NoProc}
                          /\ Home \in Projects
ASSUME TracesAssumption == /\ Traces \subseteq Contents
                           /\ \A c \in Captures : c[1] \in Contents \ Traces
                           /\ CurrentGate \in Gates
ASSUME BoundsAssumption == MaxUnits \in Nat /\ MaxFaults \in Nat
ASSUME CommandsAssumption == Commands \subseteq CommandNames

Ids == 1..MaxUnits
Keys == Traces \X Gates      \* rows of history_triage
NoKey == <<>>

VARIABLES triage,  \* history_triage, with consumed_at
          unit,    \* memory_units, their sources and status log
          lease,   \* the lifecycle_lease rows of meta
          pc,      \* where each process is
          job,     \* what its command has read and has still to do
          faults   \* ghost: crashes and aborts so far

vars == <<triage, unit, lease, pc, job, faults>>

TriageStates == {"none", "rejected", "pending", "consumed"}
\* Between acquire_lifecycle_lease and release_lifecycle_lease.
Leased == {"list", "triage", "select", "cover", "insert", "apply", "read", "move",
           "release"}
NoLease == [owner |-> NoProc, live |-> FALSE]
NoContent == "none"
ASSUME ContentAssumption == NoContent \notin Contents
AbsentRow == [content |-> NoContent, status |-> "absent", by |-> NoUnit, sources |-> {},
              logged |-> "absent", before |-> "absent"]
NoJob == [name |-> "none", project |-> Home, gate |-> CurrentGate, todo |-> {}, done |-> {},
          cur |-> NoKey, unit |-> NoUnit, target |-> NoUnit, to |-> "absent",
          plan |-> {}]

Init == /\ triage = [k \in Keys |-> "none"]
        /\ unit = [u \in Ids |-> AbsentRow]
        /\ lease = [r \in Projects |-> NoLease]
        /\ pc = [p \in Procs |-> "idle"]
        /\ job = [p \in Procs |-> NoJob]
        /\ faults = 0

Exists(u) == unit[u].status # "absent"
\* The command goes on at `to`, its job updated by the caller.
Goto(p, from, to) == pc[p] = from /\ pc' = [pc EXCEPT ![p] = to]
Start(p, name, to, newJob) ==
    /\ name \in Commands
    /\ Goto(p, "idle", to)
    /\ job' = [job EXCEPT ![p] = [newJob EXCEPT !.name = name]]
    /\ UNCHANGED <<triage, unit, lease, faults>>
-----------------------------------------------------------------------------
(* Store reads and writes shared by the commands.                          *)

\* trace_rows_for_triage and pending_triage_rows.
Untriaged(g) == {k \in Keys : k[2] = g /\ triage[k] = "none"}
PendingRows(g) == {k \in Keys : k[2] = g /\ triage[k] = "pending"}

\* find_unit_covering_sources.
Covered(s) == \E u \in Ids : s \in unit[u].sources /\ unit[u].status # "retracted"

FreeId(u) == ~Exists(u) /\ \A v \in Ids : v < u => Exists(v)

\* The transaction of create_memory_unit.  A row of the same content is
\* found, whatever its status: it gets the source, and the log says created.
PutOverwrites(content, source, status) ==
    \E u \in Ids :
        /\ IF \E v \in Ids : unit[v].content = content
           THEN unit[u].content = content ELSE FreeId(u)
        /\ unit' = [unit EXCEPT ![u] =
                       [@ EXCEPT !.content = content, !.sources = @ \cup {source},
                                 !.status = status, !.logged = status]]

Put(content, source, status) ==
    \/ \E u \in Ids : /\ unit[u].content = content
                      /\ unit' = [unit EXCEPT ![u].sources = @ \cup {source},
                                              ![u].logged = status]
    \/ /\ \A u \in Ids : unit[u].content # content
       /\ \E u \in Ids : /\ FreeId(u)
                         /\ unit' = [unit EXCEPT ![u] =
                                [AbsentRow EXCEPT !.content = content, !.status = status,
                                                  !.sources = {source}, !.logged = status]]

InitialStatus(t) == IF t \in Activating THEN "active_unit" ELSE "unit_candidate"
-----------------------------------------------------------------------------
(* How the commands start: what they read before they take the lease.      *)

StartTriage(p, g) ==
    Start(p, "triage", "lease", [NoJob EXCEPT !.gate = g, !.todo = Untriaged(g)])

StartExtract(p, g) ==
    Start(p, "extract", "lease", [NoJob EXCEPT !.gate = g, !.todo = PendingRows(g)])

StartConsolidate(p) == Start(p, "consolidate", "lease", [NoJob EXCEPT !.plan = Plan(unit)])

StartCheckpoint(p) == Start(p, "checkpoint", "lease", NoJob)

\* The lease of a manual transition is that of --project or of the current
\* directory, which need not be the project of the unit.
StartRetract(p) ==
    \E u \in Ids, r \in Projects :
        Exists(u) /\ Start(p, "retract", "lease",
                           [NoJob EXCEPT !.project = r, !.unit = u, !.to = "retracted"])

StartRestore(p) ==
    \E u \in Ids, r \in Projects :
        Exists(u) /\ Start(p, "restore", "lease", [NoJob EXCEPT !.project = r, !.unit = u])

StartSupersede(p) ==
    \E u, v \in Ids, r \in Projects :
        /\ Exists(u) /\ Exists(v)
        /\ Start(p, "supersede", "lease",
                 [NoJob EXCEPT !.project = r, !.unit = u, !.target = v, !.to = "superseded"])

\* ingest-graph takes no lease: the covering check, then the transaction.
StartCapture(p) ==
    \E c \in Captures :
        /\ ~Covered(c[2])
        /\ Start(p, "capture", "put", [NoJob EXCEPT !.cur = c])

Capture(p) ==
    /\ Goto(p, "put", "idle")
    /\ Put(job[p].cur[1], job[p].cur[2], "active_unit")
    /\ job' = [job EXCEPT ![p] = NoJob]
    /\ UNCHANGED <<triage, lease, faults>>
-----------------------------------------------------------------------------
(* The lease.                                                              *)

LeaseRefusedDead(p) == lease[job[p].project].owner \notin {NoProc, p}
LeaseRefused(p) == lease[job[p].project].live /\ lease[job[p].project].owner # p

FirstStep(name) == CASE name = "triage" -> "triage"
                     [] name = "extract" -> "cover"
                     [] name = "checkpoint" -> "list"
                     [] name = "consolidate" -> "apply"
                     [] name = "restore" -> "read"
                     [] OTHER -> "move"

AcquireAnyway(p) ==
    /\ Goto(p, "lease", FirstStep(job[p].name))
    /\ lease' = [lease EXCEPT ![job[p].project] = [owner |-> p, live |-> TRUE]]
    /\ UNCHANGED <<triage, unit, job, faults>>

Acquire(p) ==
    /\ ~LeaseRefused(p)
    /\ Goto(p, "lease", FirstStep(job[p].name))
    /\ lease' = [lease EXCEPT ![job[p].project] = [owner |-> p, live |-> TRUE]]
    /\ UNCHANGED <<triage, unit, job, faults>>

\* "another memory apply is running", exit code 1.
AcquireDenied(p) ==
    /\ LeaseRefused(p)
    /\ Goto(p, "lease", "idle")
    /\ job' = [job EXCEPT ![p] = NoJob]
    /\ UNCHANGED <<triage, unit, lease, faults>>

\* release_lifecycle_lease, in the finally clause; the command ends.
Release(p) ==
    /\ Goto(p, "release", "idle")
    /\ lease' = [lease EXCEPT ![job[p].project] = IF @.owner = p THEN NoLease ELSE @]
    /\ job' = [job EXCEPT ![p] = NoJob]
    /\ UNCHANGED <<triage, unit, faults>>
-----------------------------------------------------------------------------
(* Triage and extraction, of the two commands and of the checkpoint.       *)

\* The checkpoint reads the trace rows while it holds the lease.
List(p) ==
    /\ Goto(p, "list", "triage")
    /\ job' = [job EXCEPT ![p].todo = Untriaged(job[p].gate)]
    /\ UNCHANGED <<triage, unit, lease, faults>>

\* upsert_history_triage: a decision written again leaves consumed_at alone.
TriageRowResets(p) ==
    /\ pc[p] = "triage"
    /\ \E k \in job[p].todo :
          /\ triage' = [triage EXCEPT ![k] = IF k[1] \in Extractable THEN "pending" ELSE "rejected"]
          /\ job' = [job EXCEPT ![p].todo = @ \ {k}]
    /\ UNCHANGED <<unit, lease, pc, faults>>

TriageRow(p) ==
    /\ pc[p] = "triage"
    /\ \E k \in job[p].todo :
          /\ triage' = [triage EXCEPT ![k] = IF @ = "consumed" THEN @
                                             ELSE IF k[1] \in Extractable THEN "pending"
                                             ELSE "rejected"]
          /\ job' = [job EXCEPT ![p].todo = @ \ {k}]
    /\ UNCHANGED <<unit, lease, pc, faults>>

TriageEnd(p) ==
    /\ job[p].todo = {}
    /\ Goto(p, "triage", IF job[p].name = "checkpoint" THEN "select" ELSE "release")
    /\ UNCHANGED <<triage, unit, lease, job, faults>>

Select(p) ==
    /\ Goto(p, "select", "cover")
    /\ job' = [job EXCEPT ![p].todo = PendingRows(job[p].gate)]
    /\ UNCHANGED <<triage, unit, lease, faults>>

\* create_memory_unit begins with a read outside its transaction.
Cover(p) ==
    /\ pc[p] = "cover"
    /\ \E k \in job[p].todo :
          IF Covered(k[1])
          THEN /\ job' = [job EXCEPT ![p].todo = @ \ {k}, ![p].done = @ \cup {k}]
               /\ UNCHANGED pc
          ELSE /\ job' = [job EXCEPT ![p].todo = @ \ {k}, ![p].cur = k]
               /\ Goto(p, "cover", "insert")
    /\ UNCHANGED <<triage, unit, lease, faults>>

Insert(p) ==
    /\ Goto(p, "insert", "cover")
    /\ Put(job[p].cur[1], job[p].cur[1], InitialStatus(job[p].cur[1]))
    /\ job' = [job EXCEPT ![p].done = @ \cup {job[p].cur}, ![p].cur = NoKey]
    /\ UNCHANGED <<triage, lease, faults>>

\* mark_triage_consumed, once for all rows, in a transaction of its own.
ConsumeFirst(p) ==
    /\ job[p].todo # {}
    /\ Goto(p, "cover", "release")
    /\ triage' = [k \in Keys |-> IF k \in job[p].done \cup job[p].todo THEN "consumed"
                                 ELSE triage[k]]
    /\ UNCHANGED <<unit, lease, job, faults>>

Consume(p) ==
    /\ job[p].todo = {}
    /\ Goto(p, "cover", "release")
    /\ triage' = [k \in Keys |-> IF k \in job[p].done THEN "consumed" ELSE triage[k]]
    /\ UNCHANGED <<unit, lease, job, faults>>
-----------------------------------------------------------------------------
(* Consolidation and manual transitions.                                   *)

Apply(p) ==
    /\ Goto(p, "apply", "release")
    /\ unit' = Applied(unit, job[p].plan)
    /\ UNCHANGED <<triage, lease, job, faults>>

\* restore_memory_unit reads the status log outside the transaction; a unit
\* that was never archived is taken to have been active.
ReadBefore(p) ==
    /\ Goto(p, "read", "move")
    /\ LET before == unit[job[p].unit].before
       IN  job' = [job EXCEPT ![p].to = IF before = "absent" THEN "active_unit" ELSE before]
    /\ UNCHANGED <<triage, unit, lease, faults>>

\* transition_memory_unit, from whatever status the row has.
Move(p) ==
    /\ Goto(p, "move", "release")
    /\ LET j == job[p]
       IN  unit' = [unit EXCEPT ![j.unit] = Moved(@, j.to, j.target)]
    /\ UNCHANGED <<triage, lease, job, faults>>
-----------------------------------------------------------------------------
(* What goes wrong.                                                        *)

\* The process is killed: its lease stays, what it had not written is lost.
Crash(p) ==
    /\ "crash" \in Env
    /\ faults < MaxFaults
    /\ Goto(p, pc[p], "idle") /\ pc[p] # "idle"
    /\ job' = [job EXCEPT ![p] = NoJob]
    /\ lease' = [r \in Projects |->
                    [lease[r] EXCEPT !.owner = IF @ = p THEN Killed ELSE @]]
    /\ faults' = faults + 1
    /\ UNCHANGED <<triage, unit>>

\* Ctrl-C, or a store call that raises; the finally clause still runs.
Abort(p) ==
    /\ "abort" \in Env
    /\ faults < MaxFaults
    /\ pc[p] \in Leased \ {"release"}
    /\ Goto(p, pc[p], "release")
    /\ faults' = faults + 1
    /\ UNCHANGED <<triage, unit, lease, job>>

\* 30 seconds pass.  The lease is never refreshed: only a command that is
\* done by then ("slow" excluded) keeps it as long as it needs it.
Expire(r) ==
    /\ lease[r].live
    /\ "slow" \in Env \/ lease[r].owner = Killed
    /\ lease' = [lease EXCEPT ![r].live = FALSE]
    /\ UNCHANGED <<triage, unit, pc, job, faults>>
-----------------------------------------------------------------------------
Begin(p) == \/ \E g \in Gates : StartTriage(p, g) \/ StartExtract(p, g)
            \/ StartConsolidate(p)
            \/ StartCheckpoint(p) \/ StartRetract(p) \/ StartRestore(p)
            \/ StartSupersede(p) \/ StartCapture(p)

Continue(p) == \/ Capture(p) \/ Acquire(p) \/ AcquireDenied(p) \/ Release(p)
               \/ List(p) \/ TriageRow(p) \/ TriageEnd(p) \/ Select(p)
               \/ Cover(p) \/ Insert(p) \/ Consume(p)
               \/ Apply(p) \/ ReadBefore(p) \/ Move(p)

Next == \/ \E p \in Procs : Begin(p) \/ Continue(p) \/ Crash(p) \/ Abort(p)
        \/ \E r \in Projects : Expire(r)

Spec == Init /\ [][Next]_vars

(* A command that was started goes on, the lease of a killed one expires.  *)
FairSpec == Spec /\ \A p \in Procs : WF_vars(Continue(p))
                 /\ \A r \in Projects : WF_vars(Expire(r))

(* FairSpec, and somebody keeps running memory extract for every gate: now *)
(* and then while no command has the lease, and again when it was refused. *)
AttendedSpec ==
    /\ FairSpec
    /\ \A g \in Gates :
          /\ SF_vars(~lease[Home].live /\ \E p \in Procs : StartExtract(p, g))
          /\ SF_vars(\E p \in Procs : /\ job[p].name = "extract" /\ job[p].gate = g
                                      /\ Acquire(p))
-----------------------------------------------------------------------------
TypeOK ==
    /\ triage \in [Keys -> TriageStates]
    /\ unit \in [Ids -> [content : Contents \cup {NoContent}, status : Statuses,
                         by : Ids \cup {NoUnit}, sources : SUBSET Sources,
                         logged : Statuses, before : Statuses]]
    /\ lease \in [Projects -> [owner : Procs \cup {NoProc, Killed}, live : BOOLEAN]]
    /\ pc \in [Procs -> Leased \cup {"idle", "lease", "put"}]
    /\ DOMAIN job = Procs
    /\ \A p \in Procs : /\ job[p].todo \cup job[p].done \subseteq Keys
                        /\ job[p].plan \subseteq [unit : Ids, to : Statuses,
                                                  by : Ids \cup {NoUnit}]
    /\ faults \in 0..MaxFaults

(* At most one process at a time is between acquire_lifecycle_lease and    *)
(* release_lifecycle_lease for a project, whatever the others were doing   *)
(* when they were refused, killed or interrupted.                          *)
LeaseExclusive ==
    \A p, q \in Procs : /\ pc[p] \in Leased /\ pc[q] \in Leased
                        /\ job[p].project = job[q].project
                        => p = q

(* mark_triage_consumed runs in a transaction after those that write the   *)
(* units: a trace is never marked consumed without a unit that has it as a *)
(* source, though the extraction was killed or interrupted at any point.   *)
ConsumedCovered == \A k \in Keys : triage[k] = "consumed" =>
                       \E u \in Ids : k[1] \in unit[u].sources

(* A consumed triage row stays consumed: a triage that read its rows       *)
(* before the lease was free writes its decision over the row of a         *)
(* checkpoint that has consumed it meanwhile, and leaves consumed_at.      *)
ConsumedIsFinal == [][\A k \in Keys : triage[k] = "consumed" => triage'[k] = "consumed"]_vars

(* "Retraction is terminal unless a new unit is created."  The code breaks *)
(* it: consolidate applies a plan made before the retraction.              *)
RetractionTerminal == [][\A u \in Ids : unit[u].status = "retracted" =>
                                           unit'[u].status = "retracted"]_vars

Names(p, u) == \E m \in job[p].plan : m.unit = u
Overrules(p, u) == /\ pc'[p] = "release"
                   /\ \/ pc[p] = "move" /\ job[p].name \in {"restore", "supersede"}
                                        /\ job[p].unit = u
                      \/ pc[p] = "apply" /\ Names(p, u)

(* What does hold of a retraction: neither an extraction under another gate*)
(* or after a crash, nor a capture of the same content, nor the retraction *)
(* of another unit brings the unit back.  Only a restore or supersede that *)
(* names it does, or a consolidation whose plan names it; and no plan that *)
(* is read after the retraction names it.                                  *)
RetractionHeld ==
    [][\A u \in Ids : unit[u].status = "retracted" =>
          /\ unit'[u].status # "retracted" => \E p \in Procs : Overrules(p, u)
          /\ \A p \in Procs : Names(p, u)' => Names(p, u)]_vars

(* What was triaged for extraction is finally extracted and consumed,      *)
(* although a killed command leaves its lease behind.                      *)
PendingConsumed == \A k \in Keys : triage[k] = "pending" ~> triage[k] = "consumed"
-----------------------------------------------------------------------------
(* A crystal was earned: confirmed, or quoted by independent sessions or   *)
(* documents, at the time its promotion was planned and so ever after,     *)
(* though the plan is applied to rows that have changed since.             *)
CrystalEarned ==
    \A u \in Ids : unit[u].status = "crystal" =>
        \/ unit[u].content \in Confirmed
        \/ \E ss \in SUBSET unit[u].sources :
              /\ Cardinality(ss) >= CrystalSourceThreshold
              /\ \A s, t \in ss : SessionOf[s] = SessionOf[t] => s = t
-----------------------------------------------------------------------------
(* No source identity belongs to two units that are not retracted.         *)
OneUnitPerSource ==
    \A u, v \in Ids : /\ unit[u].sources \cap unit[v].sources # {}
                      /\ unit[u].status # "retracted" /\ unit[v].status # "retracted"
                      => u = v
=============================================================================
