---------------------------- MODULE IngestQueue ----------------------------
(***************************************************************************)
(* The asynchronous ingestion queue of membox: the rows of the table       *)
(* ingest_queue, the worker_lease row of the table meta, the worker        *)
(* processes that run drain_queue and the client commands that enqueue a   *)
(* document and then spawn a worker when none seems alive.                 *)
(*                                                                         *)
(* Every store operation is one BEGIN IMMEDIATE transaction, so one action *)
(* here; between two of them any other process may run.  Time is not       *)
(* counted: a lease is live until the action Expire lets its heartbeat     *)
(* become older than the TTL.                                              *)
(***************************************************************************)
EXTENDS Naturals

CONSTANTS Workers,     \* processes that may run `membox process`
          Clients,     \* processes that run `membox ingest`
          NoWorker,    \* owner of the lease when there is no lease row
          Killed,      \* owner of a lease row left by a process that was killed
          MaxId,       \* bound: rows ever enqueued
          MaxRetries,  \* DEFAULT_MAX_RETRIES
          MaxFaults,   \* bound: crashes, aborts and overruns of the lease
          Env          \* what the environment may do, a subset of EnvEvents

EnvEvents == {"crash",      \* a worker is killed
              "abort",      \* an exception or Ctrl-C leaves the drain loop
              "slow",       \* an item may take longer than the lease TTL
              "process",    \* somebody runs `membox process` by hand
              "nospawn"}    \* `membox ingest --no-spawn`

ASSUME NoWorkerAssumption == /\ NoWorker \notin Workers
                             /\ Killed \notin Workers \cup {NoWorker}
ASSUME MaxIdAssumption == MaxId \in Nat
ASSUME MaxRetriesAssumption == MaxRetries \in Nat \ {0}
ASSUME MaxFaultsAssumption == MaxFaults \in Nat
ASSUME EnvAssumption == Env \subseteq EnvEvents

Ids == 1..MaxId        \* AUTOINCREMENT ids, in order of insertion
NoItem == 0

VARIABLES status,      \* ingest_queue.status, "absent" before the INSERT
          retries,     \* ingest_queue.retries
          lease,       \* the worker_lease row of meta
          pc,          \* where each worker process is
          item,        \* the row a worker has claimed
          cpc,         \* where each client command is
          ingested,    \* ghost: completed materialisations of each row
          faults       \* ghost: crashes, aborts and overruns so far

rowVars == <<status, retries>>
vars == <<status, retries, lease, pc, item, cpc, ingested, faults>>

Statuses == {"absent", "pending", "processing", "done", "failed"}
Working == {"ingest", "markDone", "markFailed"}           \* has a claimed row
InLoop == Working \cup {"claim", "refresh"}               \* inside try
Active == InLoop \cup {"retry", "release"}                \* acquired the lease
WorkerPcs == Active \cup {"down", "start", "startRetry"}
ClientPcs == {"idle", "check", "spawn"}

NoLease == [owner |-> NoWorker, live |-> FALSE]
HeldBy(w) == [owner |-> w, live |-> TRUE]

TypeOK == /\ status \in [Ids -> Statuses]
          /\ retries \in [Ids -> Nat]
          /\ lease \in [owner : Workers \cup {NoWorker, Killed}, live : BOOLEAN]
          /\ pc \in [Workers -> WorkerPcs]
          /\ item \in [Workers -> Ids \cup {NoItem}]
          /\ cpc \in [Clients -> ClientPcs]
          /\ ingested \in [Ids -> Nat]
          /\ faults \in 0..MaxFaults

Init == /\ status = [i \in Ids |-> "absent"]
        /\ retries = [i \in Ids |-> 0]
        /\ lease = NoLease
        /\ pc = [w \in Workers |-> "down"]
        /\ item = [w \in Workers |-> NoItem]
        /\ cpc = [c \in Clients |-> "idle"]
        /\ ingested = [i \in Ids |-> 0]
        /\ faults = 0

Goto(w, from, to) == pc[w] = from /\ pc' = [pc EXCEPT ![w] = to]
SetStatus(i, s) == status' = [status EXCEPT ![i] = s]
Pending(i) == status[i] = "pending"
Exhausted(i) == status[i] = "failed" /\ retries[i] >= MaxRetries
-----------------------------------------------------------------------------
(* The client: membox ingest, membox ingest-file.                          *)

\* The INSERT commits; spawn_worker is a later step, or none (--no-spawn).
Enqueue(c, i) ==
    /\ cpc[c] = "idle"
    /\ status[i] = "absent"
    /\ \A j \in Ids : j < i => status[j] # "absent"
    /\ SetStatus(i, "pending")
    /\ \E next \in IF "nospawn" \in Env THEN {"check", "idle"} ELSE {"check"} :
          cpc' = [cpc EXCEPT ![c] = next]
    /\ UNCHANGED <<retries, lease, pc, item, ingested, faults>>

\* worker_is_alive: a live lease, whoever owns it.
CheckAlive(c) ==
    /\ cpc[c] = "check"
    /\ cpc' = [cpc EXCEPT ![c] = IF lease.live THEN "idle" ELSE "spawn"]
    /\ UNCHANGED <<status, retries, lease, pc, item, ingested, faults>>

\* Popen([... "process", "--db", db_path]).
Spawn(c, w) ==
    /\ cpc[c] = "spawn"
    /\ cpc' = [cpc EXCEPT ![c] = "idle"]
    /\ Goto(w, "down", "start")
    /\ UNCHANGED <<status, retries, lease, item, ingested, faults>>
-----------------------------------------------------------------------------
(* The worker: drain_queue.                                                *)

\* Somebody runs `membox process`, with or without --retry-failed.
StartProcess(w) ==
    /\ "process" \in Env
    /\ \E first \in {"start", "startRetry"} : Goto(w, "down", first)
    /\ UNCHANGED <<status, retries, lease, item, cpc, ingested, faults>>

Starting(w) == pc[w] \in {"start", "startRetry"}
LeaseRefused(w) == lease.live /\ lease.owner # w

Begin(w) == pc' = [pc EXCEPT ![w] = IF @ = "start" THEN "claim" ELSE "retry"]
ResetStale == status' = [i \in Ids |-> IF status[i] = "processing" THEN "pending"
                                       ELSE status[i]]

\* acquire_worker_lease succeeds.  Rows left processing are recovered only
\* when a lease row, expired or one's own, is found.
AcquireNoReset(w) ==
    /\ Starting(w)
    /\ ~LeaseRefused(w)
    /\ lease' = HeldBy(w)
    /\ Begin(w)
    /\ UNCHANGED <<status, retries, item, cpc, ingested, faults>>

AcquireLive(w) ==
    /\ Starting(w)
    /\ lease' = HeldBy(w)
    /\ IF lease.owner = NoWorker THEN UNCHANGED status ELSE ResetStale
    /\ Begin(w)
    /\ UNCHANGED <<retries, item, cpc, ingested, faults>>

AcquireNoHeartbeat(w) ==
    /\ Starting(w)
    /\ ~LeaseRefused(w)
    /\ lease' = [owner |-> w]
    /\ IF lease.owner = NoWorker THEN UNCHANGED status ELSE ResetStale
    /\ Begin(w)
    /\ UNCHANGED <<retries, item, cpc, ingested, faults>>

Acquire(w) ==
    /\ Starting(w)
    /\ ~LeaseRefused(w)
    /\ lease' = HeldBy(w)
    /\ IF lease.owner = NoWorker THEN UNCHANGED status ELSE ResetStale
    /\ Begin(w)
    /\ UNCHANGED <<retries, item, cpc, ingested, faults>>

\* Another worker's lease is live: return zero counts.
AcquireDenied(w) ==
    /\ Starting(w)
    /\ LeaseRefused(w)
    /\ pc' = [pc EXCEPT ![w] = "down"]
    /\ UNCHANGED <<status, retries, lease, item, cpc, ingested, faults>>

\* retry_failed, before the try of the drain loop.
RetryFailedAll(w) ==
    /\ Goto(w, "retry", "claim")
    /\ status' = [i \in Ids |-> IF status[i] = "failed" THEN "pending" ELSE status[i]]
    /\ UNCHANGED <<retries, lease, item, cpc, ingested, faults>>

RetryFailed(w) ==
    /\ Goto(w, "retry", "claim")
    /\ status' = [i \in Ids |-> IF status[i] = "failed" /\ retries[i] < MaxRetries
                                THEN "pending" ELSE status[i]]
    /\ UNCHANGED <<retries, lease, item, cpc, ingested, faults>>

\* claim_next_pending: UPDATE ... WHERE id = the oldest pending id.
Claim(w) ==
    /\ Goto(w, "claim", "ingest")
    /\ \E i \in Ids : /\ Pending(i)
                      /\ \A j \in Ids : j < i => ~Pending(j)
                      /\ item' = [item EXCEPT ![w] = i]
                      /\ SetStatus(i, "processing")
    /\ UNCHANGED <<retries, lease, cpc, ingested, faults>>

ClaimNone(w) ==
    /\ \A i \in Ids : ~Pending(i)
    /\ Goto(w, "claim", "release")
    /\ UNCHANGED <<status, retries, lease, item, cpc, ingested, faults>>

\* ingest_content returned, and not every chunk failed.
IngestOk(w) ==
    /\ Goto(w, "ingest", "markDone")
    /\ ingested' = [ingested EXCEPT ![item[w]] = @ + 1]
    /\ UNCHANGED <<status, retries, lease, item, cpc, faults>>

\* ingest_content raised, or every chunk failed extraction.
IngestFail(w) ==
    /\ Goto(w, "ingest", "markFailed")
    /\ UNCHANGED <<status, retries, lease, item, cpc, ingested, faults>>

\* mark_done and mark_failed: UPDATE ... WHERE id = ?, whatever its status.
MarkDone(w) ==
    /\ Goto(w, "markDone", "refresh")
    /\ SetStatus(item[w], "done")
    /\ item' = [item EXCEPT ![w] = NoItem]
    /\ UNCHANGED <<retries, lease, cpc, ingested, faults>>

MarkFailedUncounted(w) ==
    /\ Goto(w, "markFailed", "refresh")
    /\ SetStatus(item[w], "failed")
    /\ item' = [item EXCEPT ![w] = NoItem]
    /\ UNCHANGED <<retries, lease, cpc, ingested, faults>>

MarkFailedPutBack(w) ==
    /\ Goto(w, "markFailed", "refresh")
    /\ SetStatus(item[w], "pending")
    /\ item' = [item EXCEPT ![w] = NoItem]
    /\ UNCHANGED <<retries, lease, cpc, ingested, faults>>

MarkFailed(w) ==
    /\ Goto(w, "markFailed", "refresh")
    /\ SetStatus(item[w], "failed")
    /\ retries' = [retries EXCEPT ![item[w]] = @ + 1]
    /\ item' = [item EXCEPT ![w] = NoItem]
    /\ UNCHANGED <<lease, cpc, ingested, faults>>

\* refresh_worker_lease: INSERT OR REPLACE, whoever owns the row.
Refresh(w) ==
    /\ Goto(w, "refresh", "claim")
    /\ lease' = HeldBy(w)
    /\ UNCHANGED <<status, retries, item, cpc, ingested, faults>>

\* The finally clause: release_worker_lease, then the process exits.
Release(w) ==
    /\ Goto(w, "release", "down")
    /\ lease' = IF lease.owner = w THEN NoLease ELSE lease
    /\ UNCHANGED <<status, retries, item, cpc, ingested, faults>>
-----------------------------------------------------------------------------
(* What goes wrong.                                                        *)

\* KeyboardInterrupt, or a store call that raises ("database is locked"),
\* leaves the loop; the finally clause still runs.
Abort(w) ==
    /\ "abort" \in Env
    /\ faults < MaxFaults
    /\ pc[w] \in InLoop
    /\ pc' = [pc EXCEPT ![w] = "release"]
    /\ item' = [item EXCEPT ![w] = NoItem]
    /\ faults' = faults + 1
    /\ UNCHANGED <<status, retries, lease, cpc, ingested>>

\* SIGKILL or power loss; also an exception from retry_failed, which is
\* outside the try, or from release_worker_lease itself.  The lease row stays,
\* and no later process has its pid.
Crash(w) ==
    /\ "crash" \in Env
    /\ faults < MaxFaults
    /\ pc[w] # "down"
    /\ pc' = [pc EXCEPT ![w] = "down"]
    /\ item' = [item EXCEPT ![w] = NoItem]
    /\ lease' = IF lease.owner = w THEN [lease EXCEPT !.owner = Killed] ELSE lease
    /\ faults' = faults + 1
    /\ UNCHANGED <<status, retries, cpc, ingested>>

\* The heartbeat becomes older than the TTL: its worker is dead, or its item
\* takes longer than that, for the heartbeat is refreshed between items only.
Expire ==
    /\ lease.live
    /\ \/ /\ \/ lease.owner = Killed
             \/ lease.owner \in Workers /\ pc[lease.owner] \notin Active
          /\ UNCHANGED faults
       \/ /\ "slow" \in Env
          /\ lease.owner \in Workers /\ pc[lease.owner] \in Active
          /\ faults < MaxFaults
          /\ faults' = faults + 1
    /\ lease' = [lease EXCEPT !.live = FALSE]
    /\ UNCHANGED <<status, retries, pc, item, cpc, ingested>>
-----------------------------------------------------------------------------
\* drain_queue of one worker, from the acquisition of the lease to its exit.
Drain(w) == \/ Acquire(w) \/ AcquireDenied(w) \/ RetryFailed(w)
            \/ Claim(w) \/ ClaimNone(w) \/ IngestOk(w) \/ IngestFail(w)
            \/ MarkDone(w) \/ MarkFailed(w) \/ Refresh(w) \/ Release(w)

Client(c) == \/ \E i \in Ids : Enqueue(c, i)
             \/ CheckAlive(c)
             \/ \E w \in Workers : Spawn(c, w)

Next == \/ \E c \in Clients : Client(c)
        \/ \E w \in Workers : Drain(w) \/ StartProcess(w) \/ Abort(w) \/ Crash(w)
        \/ Expire

Spec == Init /\ [][Next]_vars

(* Processes that were started run on, commands that were typed finish, a  *)
(* dead worker's heartbeat grows old.                                      *)
Fairness == /\ \A w \in Workers : WF_vars(Drain(w))
            /\ \A c \in Clients : /\ WF_vars(CheckAlive(c))
                                  /\ WF_vars(\E w \in Workers : Spawn(c, w))
            /\ WF_vars(Expire)

FairSpec == Spec /\ Fairness

(* FairSpec, and somebody keeps running `membox process`.                  *)
AttendedSpec == FairSpec /\ \A w \in Workers : WF_vars(StartProcess(w))
-----------------------------------------------------------------------------
(* At most one worker drains the queue: the single-worker guarantee of     *)
(* acquire_worker_lease, refresh_worker_lease and release_worker_lease.    *)
(* An item that outlives the lease breaks it (README, section 6).      *)
SingleWorker == \A v, w \in Workers : pc[v] \in Active /\ pc[w] \in Active => v = w

(* A row is never attempted once its retry counter has reached the ceiling *)
(* and the counter never passes it, as long as no item outlives the lease: *)
(* retry_failed is the only way back from failed, mark_failed the only     *)
(* place that counts.                                                      *)
RetriesBounded == \A i \in Ids : /\ retries[i] <= MaxRetries
                                 /\ status[i] \in {"pending", "processing"} =>
                                       retries[i] < MaxRetries

(* mark_done and mark_failed check neither status nor owner, so the lease  *)
(* alone keeps a row from being materialised twice: every materialisation  *)
(* beyond the first is paid for by a crash or an abort, or by an item that *)
(* outlived the lease, and no row is done without one.                     *)
IngestedOnce ==
    \A i \in Ids :
        /\ status[i] = "done" => ingested[i] > 0
        /\ ingested[i] <= faults + IF \/ status[i] = "done"
                                      \/ \E w \in Workers : pc[w] = "markDone" /\ item[w] = i
                                   THEN 1 ELSE 0

(* A row that is done, or failed for good, is never touched again, however *)
(* workers are killed and restarted (mark_done, mark_failed and the reset  *)
(* of acquire_worker_lease look at ids and statuses, never at owners), as  *)
(* long as no item outlives the lease.                                     *)
SettledIsFinal == [][\A i \in Ids : status[i] = "done" \/ Exhausted(i) =>
                                        UNCHANGED <<status[i], retries[i]>>]_vars

(* The queue keeps the promise of JobQueue as long as no item outlives the *)
(* lease: a row pending or processing is an accepted job, a takeover or a  *)
(* refused lease is invisible.                                             *)
jobState == [i \in Ids |-> IF status[i] \in {"pending", "processing"} THEN "accepted"
                          ELSE IF status[i] = "done" THEN "delivered" ELSE status[i]]

Jobs == INSTANCE JobQueue WITH state <- jobState, attempts <- retries,
                               MaxAttempts <- MaxRetries
JobsSpec == Jobs!Spec

(* Every accepted row is finally done or failed: what a dead worker left   *)
(* processing is taken over once its lease has expired.                    *)
EveryRowSettles == \A i \in Ids : status[i] \in {"pending", "processing"} ~>
                                       status[i] \in {"done", "failed"}

(* The worker is transient, not a daemon: every process that started       *)
(* drains what there is and exits.                                         *)
WorkersExit == \A w \in Workers : pc[w] # "down" ~> pc[w] = "down"
=============================================================================
