------------------------- MODULE IngestQueueProofs -------------------------
(***************************************************************************)
(* Theorems about IngestQueue for any number of workers, clients, rows,    *)
(* retries and faults.  TypeCorrect and IngestedOnceHolds are of every     *)
(* environment.  The others assume that no item takes longer than the      *)
(* lease TTL: without it they are false (README, section 6).           *)
(***************************************************************************)
EXTENDS IngestQueue, FiniteSetTheorems, TLAPS

USE NoWorkerAssumption, MaxIdAssumption, MaxRetriesAssumption, MaxFaultsAssumption

Timely == "slow" \notin Env

\* Whoever is past acquire_worker_lease holds the lease, and it is live.
HolderInv == \A w \in Workers : pc[w] \in Active => lease = HeldBy(w)

\* A worker's claimed row is marked processing.
ItemInv == \A w \in Workers : pc[w] \in Working => /\ item[w] \in Ids
                                                   /\ status[item[w]] = "processing"

\* A row not yet inserted has not failed either.
FreshInv == \A i \in Ids : status[i] = "absent" => retries[i] = 0

IInv == /\ TypeOK
        /\ HolderInv
        /\ ItemInv
        /\ FreshInv
        /\ RetriesBounded
-----------------------------------------------------------------------------
LEMMA InitTypeOK == Init => TypeOK
BY DEF Init, TypeOK, Ids, NoItem, NoLease, Statuses, WorkerPcs, ClientPcs

LEMMA StepTypeOK == TypeOK /\ [Next]_vars => TypeOK'
<1> USE DEF TypeOK
<1> SUFFICES ASSUME TypeOK, [Next]_vars PROVE TypeOK'
    OBVIOUS
<1>1. ASSUME NEW c \in Clients, NEW i \in Ids, Enqueue(c, i) PROVE TypeOK'
    BY <1>1 DEF Enqueue, SetStatus, Statuses, ClientPcs
<1>2. ASSUME NEW c \in Clients, CheckAlive(c) PROVE TypeOK'
    BY <1>2 DEF CheckAlive, ClientPcs
<1>3. ASSUME NEW c \in Clients, NEW w \in Workers, Spawn(c, w) PROVE TypeOK'
    BY <1>3 DEF Spawn, Goto, ClientPcs, WorkerPcs
<1>4. ASSUME NEW w \in Workers, StartProcess(w) PROVE TypeOK'
    BY <1>4 DEF StartProcess, Goto, WorkerPcs
<1>5. ASSUME NEW w \in Workers, Acquire(w) PROVE TypeOK'
    BY <1>5 DEF Acquire, HeldBy, ResetStale, Begin, Statuses, WorkerPcs, Active, InLoop
<1>6. ASSUME NEW w \in Workers, AcquireDenied(w) PROVE TypeOK'
    BY <1>6 DEF AcquireDenied, WorkerPcs
<1>7. ASSUME NEW w \in Workers, RetryFailed(w) PROVE TypeOK'
    BY <1>7 DEF RetryFailed, Goto, Statuses, WorkerPcs, Active, InLoop
<1>8. ASSUME NEW w \in Workers, Claim(w) PROVE TypeOK'
    BY <1>8 DEF Claim, Goto, SetStatus, Statuses, WorkerPcs, Active, InLoop, Working
<1>9. ASSUME NEW w \in Workers, ClaimNone(w) PROVE TypeOK'
    BY <1>9 DEF ClaimNone, Goto, WorkerPcs, Active
<1>10. ASSUME NEW w \in Workers, IngestOk(w) PROVE TypeOK'
    <2>1. ingested' \in [Ids -> Nat]
        <3>1. \A i \in Ids : ingested[i] + 1 \in Nat
            OBVIOUS
        <3> QED BY <3>1, <1>10 DEF IngestOk
    <2>2. pc' \in [Workers -> WorkerPcs]
        BY <1>10 DEF IngestOk, Goto, WorkerPcs, Active, InLoop, Working
    <2> QED BY <2>1, <2>2, <1>10 DEF IngestOk
<1>11. ASSUME NEW w \in Workers, IngestFail(w) PROVE TypeOK'
    BY <1>11 DEF IngestFail, Goto, WorkerPcs, Active, InLoop, Working
<1>12. ASSUME NEW w \in Workers, MarkDone(w) PROVE TypeOK'
    BY <1>12 DEF MarkDone, Goto, SetStatus, Statuses, WorkerPcs, Active, InLoop
<1>13. ASSUME NEW w \in Workers, MarkFailed(w) PROVE TypeOK'
    <2>1. retries' \in [Ids -> Nat]
        <3>1. \A i \in Ids : retries[i] + 1 \in Nat
            OBVIOUS
        <3> QED BY <3>1, <1>13 DEF MarkFailed
    <2>2. pc' \in [Workers -> WorkerPcs]
        BY <1>13 DEF MarkFailed, Goto, WorkerPcs, Active, InLoop
    <2>3. status' \in [Ids -> Statuses]
        BY <1>13 DEF MarkFailed, SetStatus, Statuses
    <2> QED BY <2>1, <2>2, <2>3, <1>13 DEF MarkFailed
<1>14. ASSUME NEW w \in Workers, Refresh(w) PROVE TypeOK'
    BY <1>14 DEF Refresh, Goto, HeldBy, WorkerPcs, Active, InLoop
<1>15. ASSUME NEW w \in Workers, Release(w) PROVE TypeOK'
    BY <1>15 DEF Release, Goto, NoLease, WorkerPcs
<1>16. ASSUME NEW w \in Workers, Abort(w) PROVE TypeOK'
    BY <1>16 DEF Abort, WorkerPcs, Active
<1>17. ASSUME NEW w \in Workers, Crash(w) PROVE TypeOK'
    BY <1>17 DEF Crash, WorkerPcs
<1>18. ASSUME Expire PROVE TypeOK'
    <2>1. faults' \in 0..MaxFaults
        BY <1>18 DEF Expire
    <2>2. lease' \in [owner : Workers \cup {NoWorker, Killed}, live : BOOLEAN]
        BY <1>18 DEF Expire
    <2> QED BY <1>18, <2>1, <2>2 DEF Expire
<1>19. ASSUME UNCHANGED vars PROVE TypeOK'
    BY <1>19 DEF vars
<1> QED
    BY <1>1, <1>2, <1>3, <1>4, <1>5, <1>6, <1>7, <1>8, <1>9, <1>10, <1>11, <1>12,
       <1>13, <1>14, <1>15, <1>16, <1>17, <1>18, <1>19 DEF Next, Client, Drain

(* Every variable keeps its type, whatever the environment does.           *)
THEOREM TypeCorrect == Spec => []TypeOK
BY InitTypeOK, StepTypeOK, PTL DEF Spec
-----------------------------------------------------------------------------
LEMMA InitIInv == Init => IInv
<1> SUFFICES ASSUME Init PROVE IInv
    OBVIOUS
<1>1. TypeOK
    BY InitTypeOK
<1>2. HolderInv /\ ItemInv
    BY DEF Init, HolderInv, ItemInv, Active, InLoop, Working
<1>3. FreshInv /\ RetriesBounded
    BY DEF Init, FreshInv, RetriesBounded
<1> QED BY <1>1, <1>2, <1>3 DEF IInv

(* The lease has one owner, so at most one worker is past its acquisition. *)
LEMMA HolderAlone == IInv => SingleWorker
BY DEF IInv, HolderInv, SingleWorker, HeldBy

LEMMA StepIInv == Timely /\ IInv /\ [Next]_vars => IInv'
<1> SUFFICES ASSUME Timely, IInv, [Next]_vars PROVE IInv'
    OBVIOUS
<1>0. TypeOK /\ TypeOK'
    BY StepTypeOK DEF IInv
<1>a. SingleWorker
    BY HolderAlone
<1> DEFINE Rest == HolderInv /\ ItemInv /\ FreshInv /\ RetriesBounded
<1>1. ASSUME NEW c \in Clients, NEW i \in Ids, Enqueue(c, i) PROVE Rest'
    <2>1. HolderInv'
        BY <1>0, <1>a, <1>1
           DEF IInv, TypeOK, SingleWorker, HolderInv, HeldBy, Active, InLoop,
               Working, Enqueue, SetStatus
    <2>2. ItemInv'
        BY <1>0, <1>a, <1>1
           DEF IInv, TypeOK, SingleWorker, HolderInv, ItemInv, Active,
               InLoop, Working, Enqueue, SetStatus
    <2>3. FreshInv' /\ RetriesBounded'
        BY <1>0, <1>1
           DEF IInv, TypeOK, ItemInv, FreshInv, RetriesBounded, Working, Enqueue,
               SetStatus
    <2> QED BY <2>1, <2>2, <2>3
<1>2. ASSUME NEW c \in Clients, CheckAlive(c) PROVE Rest'
    <2>1. HolderInv'
        BY <1>0, <1>a, <1>2
           DEF IInv, TypeOK, SingleWorker, HolderInv, HeldBy, Active, InLoop,
               Working, CheckAlive
    <2>2. ItemInv'
        BY <1>0, <1>a, <1>2
           DEF IInv, TypeOK, SingleWorker, HolderInv, ItemInv, Active,
               InLoop, Working, CheckAlive
    <2>3. FreshInv' /\ RetriesBounded'
        BY <1>0, <1>2
           DEF IInv, TypeOK, ItemInv, FreshInv, RetriesBounded, Working, CheckAlive
    <2> QED BY <2>1, <2>2, <2>3
<1>3. ASSUME NEW c \in Clients, NEW w \in Workers, Spawn(c, w) PROVE Rest'
    <2>1. HolderInv'
        BY <1>0, <1>a, <1>3
           DEF IInv, TypeOK, SingleWorker, HolderInv, HeldBy, Active, InLoop,
               Working, Spawn, Goto
    <2>2. ItemInv'
        BY <1>0, <1>a, <1>3
           DEF IInv, TypeOK, SingleWorker, HolderInv, ItemInv, Active,
               InLoop, Working, Spawn, Goto
    <2>3. FreshInv' /\ RetriesBounded'
        BY <1>0, <1>3
           DEF IInv, TypeOK, ItemInv, FreshInv, RetriesBounded, Working, Spawn, Goto
    <2> QED BY <2>1, <2>2, <2>3
<1>4. ASSUME NEW w \in Workers, StartProcess(w) PROVE Rest'
    <2>1. HolderInv'
        BY <1>0, <1>a, <1>4
           DEF IInv, TypeOK, SingleWorker, HolderInv, HeldBy, Active, InLoop,
               Working, StartProcess, Goto
    <2>2. ItemInv'
        BY <1>0, <1>a, <1>4
           DEF IInv, TypeOK, SingleWorker, HolderInv, ItemInv, Active,
               InLoop, Working, StartProcess, Goto
    <2>3. FreshInv' /\ RetriesBounded'
        BY <1>0, <1>4
           DEF IInv, TypeOK, ItemInv, FreshInv, RetriesBounded, Working,
               StartProcess, Goto
    <2> QED BY <2>1, <2>2, <2>3
<1>5. ASSUME NEW w \in Workers, Acquire(w) PROVE Rest'
    <2>1. HolderInv'
        <3>1. \A v \in Workers : v # w => pc[v] \notin Active
            BY <1>5 DEF IInv, HolderInv, HeldBy, Acquire, LeaseRefused
        <3>2. lease' = HeldBy(w) /\ \A v \in Workers : v # w => pc'[v] = pc[v]
            BY <1>0, <1>5 DEF TypeOK, Acquire, Begin
        <3> QED BY <3>1, <3>2 DEF HolderInv
    <2>2. ItemInv'
        BY <1>0, <1>a, <1>5
           DEF IInv, TypeOK, SingleWorker, HolderInv, ItemInv, Active,
               InLoop, Working, Acquire, Starting, LeaseRefused, HeldBy, ResetStale,
               Begin
    <2>3. FreshInv' /\ RetriesBounded'
        BY <1>0, <1>5
           DEF IInv, TypeOK, ItemInv, FreshInv, RetriesBounded, Working, Acquire,
               Starting, LeaseRefused, HeldBy, ResetStale, Begin
    <2> QED BY <2>1, <2>2, <2>3
<1>6. ASSUME NEW w \in Workers, AcquireDenied(w) PROVE Rest'
    <2>1. HolderInv'
        BY <1>0, <1>a, <1>6
           DEF IInv, TypeOK, SingleWorker, HolderInv, HeldBy, Active, InLoop,
               Working, AcquireDenied, Starting
    <2>2. ItemInv'
        BY <1>0, <1>a, <1>6
           DEF IInv, TypeOK, SingleWorker, HolderInv, ItemInv, Active,
               InLoop, Working, AcquireDenied, Starting
    <2>3. FreshInv' /\ RetriesBounded'
        BY <1>0, <1>6
           DEF IInv, TypeOK, ItemInv, FreshInv, RetriesBounded, Working,
               AcquireDenied, Starting
    <2> QED BY <2>1, <2>2, <2>3
<1>7. ASSUME NEW w \in Workers, RetryFailed(w) PROVE Rest'
    <2>1. HolderInv'
        BY <1>0, <1>a, <1>7
           DEF IInv, TypeOK, SingleWorker, HolderInv, HeldBy, Active, InLoop,
               Working, RetryFailed, Goto
    <2>2. ItemInv'
        BY <1>0, <1>a, <1>7
           DEF IInv, TypeOK, SingleWorker, HolderInv, ItemInv, Active,
               InLoop, Working, RetryFailed, Goto
    <2>3. FreshInv' /\ RetriesBounded'
        BY <1>0, <1>7
           DEF IInv, TypeOK, ItemInv, FreshInv, RetriesBounded, Working,
               RetryFailed, Goto
    <2> QED BY <2>1, <2>2, <2>3
<1>8. ASSUME NEW w \in Workers, Claim(w) PROVE Rest'
    <2>1. HolderInv'
        BY <1>0, <1>a, <1>8
           DEF IInv, TypeOK, SingleWorker, HolderInv, HeldBy, Active, InLoop,
               Working, Claim, Goto, SetStatus, Pending
    <2>2. ItemInv'
        BY <1>0, <1>a, <1>8
           DEF IInv, TypeOK, SingleWorker, HolderInv, ItemInv, Active,
               InLoop, Working, Claim, Goto, SetStatus, Pending
    <2>3. FreshInv' /\ RetriesBounded'
        BY <1>0, <1>8
           DEF IInv, TypeOK, ItemInv, FreshInv, RetriesBounded, Working, Claim,
               Goto, SetStatus, Pending
    <2> QED BY <2>1, <2>2, <2>3
<1>9. ASSUME NEW w \in Workers, ClaimNone(w) PROVE Rest'
    <2>1. HolderInv'
        BY <1>0, <1>a, <1>9
           DEF IInv, TypeOK, SingleWorker, HolderInv, HeldBy, Active, InLoop,
               Working, ClaimNone, Goto
    <2>2. ItemInv'
        BY <1>0, <1>a, <1>9
           DEF IInv, TypeOK, SingleWorker, HolderInv, ItemInv, Active,
               InLoop, Working, ClaimNone, Goto
    <2>3. FreshInv' /\ RetriesBounded'
        BY <1>0, <1>9
           DEF IInv, TypeOK, ItemInv, FreshInv, RetriesBounded, Working, ClaimNone,
               Goto
    <2> QED BY <2>1, <2>2, <2>3
<1>10. ASSUME NEW w \in Workers, IngestOk(w) PROVE Rest'
    <2>1. HolderInv'
        BY <1>0, <1>a, <1>10
           DEF IInv, TypeOK, SingleWorker, HolderInv, HeldBy, Active, InLoop,
               Working, IngestOk, Goto
    <2>2. ItemInv'
        BY <1>0, <1>a, <1>10
           DEF IInv, TypeOK, SingleWorker, HolderInv, ItemInv, Active,
               InLoop, Working, IngestOk, Goto
    <2>3. FreshInv' /\ RetriesBounded'
        BY <1>0, <1>10
           DEF IInv, TypeOK, ItemInv, FreshInv, RetriesBounded, Working, IngestOk,
               Goto
    <2> QED BY <2>1, <2>2, <2>3
<1>11. ASSUME NEW w \in Workers, IngestFail(w) PROVE Rest'
    <2>1. HolderInv'
        BY <1>0, <1>a, <1>11
           DEF IInv, TypeOK, SingleWorker, HolderInv, HeldBy, Active, InLoop,
               Working, IngestFail, Goto
    <2>2. ItemInv'
        BY <1>0, <1>a, <1>11
           DEF IInv, TypeOK, SingleWorker, HolderInv, ItemInv, Active,
               InLoop, Working, IngestFail, Goto
    <2>3. FreshInv' /\ RetriesBounded'
        BY <1>0, <1>11
           DEF IInv, TypeOK, ItemInv, FreshInv, RetriesBounded, Working, IngestFail,
               Goto
    <2> QED BY <2>1, <2>2, <2>3
<1>12. ASSUME NEW w \in Workers, MarkDone(w) PROVE Rest'
    <2>1. HolderInv'
        BY <1>0, <1>a, <1>12
           DEF IInv, TypeOK, SingleWorker, HolderInv, HeldBy, Active, InLoop,
               Working, MarkDone, Goto, SetStatus
    <2>2. ItemInv'
        BY <1>0, <1>a, <1>12
           DEF IInv, TypeOK, SingleWorker, HolderInv, ItemInv, Active,
               InLoop, Working, MarkDone, Goto, SetStatus
    <2>3. FreshInv' /\ RetriesBounded'
        BY <1>0, <1>12
           DEF IInv, TypeOK, ItemInv, FreshInv, RetriesBounded, Working, MarkDone,
               Goto, SetStatus
    <2> QED BY <2>1, <2>2, <2>3
<1>13. ASSUME NEW w \in Workers, MarkFailed(w) PROVE Rest'
    <2>1. HolderInv'
        BY <1>0, <1>a, <1>13
           DEF IInv, TypeOK, SingleWorker, HolderInv, HeldBy, Active, InLoop,
               Working, MarkFailed, Goto, SetStatus
    <2>2. ItemInv'
        BY <1>0, <1>a, <1>13
           DEF IInv, TypeOK, SingleWorker, HolderInv, ItemInv, Active,
               InLoop, Working, MarkFailed, Goto, SetStatus
    <2>3. FreshInv' /\ RetriesBounded'
        BY <1>0, <1>13
           DEF IInv, TypeOK, ItemInv, FreshInv, RetriesBounded, Working, MarkFailed,
               Goto, SetStatus
    <2> QED BY <2>1, <2>2, <2>3
<1>14. ASSUME NEW w \in Workers, Refresh(w) PROVE Rest'
    <2>1. HolderInv'
        BY <1>0, <1>a, <1>14
           DEF IInv, TypeOK, SingleWorker, HolderInv, HeldBy, Active, InLoop,
               Working, Refresh, Goto
    <2>2. ItemInv'
        BY <1>0, <1>a, <1>14
           DEF IInv, TypeOK, SingleWorker, HolderInv, ItemInv, Active,
               InLoop, Working, Refresh, Goto
    <2>3. FreshInv' /\ RetriesBounded'
        BY <1>0, <1>14
           DEF IInv, TypeOK, ItemInv, FreshInv, RetriesBounded, Working, Refresh,
               Goto
    <2> QED BY <2>1, <2>2, <2>3
<1>15. ASSUME NEW w \in Workers, Release(w) PROVE Rest'
    <2>1. HolderInv'
        BY <1>0, <1>a, <1>15
           DEF IInv, TypeOK, SingleWorker, HolderInv, HeldBy, Active, InLoop,
               Working, Release, Goto, NoLease
    <2>2. ItemInv'
        BY <1>0, <1>a, <1>15
           DEF IInv, TypeOK, SingleWorker, HolderInv, ItemInv, Active,
               InLoop, Working, Release, Goto, NoLease
    <2>3. FreshInv' /\ RetriesBounded'
        BY <1>0, <1>15
           DEF IInv, TypeOK, ItemInv, FreshInv, RetriesBounded, Working, Release,
               Goto, NoLease
    <2> QED BY <2>1, <2>2, <2>3
<1>16. ASSUME NEW w \in Workers, Abort(w) PROVE Rest'
    <2>1. HolderInv'
        BY <1>0, <1>a, <1>16
           DEF IInv, TypeOK, SingleWorker, HolderInv, HeldBy, Active, InLoop,
               Working, Abort
    <2>2. ItemInv'
        BY <1>0, <1>a, <1>16
           DEF IInv, TypeOK, SingleWorker, HolderInv, ItemInv, Active,
               InLoop, Working, Abort
    <2>3. FreshInv' /\ RetriesBounded'
        BY <1>0, <1>16
           DEF IInv, TypeOK, ItemInv, FreshInv, RetriesBounded, Working, Abort
    <2> QED BY <2>1, <2>2, <2>3
<1>17. ASSUME NEW w \in Workers, Crash(w) PROVE Rest'
    <2>1. HolderInv'
        <3> SUFFICES ASSUME NEW v \in Workers, pc'[v] \in Active PROVE lease' = HeldBy(v)
            BY DEF HolderInv
        <3>1. v # w /\ pc[v] \in Active
            BY <1>0, <1>17 DEF TypeOK, Crash, Active, InLoop, Working
        <3>2. lease = HeldBy(v)
            BY <3>1 DEF IInv, HolderInv
        <3>3. lease.owner # w
            BY <3>1, <3>2 DEF HeldBy
        <3> QED BY <1>17, <3>2, <3>3 DEF Crash
    <2>2. ItemInv'
        BY <1>0, <1>a, <1>17
           DEF IInv, TypeOK, SingleWorker, HolderInv, ItemInv, Active,
               InLoop, Working, Crash
    <2>3. FreshInv' /\ RetriesBounded'
        BY <1>0, <1>17
           DEF IInv, TypeOK, ItemInv, FreshInv, RetriesBounded, Working, Crash
    <2> QED BY <2>1, <2>2, <2>3
<1>18. ASSUME Expire PROVE Rest'
    <2>1. HolderInv'
        BY <1>0, <1>a, <1>18
           DEF IInv, TypeOK, SingleWorker, HolderInv, HeldBy, Active, InLoop,
               Working, Expire, Timely
    <2>2. ItemInv'
        BY <1>0, <1>a, <1>18
           DEF IInv, TypeOK, SingleWorker, HolderInv, ItemInv, Active,
               InLoop, Working, Expire, Timely
    <2>3. FreshInv' /\ RetriesBounded'
        BY <1>0, <1>18
           DEF IInv, TypeOK, ItemInv, FreshInv, RetriesBounded, Working, Expire,
               Timely
    <2> QED BY <2>1, <2>2, <2>3
<1>19. ASSUME UNCHANGED vars PROVE Rest'
    <2>1. HolderInv'
        BY <1>0, <1>a, <1>19
           DEF IInv, TypeOK, SingleWorker, HolderInv, HeldBy, Active, InLoop,
               Working, vars
    <2>2. ItemInv'
        BY <1>0, <1>a, <1>19
           DEF IInv, TypeOK, SingleWorker, HolderInv, ItemInv, Active,
               InLoop, Working, vars
    <2>3. FreshInv' /\ RetriesBounded'
        BY <1>0, <1>19
           DEF IInv, TypeOK, ItemInv, FreshInv, RetriesBounded, Working, vars
    <2> QED BY <2>1, <2>2, <2>3
<1>b. Rest'
    BY <1>1, <1>2, <1>3, <1>4, <1>5, <1>6, <1>7, <1>8, <1>9, <1>10, <1>11, <1>12, <1>13, <1>14, <1>15, <1>16, <1>17, <1>18, <1>19
       DEF Next, Client, Drain
<1> QED BY <1>0, <1>b DEF IInv

(* The inductive invariant holds of every behaviour.                       *)
THEOREM Invariance == ASSUME Timely PROVE Spec => []IInv
<1>1. IInv /\ [Next]_vars => IInv'
    BY StepIInv, Timely
<1> QED BY InitIInv, <1>1, PTL DEF Spec

(* At most one worker drains the queue, provided that none is slower than  *)
(* the TTL.                                                                *)
THEOREM SingleWorkerHolds == ASSUME Timely PROVE Spec => []SingleWorker
<1>1. Spec => []IInv
    BY Timely, Invariance
<1> QED BY <1>1, HolderAlone, PTL

(* No row is attempted more often than DEFAULT_MAX_RETRIES allows, provided*)
(* that no item outlives the lease.                                        *)
THEOREM RetriesBoundedHolds == ASSUME Timely PROVE Spec => []RetriesBounded
<1>1. IInv => RetriesBounded
    BY DEF IInv
<1>2. Spec => []IInv
    BY Timely, Invariance
<1> QED BY <1>1, <1>2, PTL

-----------------------------------------------------------------------------
(* A step of the queue settles no row twice: only mark_done, mark_failed   *)
(* and the two resets write a status, and a claimed row is processing.     *)
LEMMA StepSettled ==
    ASSUME IInv, [Next]_vars, NEW i \in Ids, status[i] = "done" \/ Exhausted(i)
    PROVE  UNCHANGED <<status[i], retries[i]>>
<1> USE DEF Exhausted
<1>0. status \in [Ids -> Statuses] /\ retries \in [Ids -> Nat]
    BY DEF IInv, TypeOK
<1>1. ASSUME NEW c \in Clients, Client(c) PROVE UNCHANGED <<status[i], retries[i]>>
    BY <1>0, <1>1 DEF Client, Enqueue, CheckAlive, Spawn, SetStatus
<1>2. ASSUME NEW w \in Workers, Drain(w) PROVE UNCHANGED <<status[i], retries[i]>>
    <2>1. CASE Acquire(w) \/ AcquireDenied(w) \/ Refresh(w) \/ Release(w)
        BY <1>0, <2>1 DEF Acquire, AcquireDenied, Refresh, Release, ResetStale
    <2>2. CASE RetryFailed(w)
        BY <1>0, <2>2 DEF RetryFailed
    <2>3. CASE Claim(w) \/ ClaimNone(w) \/ IngestOk(w) \/ IngestFail(w)
        BY <1>0, <2>3 DEF Claim, ClaimNone, IngestOk, IngestFail, SetStatus, Pending
    <2>4. CASE MarkDone(w) \/ MarkFailed(w)
        <3>1. item[w] # i
            BY <2>4 DEF IInv, ItemInv, Working, MarkDone, MarkFailed, Goto
        <3> QED BY <1>0, <2>4, <3>1 DEF MarkDone, MarkFailed, SetStatus
    <2> QED BY <1>2, <2>1, <2>2, <2>3, <2>4 DEF Drain
<1>3. ASSUME NEW w \in Workers, StartProcess(w) \/ Abort(w) \/ Crash(w)
      PROVE UNCHANGED <<status[i], retries[i]>>
    BY <1>3 DEF StartProcess, Abort, Crash
<1>4. CASE Expire \/ UNCHANGED vars
    BY <1>4 DEF Expire, vars
<1> QED BY <1>1, <1>2, <1>3, <1>4 DEF Next

(* A row that is done or failed for good stays as it is, provided that no  *)
(* item outlives the lease.                                                *)
THEOREM SettledHolds == ASSUME Timely PROVE Spec => SettledIsFinal
<1>1. IInv /\ [Next]_vars => [\A i \in Ids : status[i] = "done" \/ Exhausted(i) =>
                                  UNCHANGED <<status[i], retries[i]>>]_vars
    BY StepSettled
<1>2. Spec => []IInv
    BY Timely, Invariance
<1> QED BY <1>1, <1>2, PTL DEF Spec, SettledIsFinal
-----------------------------------------------------------------------------
(* What pays for a materialisation.  Counted per row: the materialisations *)
(* done, those under way, one more while the row waits, one more when its  *)
(* worker is gone, and one more while the lease lets the row be reset      *)
(* although a worker still has it.  Only faults make this sum grow.        *)
Holders(i) == {w \in Workers : pc[w] \in {"ingest", "markFailed"} /\ item[w] = i}
Orphan(i) == /\ status[i] = "processing"
             /\ \A w \in Workers : pc[w] \in Working => item[w] # i
Waiting(i) == IF status[i] \in {"absent", "pending", "failed"} THEN 1 ELSE 0
Lost(i) == IF Orphan(i) THEN 1 ELSE 0
Takeover == lease.owner = Killed \/ (lease.owner \in Workers /\ ~lease.live)
Exposed(i) == IF Takeover /\ ~Orphan(i) THEN 1 ELSE 0

\* The owner of the lease is past its acquisition and not yet released.
OwnerInv == lease.owner \in Workers => pc[lease.owner] \in Active
ClaimedInv == \A w \in Workers : pc[w] \in Working => item[w] \in Ids
DoneInv == /\ \A w \in Workers : pc[w] = "markDone" => ingested[item[w]] > 0
           /\ \A i \in Ids : status[i] = "done" => ingested[i] > 0
Extra(i) == Waiting(i) + Lost(i) + Exposed(i)
Paid(i) == /\ IsFiniteSet(Holders(i))
           /\ ingested[i] + Cardinality(Holders(i)) + Waiting(i) + Lost(i) + Exposed(i)
                 <= 1 + faults
OInv == TypeOK /\ OwnerInv /\ ClaimedInv /\ DoneInv /\ \A i \in Ids : Paid(i)

LEMMA InitOInv == Init => OInv
<1> SUFFICES ASSUME Init PROVE OInv
    OBVIOUS
<1>1. TypeOK
    BY InitTypeOK
<1>2. OwnerInv /\ ClaimedInv /\ DoneInv
    BY DEF Init, OwnerInv, ClaimedInv, DoneInv, Working, NoLease
<1>3. ASSUME NEW i \in Ids PROVE Paid(i)
    <2>1. Holders(i) = {}
        BY DEF Init, Holders
    <2>2. Waiting(i) = 1 /\ Lost(i) = 0 /\ Exposed(i) = 0 /\ ingested[i] = 0 /\ faults = 0
        BY DEF Init, Waiting, Lost, Orphan, Exposed, Takeover, NoLease
    <2> QED BY <2>1, <2>2, FS_EmptySet DEF Paid
<1> QED BY <1>1, <1>2, <1>3 DEF OInv

LEMMA StepOwner == OInv /\ [Next]_vars => OwnerInv'
<1> SUFFICES ASSUME OInv, [Next]_vars PROVE OwnerInv'
    OBVIOUS
<1> USE DEF OwnerInv, OInv, TypeOK
<1>1. ASSUME NEW c \in Clients, Client(c) PROVE OwnerInv'
    BY <1>1 DEF Client, Enqueue, CheckAlive, Spawn, Goto, Active, InLoop, Working
<1>2. ASSUME NEW w \in Workers, Drain(w) PROVE OwnerInv'
    <2>1. CASE Acquire(w)
        BY <2>1 DEF Acquire, Begin, HeldBy, Active, InLoop
    <2>2. CASE AcquireDenied(w)
        BY <2>2 DEF AcquireDenied, Starting, Active, InLoop, Working
    <2>3. CASE RetryFailed(w) \/ Claim(w) \/ ClaimNone(w)
        BY <2>3 DEF RetryFailed, Claim, ClaimNone, Goto, Active, InLoop, Working
    <2>4. CASE IngestOk(w) \/ IngestFail(w) \/ MarkDone(w) \/ MarkFailed(w)
        BY <2>4 DEF IngestOk, IngestFail, MarkDone, MarkFailed, Goto, Active, InLoop, Working
    <2>5. CASE Refresh(w)
        BY <2>5 DEF Refresh, HeldBy, Goto, Active, InLoop
    <2>6. CASE Release(w)
        BY <2>6 DEF Release, NoLease, Goto
    <2> QED BY <1>2, <2>1, <2>2, <2>3, <2>4, <2>5, <2>6 DEF Drain
<1>3. ASSUME NEW w \in Workers, StartProcess(w) PROVE OwnerInv'
    BY <1>3 DEF StartProcess, Goto, Active, InLoop, Working
<1>4. ASSUME NEW w \in Workers, Abort(w) PROVE OwnerInv'
    BY <1>4 DEF Abort, Active
<1>5. ASSUME NEW w \in Workers, Crash(w) PROVE OwnerInv'
    BY <1>5 DEF Crash
<1>6. CASE Expire \/ UNCHANGED vars
    BY <1>6 DEF Expire, vars
<1> QED BY <1>1, <1>2, <1>3, <1>4, <1>5, <1>6 DEF Next

LEMMA StepClaimed == OInv /\ [Next]_vars => ClaimedInv'
<1> SUFFICES ASSUME OInv, [Next]_vars PROVE ClaimedInv'
    OBVIOUS
<1> USE DEF ClaimedInv, OInv, TypeOK
<1>1. ASSUME NEW c \in Clients, Client(c) PROVE ClaimedInv'
    BY <1>1 DEF Client, Enqueue, CheckAlive, Spawn, Goto, Working
<1>2. ASSUME NEW w \in Workers, Drain(w) PROVE ClaimedInv'
    <2>1. CASE Acquire(w) \/ AcquireDenied(w)
        BY <2>1 DEF Acquire, AcquireDenied, Begin, Starting, Working
    <2>2. CASE RetryFailed(w) \/ ClaimNone(w) \/ Refresh(w) \/ Release(w)
        BY <2>2 DEF RetryFailed, ClaimNone, Refresh, Release, Goto, Working
    <2>3. CASE Claim(w)
        BY <2>3 DEF Claim, Goto
    <2>4. CASE IngestOk(w) \/ IngestFail(w) \/ MarkDone(w) \/ MarkFailed(w)
        BY <2>4 DEF IngestOk, IngestFail, MarkDone, MarkFailed, Goto, Working
    <2> QED BY <1>2, <2>1, <2>2, <2>3, <2>4 DEF Drain
<1>3. ASSUME NEW w \in Workers, StartProcess(w) \/ Abort(w) \/ Crash(w) PROVE ClaimedInv'
    BY <1>3 DEF StartProcess, Abort, Crash, Goto, Working
<1>4. CASE Expire \/ UNCHANGED vars
    BY <1>4 DEF Expire, vars
<1> QED BY <1>1, <1>2, <1>3, <1>4 DEF Next

LEMMA StepDone == OInv /\ [Next]_vars => DoneInv'
<1> SUFFICES ASSUME OInv, [Next]_vars PROVE DoneInv'
    OBVIOUS
<1> USE DEF DoneInv, ClaimedInv, OInv, TypeOK
<1>1. ASSUME NEW c \in Clients, Client(c) PROVE DoneInv'
    BY <1>1 DEF Client, Enqueue, CheckAlive, Spawn, Goto, SetStatus, Working
<1>2. ASSUME NEW w \in Workers, Drain(w) PROVE DoneInv'
    <2>1. CASE Acquire(w) \/ AcquireDenied(w)
        BY <2>1 DEF Acquire, AcquireDenied, Begin, Starting, ResetStale, Working
    <2>2. CASE RetryFailed(w) \/ ClaimNone(w) \/ Refresh(w) \/ Release(w)
        BY <2>2 DEF RetryFailed, ClaimNone, Refresh, Release, Goto, Working
    <2>3. CASE Claim(w)
        BY <2>3 DEF Claim, Goto, SetStatus, Working
    <2>4. CASE IngestOk(w)
        <3>1. item[w] \in Ids /\ ingested[item[w]] + 1 > 0
            BY <2>4 DEF IngestOk, Goto, Working
        <3>2. \A i \in Ids : ingested'[i] >= ingested[i] /\ ingested'[item[w]] > 0
            BY <2>4, <3>1 DEF IngestOk
        <3> QED BY <2>4, <3>2 DEF IngestOk, Goto, Working
    <2>5. CASE IngestFail(w)
        BY <2>5 DEF IngestFail, Goto, Working
    <2>6. CASE MarkDone(w) \/ MarkFailed(w)
        BY <2>6 DEF MarkDone, MarkFailed, Goto, SetStatus, Working
    <2> QED BY <1>2, <2>1, <2>2, <2>3, <2>4, <2>5, <2>6 DEF Drain
<1>3. ASSUME NEW w \in Workers, StartProcess(w) \/ Abort(w) \/ Crash(w) PROVE DoneInv'
    BY <1>3 DEF StartProcess, Abort, Crash, Goto, Working
<1>4. CASE Expire \/ UNCHANGED vars
    BY <1>4 DEF Expire, vars
<1> QED BY <1>1, <1>2, <1>3, <1>4 DEF Next

\* A step that leaves the holders of a row alone: the rest of the sum decides.
LEMMA PaidSame ==
    ASSUME OInv, NEW i \in Ids, faults' \in Nat, ingested'[i] = ingested[i],
           Holders(i)' = Holders(i),
           Extra(i)' - faults' <= Extra(i) - faults
    PROVE  Paid(i)'
<1>1. IsFiniteSet(Holders(i)) /\ Cardinality(Holders(i)) \in Nat
    BY FS_CardinalityType DEF OInv, Paid
<1>2. Cardinality(Holders(i)') = Cardinality(Holders(i)) /\ IsFiniteSet(Holders(i)')
    BY <1>1
<1>3. ingested[i] \in Nat /\ faults \in Nat
    BY DEF OInv, TypeOK
<1>4. Waiting(i) \in 0..1 /\ Lost(i) \in 0..1 /\ Exposed(i) \in 0..1
      /\ Waiting(i)' \in 0..1 /\ Lost(i)' \in 0..1 /\ Exposed(i)' \in 0..1
    BY DEF Waiting, Lost, Exposed
<1> HIDE DEF Holders, Waiting, Lost, Exposed
<1>5. ingested[i] + Cardinality(Holders(i)) + Waiting(i) + Lost(i) + Exposed(i) <= 1 + faults
    BY DEF OInv, Paid
<1> QED BY <1>1, <1>2, <1>3, <1>4, <1>5 DEF Paid, Extra

\* A step after which w no longer holds a row.
LEMMA PaidLess ==
    ASSUME OInv, NEW i \in Ids, NEW w, faults' \in Nat, ingested'[i] \in Nat,
           Holders(i)' = Holders(i) \ {w},
           ingested'[i] + Waiting(i)' + Lost(i)' + Exposed(i)' - faults'
              <= ingested[i] + Waiting(i) + Lost(i) + Exposed(i) - faults
                 + IF w \in Holders(i) THEN 1 ELSE 0
    PROVE  Paid(i)'
<1>1. IsFiniteSet(Holders(i)) /\ Cardinality(Holders(i)) \in Nat
    BY FS_CardinalityType DEF OInv, Paid
<1>2. /\ IsFiniteSet(Holders(i)')
      /\ Cardinality(Holders(i)') = IF w \in Holders(i) THEN Cardinality(Holders(i)) - 1
                                                        ELSE Cardinality(Holders(i))
    BY <1>1, FS_RemoveElement
<1>3. ingested[i] \in Nat /\ faults \in Nat
    BY DEF OInv, TypeOK
<1>4. Waiting(i) \in 0..1 /\ Lost(i) \in 0..1 /\ Exposed(i) \in 0..1
      /\ Waiting(i)' \in 0..1 /\ Lost(i)' \in 0..1 /\ Exposed(i)' \in 0..1
    BY DEF Waiting, Lost, Exposed
<1>5. ingested[i] + Cardinality(Holders(i)) + Waiting(i) + Lost(i) + Exposed(i) <= 1 + faults
    BY DEF OInv, Paid
<1> QED BY <1>1, <1>2, <1>3, <1>4, <1>5 DEF Paid

LEMMA StepPaid == ASSUME OInv, [Next]_vars, NEW i \in Ids PROVE Paid(i)'
<1>0. TypeOK /\ TypeOK'
    BY StepTypeOK DEF OInv
<1>f. faults \in Nat /\ faults' \in Nat /\ ingested[i] \in Nat /\ ingested'[i] \in Nat
    BY <1>0 DEF TypeOK
<1> USE DEF TypeOK
<1>1. ASSUME NEW c \in Clients, Client(c) PROVE Paid(i)'
    <2>1. Holders(i)' = Holders(i)
        BY <1>0, <1>1 DEF Client, Enqueue, CheckAlive, Spawn, Goto, Holders
    <2>2. Orphan(i)' <=> Orphan(i)
        BY <1>0, <1>1 DEF Client, Enqueue, CheckAlive, Spawn, Goto, SetStatus, Orphan, Working
    <2>3. Waiting(i)' = Waiting(i) /\ Takeover' = Takeover /\ UNCHANGED <<ingested, faults>>
        BY <1>0, <1>1 DEF Client, Enqueue, CheckAlive, Spawn, SetStatus, Waiting, Takeover
    <2>4. Extra(i)' - faults' <= Extra(i) - faults
        BY <1>f, <2>2, <2>3 DEF Extra, Waiting, Lost, Exposed
    <2> QED BY <1>f, <2>1, <2>3, <2>4, PaidSame
<1>2. ASSUME NEW w \in Workers, Acquire(w) PROVE Paid(i)'
    <2>1. Holders(i)' = Holders(i)
        BY <1>0, <1>2 DEF Acquire, Begin, Starting, Holders
    <2>2. ~Takeover' /\ UNCHANGED <<ingested, faults, item>>
        BY <1>2, NoWorkerAssumption DEF Acquire, HeldBy, Takeover
    <2>3. \A v \in Workers : pc'[v] \in Working <=> pc[v] \in Working
        BY <1>0, <1>2 DEF Acquire, Begin, Starting, Working
    <2>4. CASE lease.owner = NoWorker
        <3>1. status' = status
            BY <1>2, <2>4 DEF Acquire
        <3>2. Orphan(i)' <=> Orphan(i)
            BY <2>2, <2>3, <3>1 DEF Orphan
        <3>3. Extra(i)' - faults' <= Extra(i) - faults
            BY <1>f, <2>2, <3>1, <3>2 DEF Extra, Waiting, Lost, Exposed
        <3> QED BY <1>f, <2>1, <2>2, <3>3, PaidSame
    <2>5. CASE lease.owner # NoWorker
        <3>1. Takeover
            BY <1>0, <1>2, <2>5 DEF OInv, OwnerInv, Acquire, LeaseRefused, Starting, Takeover,
                                    Active, InLoop, Working
        <3>2. status'[i] = IF status[i] = "processing" THEN "pending" ELSE status[i]
            BY <1>0, <1>2, <2>5 DEF Acquire, ResetStale
        <3>3. ~Orphan(i)'
            BY <3>2 DEF Orphan
        <3>4. Orphan(i) => status[i] = "processing"
            BY DEF Orphan
        <3>5. Extra(i)' - faults' <= Extra(i) - faults
            BY <1>f, <2>2, <3>1, <3>2, <3>3, <3>4 DEF Extra, Waiting, Lost, Exposed
        <3> QED BY <1>f, <2>1, <2>2, <3>5, PaidSame
    <2> QED BY <2>4, <2>5
<1>3. ASSUME NEW w \in Workers,
             AcquireDenied(w) \/ RetryFailed(w) \/ ClaimNone(w) \/ IngestFail(w) \/ StartProcess(w)
      PROVE Paid(i)'
    <2>1. Holders(i)' = Holders(i)
        BY <1>0, <1>3 DEF AcquireDenied, RetryFailed, ClaimNone, IngestFail, StartProcess,
                          Starting, Goto, Holders
    <2>2. UNCHANGED <<ingested, faults, item, lease>>
        BY <1>3 DEF AcquireDenied, RetryFailed, ClaimNone, IngestFail, StartProcess
    <2>3. \A v \in Workers : pc'[v] \in Working <=> pc[v] \in Working
        BY <1>0, <1>3 DEF AcquireDenied, RetryFailed, ClaimNone, IngestFail, StartProcess,
                          Starting, Goto, Working
    <2>4. status'[i] = status[i] \/ (status[i] = "failed" /\ status'[i] = "pending")
        BY <1>0, <1>3 DEF AcquireDenied, RetryFailed, ClaimNone, IngestFail, StartProcess
    <2>5. Orphan(i)' <=> Orphan(i)
        BY <2>2, <2>3, <2>4 DEF Orphan
    <2>6. Extra(i)' - faults' <= Extra(i) - faults
        BY <1>f, <2>2, <2>4, <2>5 DEF Extra, Waiting, Lost, Exposed, Takeover
    <2> QED BY <1>f, <2>1, <2>2, <2>6, PaidSame
<1>4. ASSUME NEW w \in Workers, Claim(w) PROVE Paid(i)'
    <2>1. pc'[w] = "ingest" /\ pc[w] = "claim" /\ UNCHANGED <<ingested, faults, lease>>
        BY <1>0, <1>4 DEF Claim, Goto
    <2>2. \A v \in Workers : v # w => pc'[v] = pc[v] /\ item'[v] = item[v]
        BY <1>0, <1>4 DEF Claim, Goto
    <2>3. CASE item'[w] = i
        <3>1. status[i] = "pending" /\ status'[i] = "processing"
            BY <1>0, <1>4, <2>3 DEF Claim, SetStatus, Pending
        <3>2. Holders(i)' = Holders(i) \cup {w} /\ w \notin Holders(i)
            BY <2>1, <2>2, <2>3 DEF Holders
        <3>3. IsFiniteSet(Holders(i)) /\ Cardinality(Holders(i)) \in Nat
            BY FS_CardinalityType DEF OInv, Paid
        <3>4. IsFiniteSet(Holders(i)') /\ Cardinality(Holders(i)') = Cardinality(Holders(i)) + 1
            BY <3>2, <3>3, FS_AddElement
        <3>5. ~Orphan(i) /\ ~Orphan(i)'
            BY <2>1, <2>3, <3>1 DEF Orphan, Working
        <3>6. Extra(i)' + 1 = Extra(i) /\ Extra(i) \in Nat /\ Extra(i)' \in Nat
            BY <2>1, <3>1, <3>5 DEF Extra, Waiting, Lost, Exposed, Takeover
        <3>7. ingested[i] + Cardinality(Holders(i)) + Extra(i) <= 1 + faults
            <4>1. ingested[i] + Cardinality(Holders(i)) + Waiting(i) + Lost(i) + Exposed(i)
                     <= 1 + faults
                BY DEF OInv, Paid
            <4>2. Waiting(i) \in Nat /\ Lost(i) \in Nat /\ Exposed(i) \in Nat
                BY DEF Waiting, Lost, Exposed
            <4> QED BY <1>f, <3>3, <4>1, <4>2 DEF Extra
        <3>8. ingested'[i] + Cardinality(Holders(i)') + Waiting(i)' + Lost(i)' + Exposed(i)'
                 <= 1 + faults'
            <4>1. Waiting(i)' \in Nat /\ Lost(i)' \in Nat /\ Exposed(i)' \in Nat
                BY DEF Waiting, Lost, Exposed
            <4> QED BY <1>f, <2>1, <3>3, <3>4, <3>6, <3>7, <4>1 DEF Extra
        <3> QED BY <3>4, <3>8 DEF Paid
    <2>4. CASE item'[w] # i
        <3>1. status'[i] = status[i]
            BY <1>0, <1>4, <2>4 DEF Claim, SetStatus
        <3>2. Holders(i)' = Holders(i)
            BY <2>1, <2>2, <2>4 DEF Holders
        <3>3. Orphan(i)' <=> Orphan(i)
            BY <2>1, <2>2, <2>4, <3>1 DEF Orphan, Working
        <3>4. Extra(i)' - faults' <= Extra(i) - faults
            BY <1>f, <2>1, <3>1, <3>3 DEF Extra, Waiting, Lost, Exposed, Takeover
        <3> QED BY <1>f, <2>1, <3>2, <3>4, PaidSame
    <2> QED BY <2>3, <2>4
<1>5. ASSUME NEW w \in Workers, IngestOk(w) PROVE Paid(i)'
    <2>1. /\ pc[w] = "ingest" /\ pc'[w] = "markDone"
          /\ UNCHANGED <<status, faults, lease, item>>
          /\ \A v \in Workers : v # w => pc'[v] = pc[v]
        BY <1>0, <1>5 DEF IngestOk, Goto
    <2>2. Holders(i)' = Holders(i) \ {w}
        BY <2>1 DEF Holders
    <2>3. ingested'[i] = ingested[i] + IF w \in Holders(i) THEN 1 ELSE 0
        BY <1>0, <1>5, <2>1 DEF IngestOk, Holders, OInv, ClaimedInv, Working
    <2>4. Orphan(i)' <=> Orphan(i)
        BY <2>1 DEF Orphan, Working
    <2>5. Waiting(i)' = Waiting(i) /\ Lost(i)' = Lost(i) /\ Exposed(i)' = Exposed(i)
        BY <2>1, <2>4 DEF Waiting, Lost, Exposed, Takeover
    <2>6. ingested'[i] + Waiting(i)' + Lost(i)' + Exposed(i)' - faults'
             <= ingested[i] + Waiting(i) + Lost(i) + Exposed(i) - faults
                + IF w \in Holders(i) THEN 1 ELSE 0
        BY <1>f, <2>1, <2>3, <2>5 DEF Waiting, Lost, Exposed
    <2> QED BY <1>f, <2>2, <2>6, PaidLess
<1>6. ASSUME NEW w \in Workers, MarkDone(w) \/ MarkFailed(w) PROVE Paid(i)'
    <2>1. /\ pc[w] \in {"markDone", "markFailed"} /\ pc'[w] = "refresh"
          /\ UNCHANGED <<ingested, faults, lease>>
          /\ \A v \in Workers : v # w => pc'[v] = pc[v] /\ item'[v] = item[v]
        BY <1>0, <1>6 DEF MarkDone, MarkFailed, Goto
    <2>2. Holders(i)' = Holders(i) \ {w}
        BY <2>1 DEF Holders
    <2>3. CASE item[w] = i
        <3>1. \/ pc[w] = "markDone" /\ status'[i] = "done"
              \/ pc[w] = "markFailed" /\ status'[i] = "failed" /\ w \in Holders(i)
            BY <1>0, <1>6, <2>3 DEF MarkDone, MarkFailed, Goto, SetStatus, Holders
        <3>2. ~Orphan(i) /\ ~Orphan(i)'
            BY <2>1, <2>3, <3>1 DEF Orphan, Working
        <3>3. ingested'[i] + Waiting(i)' + Lost(i)' + Exposed(i)' - faults'
                 <= ingested[i] + Waiting(i) + Lost(i) + Exposed(i) - faults
                    + IF w \in Holders(i) THEN 1 ELSE 0
            BY <1>f, <2>1, <3>1, <3>2 DEF Waiting, Lost, Exposed, Takeover
        <3> QED BY <1>f, <2>2, <3>3, PaidLess
    <2>4. CASE item[w] # i
        <3>1. status'[i] = status[i] /\ w \notin Holders(i)
            BY <1>0, <1>6, <2>4 DEF MarkDone, MarkFailed, SetStatus, Holders
        <3>2. Orphan(i)' <=> Orphan(i)
            BY <2>1, <2>4, <3>1 DEF Orphan, Working
        <3>3. Extra(i)' - faults' <= Extra(i) - faults
            BY <1>f, <2>1, <3>1, <3>2 DEF Extra, Waiting, Lost, Exposed, Takeover
        <3> QED BY <1>f, <2>1, <2>2, <3>1, <3>3, PaidSame
    <2> QED BY <2>3, <2>4
<1>7. ASSUME NEW w \in Workers, Refresh(w) \/ Release(w) PROVE Paid(i)'
    <2>1. Holders(i)' = Holders(i)
        BY <1>0, <1>7 DEF Refresh, Release, Goto, Holders
    <2>2. /\ UNCHANGED <<ingested, faults, item, status>>
          /\ \A v \in Workers : pc'[v] \in Working <=> pc[v] \in Working
        BY <1>0, <1>7 DEF Refresh, Release, Goto, Working
    <2>3. Orphan(i)' <=> Orphan(i)
        BY <2>2 DEF Orphan
    <2>4. Takeover' => Takeover
        BY <1>7, NoWorkerAssumption DEF Refresh, Release, HeldBy, NoLease, Takeover
    <2>5. Extra(i)' - faults' <= Extra(i) - faults
        BY <1>f, <2>2, <2>3, <2>4 DEF Extra, Waiting, Lost, Exposed
    <2> QED BY <1>f, <2>1, <2>2, <2>5, PaidSame
<1>8. ASSUME NEW w \in Workers, Abort(w) \/ Crash(w) PROVE Paid(i)'
    <2>1. /\ pc'[w] \notin Working /\ faults' = faults + 1
          /\ UNCHANGED <<ingested, status>>
          /\ \A v \in Workers : v # w => pc'[v] = pc[v] /\ item'[v] = item[v]
        BY <1>0, <1>8 DEF Abort, Crash, Working
    <2>2. Holders(i)' = Holders(i) \ {w}
        BY <2>1 DEF Holders, Working
    <2>3. Orphan(i) => Orphan(i)'
        BY <2>1 DEF Orphan
    <2>4. ingested'[i] + Waiting(i)' + Lost(i)' + Exposed(i)' - faults'
             <= ingested[i] + Waiting(i) + Lost(i) + Exposed(i) - faults
                + IF w \in Holders(i) THEN 1 ELSE 0
        BY <1>f, <2>1, <2>3 DEF Waiting, Lost, Exposed
    <2> QED BY <1>f, <2>2, <2>4, PaidLess
<1>9. CASE Expire
    <2>1. UNCHANGED <<ingested, item, status, pc>> /\ Holders(i)' = Holders(i) /\ (Orphan(i)' <=> Orphan(i))
        BY <1>9 DEF Expire, Holders, Orphan
    <2>2. (Takeover /\ faults' = faults) \/ faults' = faults + 1
        BY <1>9 DEF Expire, Takeover, OInv, OwnerInv
    <2>3. Waiting(i)' = Waiting(i)
        BY <2>1 DEF Waiting
    <2>4. Lost(i)' = Lost(i) /\ Waiting(i) \in 0..1 /\ Lost(i) \in 0..1
        BY <2>1 DEF Lost, Waiting
    <2>5. CASE Takeover /\ faults' = faults
        <3>1. Exposed(i)' <= Exposed(i)
            BY <2>1, <2>5 DEF Exposed
        <3>2. Exposed(i) \in 0..1 /\ Exposed(i)' \in 0..1
            BY DEF Exposed
        <3>3. Extra(i)' - faults' <= Extra(i) - faults
            BY <1>f, <2>3, <2>4, <2>5, <3>1, <3>2 DEF Extra
        <3> QED BY <1>f, <2>1, <3>3, PaidSame
    <2>6. CASE faults' = faults + 1
        <3>1. Exposed(i) \in 0..1 /\ Exposed(i)' \in 0..1
            BY DEF Exposed
        <3>2. Extra(i)' - faults' <= Extra(i) - faults
            BY <1>f, <2>3, <2>4, <2>6, <3>1 DEF Extra
        <3> QED BY <1>f, <2>1, <3>2, PaidSame
    <2> QED BY <2>2, <2>5, <2>6
<1>10. CASE UNCHANGED vars
    <2>1. Holders(i)' = Holders(i) /\ Waiting(i)' = Waiting(i) /\ Lost(i)' = Lost(i)
          /\ Exposed(i)' = Exposed(i) /\ UNCHANGED <<ingested, faults>>
        BY <1>10 DEF vars, Holders, Waiting, Lost, Exposed, Orphan, Takeover
    <2>2. Extra(i)' - faults' <= Extra(i) - faults
        BY <1>f, <2>1 DEF Extra, Waiting, Lost, Exposed
    <2> QED BY <1>f, <2>1, <2>2, PaidSame
<1> QED
    BY <1>1, <1>2, <1>3, <1>4, <1>5, <1>6, <1>7, <1>8, <1>9, <1>10 DEF Next, Drain

\* What is paid for bounds what was materialised.
LEMMA PaidOnce == OInv => IngestedOnce
<1> SUFFICES ASSUME OInv, NEW i \in Ids
             PROVE  /\ status[i] = "done" => ingested[i] > 0
                    /\ ingested[i] <= faults +
                          IF \/ status[i] = "done"
                             \/ \E w \in Workers : pc[w] = "markDone" /\ item[w] = i
                          THEN 1 ELSE 0
    BY DEF IngestedOnce
<1>1. status[i] = "done" => ingested[i] > 0
    BY DEF OInv, DoneInv
<1>2. IsFiniteSet(Holders(i)) /\ Cardinality(Holders(i)) \in Nat
    BY FS_CardinalityType DEF OInv, Paid
<1>3. ingested[i] \in Nat /\ faults \in Nat /\ status[i] \in Statuses
    BY DEF OInv, TypeOK
<1>4. Waiting(i) \in 0..1 /\ Lost(i) \in 0..1 /\ Exposed(i) \in 0..1
    BY DEF Waiting, Lost, Exposed
<1>5. ingested[i] + Cardinality(Holders(i)) + Waiting(i) + Lost(i) + Exposed(i) <= 1 + faults
    BY DEF OInv, Paid
<1>6. ingested[i] <= 1 + faults
    BY <1>2, <1>3, <1>4, <1>5
<1>7. ASSUME status[i] # "done", ~\E w \in Workers : pc[w] = "markDone" /\ item[w] = i
      PROVE  ingested[i] <= faults
    <2>1. CASE status[i] # "processing"
        <3>1. Waiting(i) = 1
            BY <1>3, <1>7, <2>1 DEF Waiting, Statuses
        <3> QED BY <1>2, <1>3, <1>4, <1>5, <3>1
    <2>2. CASE Orphan(i)
        <3>1. Lost(i) = 1
            BY <2>2 DEF Lost
        <3> QED BY <1>2, <1>3, <1>4, <1>5, <3>1
    <2>3. CASE status[i] = "processing" /\ ~Orphan(i)
        <3>1. Holders(i) # {}
            BY <1>7, <2>3 DEF Orphan, Holders, Working
        <3>2. Cardinality(Holders(i)) # 0
            BY <1>2, <3>1, FS_EmptySet
        <3> QED BY <1>2, <1>3, <1>4, <1>5, <3>2
    <2> QED BY <2>1, <2>2, <2>3
<1> QED BY <1>1, <1>3, <1>6, <1>7

(* A row is materialised again only after a crash, an abort or an item     *)
(* that outlived the lease, whatever the environment does.                 *)
THEOREM IngestedOnceHolds == Spec => []IngestedOnce
<1>1. OInv /\ [Next]_vars => OInv'
    BY StepTypeOK, StepOwner, StepClaimed, StepDone, StepPaid DEF OInv
<1> QED BY InitOInv, <1>1, PaidOnce, PTL DEF Spec
-----------------------------------------------------------------------------
(* The refinement of JobQueue.                                             *)
LEMMA InitJobs == Init => Jobs!Init
BY DEF Init, Jobs!Init, jobState

LEMMA StepJobs == IInv /\ [Next]_vars => [Jobs!Next]_Jobs!vars
<1> SUFFICES ASSUME IInv, [Next]_vars PROVE [Jobs!Next]_Jobs!vars
    OBVIOUS
<1>0. status \in [Ids -> Statuses] /\ retries \in [Ids -> Nat]
    BY DEF IInv, TypeOK
<1>1. ASSUME NEW c \in Clients, Client(c) PROVE [Jobs!Next]_Jobs!vars
    <2>1. ASSUME NEW i \in Ids, Enqueue(c, i) PROVE Jobs!Submit(i)
        BY <1>0, <2>1 DEF Enqueue, SetStatus, Jobs!Submit, jobState
    <2>2. CASE CheckAlive(c) \/ \E w \in Workers : Spawn(c, w)
        BY <2>2 DEF CheckAlive, Spawn, Jobs!vars, jobState
    <2> QED BY <1>1, <2>1, <2>2 DEF Client, Jobs!Next
<1>2. ASSUME NEW w \in Workers, Drain(w) PROVE [Jobs!Next]_Jobs!vars
    <2>1. CASE Acquire(w)
        <3>1. jobState' = jobState
            BY <1>0, <2>1 DEF Acquire, ResetStale, jobState
        <3> QED BY <2>1, <3>1 DEF Acquire, Jobs!vars
    <2>2. CASE AcquireDenied(w) \/ Refresh(w) \/ Release(w)
               \/ ClaimNone(w) \/ IngestOk(w) \/ IngestFail(w)
        BY <2>2 DEF AcquireDenied, Refresh, Release, ClaimNone, IngestOk, IngestFail,
                    Jobs!vars, jobState
    <2>3. CASE RetryFailed(w)
        <3>1. Jobs!ResubmitAll
            BY <1>0, <2>3 DEF RetryFailed, Jobs!ResubmitAll, Jobs!Retryable, jobState
        <3> QED BY <3>1 DEF Jobs!Next
    <2>4. CASE Claim(w)
        <3>1. jobState' = jobState
            BY <1>0, <2>4 DEF Claim, SetStatus, Pending, jobState
        <3> QED BY <2>4, <3>1 DEF Claim, Jobs!vars
    <2>5. CASE MarkDone(w)
        <3>1. item[w] \in Ids /\ status[item[w]] = "processing"
            BY <2>5 DEF IInv, ItemInv, Working, MarkDone, Goto
        <3>2. Jobs!Deliver(item[w])
            BY <1>0, <2>5, <3>1 DEF MarkDone, SetStatus, Jobs!Deliver, jobState
        <3> QED BY <3>1, <3>2 DEF Jobs!Next
    <2>6. CASE MarkFailed(w)
        <3>1. item[w] \in Ids /\ status[item[w]] = "processing"
            BY <2>6 DEF IInv, ItemInv, Working, MarkFailed, Goto
        <3>2. retries[item[w]] < MaxRetries
            BY <3>1 DEF IInv, RetriesBounded
        <3>3. Jobs!Fail(item[w])
            BY <1>0, <2>6, <3>1, <3>2 DEF MarkFailed, SetStatus, Jobs!Fail, jobState
        <3> QED BY <3>1, <3>3 DEF Jobs!Next
    <2> QED BY <1>2, <2>1, <2>2, <2>3, <2>4, <2>5, <2>6 DEF Drain
<1>3. ASSUME NEW w \in Workers, StartProcess(w) \/ Abort(w) \/ Crash(w)
      PROVE [Jobs!Next]_Jobs!vars
    BY <1>3 DEF StartProcess, Abort, Crash, Jobs!vars, jobState
<1>4. CASE Expire \/ UNCHANGED vars
    BY <1>4 DEF Expire, vars, Jobs!vars, jobState
<1> QED BY <1>1, <1>2, <1>3, <1>4 DEF Next

(* The queue implements JobQueue, whatever is killed or aborted, provided  *)
(* that no item outlives the lease.                                        *)
THEOREM JobsHolds == ASSUME Timely PROVE Spec => JobsSpec
<1>1. Spec => []IInv
    BY Timely, Invariance
<1> QED BY InitJobs, StepJobs, <1>1, PTL DEF Spec, Jobs!Spec, JobsSpec
=============================================================================
