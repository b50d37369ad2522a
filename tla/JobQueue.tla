------------------------------ MODULE JobQueue ------------------------------
(***************************************************************************)
(* What the asynchronous ingestion path promises whoever submits a         *)
(* document, with no workers, leases or crashes in it: a submitted job is  *)
(* kept until it is delivered or has failed; a failed job may be           *)
(* resubmitted while it has attempts left; a delivered job and a job out   *)
(* of attempts never change again.                                         *)
(***************************************************************************)
EXTENDS Naturals

CONSTANTS Ids,         \* identifiers of the jobs
          MaxAttempts  \* a job that failed this often is never tried again

VARIABLES state,       \* where each job is
          attempts     \* how often each job has failed

vars == <<state, attempts>>

States == {"absent", "accepted", "delivered", "failed"}

Init == /\ state = [i \in Ids |-> "absent"]
        /\ attempts = [i \in Ids |-> 0]

\* A document is submitted and gets its id.
Submit(i) == /\ state[i] = "absent"
             /\ state' = [state EXCEPT ![i] = "accepted"]
             /\ UNCHANGED attempts

\* The job is carried out.
Deliver(i) == /\ state[i] = "accepted"
              /\ state' = [state EXCEPT ![i] = "delivered"]
              /\ UNCHANGED attempts

\* An attempt at the job fails.
Fail(i) == /\ state[i] = "accepted"
           /\ attempts[i] < MaxAttempts
           /\ state' = [state EXCEPT ![i] = "failed"]
           /\ attempts' = [attempts EXCEPT ![i] = @ + 1]

Retryable(i) == state[i] = "failed" /\ attempts[i] < MaxAttempts

\* Every failed job that has attempts left is taken up again.
ResubmitAll == /\ state' = [i \in Ids |-> IF Retryable(i) THEN "accepted" ELSE state[i]]
               /\ UNCHANGED attempts

Next == ResubmitAll \/ \E i \in Ids : Submit(i) \/ Deliver(i) \/ Fail(i)

Spec == Init /\ [][Next]_vars
=============================================================================
