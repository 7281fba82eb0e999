-------------------------------- MODULE JobStore --------------------------------
(***************************************************************************)
(* The Postgres tables the job processes share, and the statements of      *)
(* app/repository/ that read and write them.  Every action of a component  *)
(* is one committed transaction, or one read that opens one; an operator   *)
(* of this module is one statement of such a transaction.                  *)
(*                                                                         *)
(* Timestamps are abstracted to what the WHERE clauses tell apart: a lease *)
(* is absent, live or expired, and a retry is not scheduled, waiting or    *)
(* due.  The clock moves them on at any moment (LeaseExpires, RetryDue).   *)
(***************************************************************************)
EXTENDS Integers, FiniteSets, StateMachine

CONSTANTS
    Jobs,          \* the job ids that may ever be created
    Workers,       \* worker ids (settings.worker_id of each worker process)
    None,          \* SQL NULL
    Dims,          \* resource dimensions: cpu, memory_mb, gpu
    Requests,      \* the resource requests a job's config may carry
    Total,         \* capacity.total_* for each dimension
    MaxAttempts    \* settings.max_attempts

ASSUME WorkersAreNotNull == None \notin Workers /\ None \notin Jobs
ASSUME FiniteStore == IsFiniteSet(Jobs) /\ IsFiniteSet(Dims)
ASSUME RequestsAreAmounts == Requests \subseteq [Dims -> Nat]
ASSUME TotalIsAmount == Total \in [Dims -> Nat]
ASSUME MaxAttemptsPositive == MaxAttempts \in Nat \ {0}

VARIABLES
    jobs,          \* the jobs table
    reservations,  \* the reservations table, keyed by (job_id, attempt_number)
    capacity,      \* capacity.allocated_* of the singleton row
    attempts,      \* the attempts table, keyed by (job_id, attempt_number)
    dlq,           \* number of dlq rows of each job
    outbox,        \* number of unpublished outbox rows of each job
    decisions      \* scheduling_decisions: ADMITTED rows, and whether any WAITING

storeVars == <<jobs, reservations, capacity, attempts, dlq, outbox, decisions>>

Attempts == 1..MaxAttempts
Nothing == [d \in Dims |-> 0]

JobRow ==
    [status : Status \cup {Absent}, cancel_requested : BOOLEAN,
     attempt_number : 0..MaxAttempts, lease_owner : Workers \cup {None},
     lease : {"none", "live", "expired"}, next_retry : {"none", "waiting", "due"},
     deleted : BOOLEAN, request : Requests \cup {Nothing}]

ReservationRow ==
    [status : {"NONE", "ACTIVE", "RELEASED"}, amount : Requests \cup {Nothing}]

AttemptStatus ==
    {"NONE", "RUNNING", "SUCCEEDED", "FAILED", "CANCELLED", "LOST"}

NoRow ==
    [status |-> Absent, cancel_requested |-> FALSE, attempt_number |-> 0,
     lease_owner |-> None, lease |-> "none", next_retry |-> "none",
     deleted |-> FALSE, request |-> Nothing]

StoreInit ==
    /\ jobs = [j \in Jobs |-> NoRow]
    /\ reservations =
          [k \in Jobs \X Attempts |-> [status |-> "NONE", amount |-> Nothing]]
    /\ capacity = Nothing
    /\ attempts = [k \in Jobs \X Attempts |-> "NONE"]
    /\ dlq = [j \in Jobs |-> 0]
    /\ outbox = [j \in Jobs |-> 0]
    /\ decisions = [j \in Jobs |-> [admitted |-> 0, waiting |-> FALSE]]

-----------------------------------------------------------------------------
(* reservations.py and capacity.py *)

HasActive(j, a) == a \in Attempts /\ reservations[<<j, a>>].status = "ACTIVE"

\* Mutant of KeyIsFree: the key only covers rows that are ACTIVE.
KeyIsFree_Released(j, a) == ~HasActive(j, a)

\* The primary key of reservations.insert: an attempt is reserved once, ever.
KeyIsFree(j, a) == reservations[<<j, a>>].status = "NONE"

\* Mutants of ReleaseReservation: the amounts come from the job's config of today;
\* the row is left ACTIVE.
ReleaseReservation_TodaysConfig(j, a) ==
    IF HasActive(j, a)
    THEN /\ reservations' = [reservations EXCEPT ![<<j, a>>] = [@ EXCEPT !.status = "RELEASED"]]
         /\ capacity' = [d \in Dims |-> capacity[d] - jobs[j].request[d]]
    ELSE UNCHANGED <<reservations, capacity>>

ReleaseReservation_RowKept(j, a) ==
    IF HasActive(j, a)
    THEN /\ capacity' = [d \in Dims |-> capacity[d] - reservations[<<j, a>>].amount[d]]
         /\ UNCHANGED reservations
    ELSE UNCHANGED <<reservations, capacity>>

\* reservations.release followed, only if it won, by capacity.release of the
\* amounts stored in the reservation row.
ReleaseReservation(j, a) ==
    IF HasActive(j, a)
    THEN /\ reservations' = [reservations EXCEPT ![<<j, a>>] = [@ EXCEPT !.status = "RELEASED"]]
         /\ capacity' = [d \in Dims |-> capacity[d] - reservations[<<j, a>>].amount[d]]
    ELSE UNCHANGED <<reservations, capacity>>

\* The WHERE clause of capacity.try_reserve: every dimension must fit.
Fits(amount) == \A d \in Dims : capacity[d] + amount[d] <= Total[d]

-----------------------------------------------------------------------------
(* attempts.py and dlq.py *)

\* attempts.mark_lost: insert or update, as the worker may have died before its insert.
mark_lost(j, a) == attempts' = [attempts EXCEPT ![<<j, a>>] = "LOST"]

\* dlq.insert.
insert_dlq(j) == dlq' = [dlq EXCEPT ![j] = dlq[j] + 1]

-----------------------------------------------------------------------------
(* jobs.py *)

\* What list_schedulable and claim both ask of the job row.
Eligible(j) ==
    /\ jobs[j].status = "QUEUED"
    /\ ~jobs[j].cancel_requested
    /\ jobs[j].next_retry # "waiting"
    /\ ~jobs[j].deleted

list_schedulable ==
    {j \in Jobs : Eligible(j) /\ ~HasActive(j, jobs[j].attempt_number + 1)}

\* Mutant of Claimable: the EXISTS subquery on reservations is forgotten.
Claimable_Unreserved(j) == Eligible(j)

Claimable(j) == Eligible(j) /\ HasActive(j, jobs[j].attempt_number + 1)

claim(j, w) ==
    jobs' = [jobs EXCEPT ![j] = [@ EXCEPT !.status = "RUNNING",
                                          !.lease_owner = w,
                                          !.lease = "live",
                                          !.attempt_number = jobs[j].attempt_number + 1,
                                          !.next_retry = "none"]]

\* Mutant of Owns: the status is not part of the fence.
Owns_AnyStatus(w, j, a) ==
    /\ jobs[j].lease_owner = w
    /\ jobs[j].attempt_number = a

\* The fencing condition of heartbeat and finalize_attempt.
Owns(w, j, a) ==
    /\ jobs[j].status = "RUNNING"
    /\ jobs[j].lease_owner = w
    /\ jobs[j].attempt_number = a

\* Mutant of LeaveRunning: an attempt that is to be retried does not count.
LeaveRunning_Uncounted(j, to, retry) ==
    jobs' = [jobs EXCEPT ![j] =
               [@ EXCEPT !.status = to,
                         !.lease_owner = None,
                         !.lease = "none",
                         !.attempt_number = @ - (IF to = "QUEUED" THEN 1 ELSE 0),
                         !.next_retry = retry]]

\* The row part of finalize_attempt and reclaim_stale: leave RUNNING, drop the
\* lease, and store the next_retry_at the caller computed.
LeaveRunning(j, to, retry) ==
    jobs' = [jobs EXCEPT ![j] = [@ EXCEPT !.status = to,
                                          !.lease_owner = None,
                                          !.lease = "none",
                                          !.next_retry = retry]]

\* The row conditional_transition updates: status only, the lease untouched.
conditional_transition(j, to) ==
    /\ jobs[j].status \in sources_for(to)
    /\ ~jobs[j].deleted
    /\ jobs' = [jobs EXCEPT ![j] = [@ EXCEPT !.status = to]]

\* Mutant of list_stale_leases: the last attempt is thought not worth reclaiming.
list_stale_leases_Retryable ==
    {j \in Jobs : /\ jobs[j].status = "RUNNING"
                  /\ jobs[j].lease = "expired"
                  /\ jobs[j].attempt_number < MaxAttempts
                  /\ ~jobs[j].deleted}

list_stale_leases ==
    {j \in Jobs : /\ jobs[j].status = "RUNNING"
                  /\ jobs[j].lease = "expired"
                  /\ ~jobs[j].deleted}

list_retry_due ==
    {j \in Jobs : /\ jobs[j].status = "QUEUED"
                  /\ jobs[j].next_retry = "due"
                  /\ ~jobs[j].deleted}

\* Mutant of insert_event: one unpublished row per job is thought to be enough.
insert_event_Once(j) == outbox' = [outbox EXCEPT ![j] = 1]

\* outbox.insert_event: the row is committed by insert_event itself.
insert_event(j) == outbox' = [outbox EXCEPT ![j] = @ + 1]

RecordWaiting(j) == decisions' = [decisions EXCEPT ![j] = [@ EXCEPT !.waiting = TRUE]]

-----------------------------------------------------------------------------
(* Time: the clock passes lease_expires_at or next_retry_at. *)

LeaseExpires(j) ==
    /\ jobs[j].lease = "live"
    /\ jobs' = [jobs EXCEPT ![j] = [@ EXCEPT !.lease = "expired"]]
    /\ UNCHANGED <<reservations, capacity, attempts, dlq, outbox, decisions>>

RetryDue(j) ==
    /\ jobs[j].next_retry = "waiting"
    /\ jobs' = [jobs EXCEPT ![j] = [@ EXCEPT !.next_retry = "due"]]
    /\ UNCHANGED <<reservations, capacity, attempts, dlq, outbox, decisions>>
=============================================================================
