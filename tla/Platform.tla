-------------------------------- MODULE Platform --------------------------------
(***************************************************************************)
(* The job platform: API, Scheduler, Outbox Relay, Worker and Recovery     *)
(* processes running concurrently over one database and one topic.         *)
(***************************************************************************)
EXTENDS SchedulerService, WorkerService, RecoveryService, JobsApi

vars == <<storeVars, topic, relay, sched, work, recov, calls>>

Init ==
    /\ StoreInit
    /\ RelayInit
    /\ SchedInit
    /\ WorkerInit
    /\ RecoveryInit
    /\ ApiInit

Api ==
    /\ \/ \E j \in Jobs : \/ CreateJob(j) \/ PatchStatus(j)
                          \/ UpdateConfig(j) \/ DeleteJob(j)
       \/ \E c \in Clients : \/ \E j \in Jobs : CancelRead(c, j)
                             \/ CancelFast(c) \/ CancelRequest(c) \/ CancelMisses(c)
    /\ UNCHANGED <<topic, relay, sched, work, recov>>

Scheduler(s) ==
    /\ SchedulerStep(s) \/ SchedulerCrash(s)
    /\ UNCHANGED <<topic, relay, work, recov, calls>>

Relay ==
    /\ RelayStep \/ RelayCrash
    /\ UNCHANGED <<sched, work, recov, calls>>

Worker(w) ==
    /\ \/ WorkerStep(w) \/ Heartbeat(w)
       \/ WorkerCrash(w) \/ WorkerRaises(w) \/ Redeliver(w)
       \/ \E j \in Jobs : ClaimRaises(w, j)
    /\ UNCHANGED <<relay, sched, recov, calls>>

Recovery(r) ==
    /\ RecoveryStep(r) \/ RecoveryCrash(r)
    /\ UNCHANGED <<topic, relay, sched, work, calls>>

Clock ==
    /\ \E j \in Jobs : LeaseExpires(j) \/ RetryDue(j)
    /\ UNCHANGED <<topic, relay, sched, work, recov, calls>>

Next ==
    \/ Api
    \/ \E s \in Schedulers : Scheduler(s)
    \/ Relay
    \/ \E w \in Workers : Worker(w)
    \/ \E r \in Recoveries : Recovery(r)
    \/ Clock

Spec == Init /\ [][Next]_vars

-----------------------------------------------------------------------------
(* Types *)

\* Every table and every process-local record holds values of its type: the
\* columns of app/models/ and the locals of the process loops.
TypeOK ==
    /\ jobs \in [Jobs -> JobRow]
    /\ reservations \in [Jobs \X Attempts -> ReservationRow]
    /\ capacity \in [Dims -> Int]
    /\ attempts \in [Jobs \X Attempts -> AttemptStatus]
    /\ dlq \in [Jobs -> Nat]
    /\ outbox \in [Jobs -> Int]
    /\ decisions \in [Jobs -> [admitted : Nat, waiting : BOOLEAN]]
    /\ topic \in [Jobs -> Nat]
    /\ relay \in Jobs \cup {None}
    /\ sched \in [Schedulers -> SchedState]
    /\ work \in [Workers -> WorkerState]
    /\ recov \in [Recoveries -> RecoveryState]
    /\ calls \in [Clients -> CallState]

-----------------------------------------------------------------------------
(* Resource accounting *)

\* The units of dimension d that ACTIVE reservations hold, one element for each.
HeldUnits(d) ==
    UNION {{k} \X (1..reservations[k].amount[d]) :
              k \in {r \in Jobs \X Attempts : reservations[r].status = "ACTIVE"}}

\* capacity.allocated_* is what the ACTIVE reservations add up to, and never more
\* than the total: try_reserve, release and every rollback keep the counter and
\* the rows in step, although the counter is never recomputed and a job's config
\* may change while its reservation is held (FAILURE_SCENARIOS_V0.4.md, 16).
Conservation ==
    \A d \in Dims : /\ capacity[d] = Cardinality(HeldUnits(d))
                    /\ capacity[d] <= Total[d]

\* A job never holds two reservations at once, although schedulers act on listings
\* that are out of date (STATE_TRANSITIONS_V0.4.md, "No double reservation").
NoDoubleReservation ==
    \A j \in Jobs : \A a, b \in Attempts :
        HasActive(j, a) /\ HasActive(j, b) => a = b

\* A job a worker holds the lease of runs on the reservation of exactly its
\* current attempt: no step of another process can pull it away while the job is
\* RUNNING (ARCHITECTURE_V0.4.md, "a worker can never execute without...").
RunningIsReserved ==
    \A j \in Jobs :
        jobs[j].status = "RUNNING" /\ jobs[j].lease_owner # None
            => HasActive(j, jobs[j].attempt_number)

-----------------------------------------------------------------------------
(* Why the two hold: an inductive invariant, proved in PlatformProofs. *)

\* A process that is handling a job knows which one.
LocalsOK ==
    /\ \A s \in Schedulers : sched[s].pc \notin {"idle", "next"} => sched[s].job \in Jobs
    /\ \A w \in Workers : work[w].pc # "idle" => work[w].job \in Jobs
    /\ \A r \in Recoveries : recov[r].pc = "clear" => recov[r].job \in Jobs
    /\ \A c \in Clients : calls[c].pc # "idle" => calls[c].job \in Jobs

\* The attempt whose reservation a job may hold: the one it runs if somebody holds
\* its lease, the next one otherwise.
ReservedAttempt(j) ==
    jobs[j].attempt_number + (IF jobs[j].lease_owner = None THEN 1 ELSE 0)

\* An ACTIVE reservation moves from "next attempt" to "current attempt" exactly
\* when the lease is taken and is gone before the lease is given up, through
\* every race of claim, finalize_attempt, reclaim_stale, cancel and PATCH.
ReservationFollowsLease ==
    \A j \in Jobs : \A a \in Attempts : HasActive(j, a) => a = ReservedAttempt(j)

\* Every attempt that was started had been admitted, and the row is never removed.
StartedWasAdmitted ==
    \A j \in Jobs : \A a \in Attempts :
        a <= jobs[j].attempt_number => reservations[<<j, a>>].status # "NONE"

\* A waiting job is free, and has an attempt left; a job not created has
\* no history.
WaitingIsFree ==
    \A j \in Jobs :
        /\ jobs[j].status = "QUEUED" =>
              jobs[j].lease_owner = None /\ jobs[j].attempt_number < MaxAttempts
        /\ jobs[j].status = Absent =>
              jobs[j].lease_owner = None /\ jobs[j].attempt_number = 0
        /\ jobs[j].status # "PENDING"

\* What an old listing can still admit: never an attempt beyond ReservedAttempt.
ListingIsBehind ==
    \A s \in Schedulers :
        /\ sched[s].pc = "reserve" => sched[s].eligible
        /\ sched[s].pc \in {"check", "reserve"} /\ sched[s].eligible =>
              /\ sched[s].attempt \in Attempts
              /\ sched[s].attempt <= ReservedAttempt(sched[s].job)

ReservationInv ==
    /\ TypeOK
    /\ LocalsOK
    /\ ReservationFollowsLease
    /\ StartedWasAdmitted
    /\ WaitingIsFree
    /\ ListingIsBehind
    /\ RunningIsReserved

-----------------------------------------------------------------------------
(* Attempt history *)

\* Attempt rows follow the fencing token: attempts before the current one all
\* ended FAILED or LOST, without a gap, and none exists beyond it, although a
\* paused worker may read a later attempt's number back (claim, attempts.insert,
\* mark_lost and finalize_attempt race here).
AttemptHistory ==
    \A j \in Jobs :
        LET n == jobs[j].attempt_number IN
        /\ \A a \in Attempts :
              /\ a < n => attempts[<<j, a>>] \in {"FAILED", "LOST"}
              /\ a > n => attempts[<<j, a>>] = "NONE"
        /\ jobs[j].status = "QUEUED" =>
              /\ n < MaxAttempts
              /\ n > 0 => attempts[<<j, n>>] \in {"FAILED", "LOST"}
        /\ jobs[j].status = "RUNNING" /\ n > 0 /\ jobs[j].lease_owner # None =>
              attempts[<<j, n>>] \in {"NONE", "RUNNING"}

\* Without PATCH, the outcome of a job is the outcome its current attempt
\* recorded, written by the owner of the lease in the same transaction: a job is
\* SUCCEEDED exactly when that row is, and a FAILED one has a FAILED row with one
\* DLQ entry or a LOST one with none.
OutcomeMatchesAttempt ==
    PatchTargets = {} =>
        \A j \in Jobs :
            LET n == jobs[j].attempt_number
                last == IF n = 0 THEN "NONE" ELSE attempts[<<j, n>>]
            IN
            /\ jobs[j].status = "SUCCEEDED" <=> last = "SUCCEEDED"
            /\ last = "CANCELLED" => jobs[j].status = "CANCELLED"
            /\ jobs[j].status = "FAILED" =>
                  \/ last = "FAILED" /\ dlq[j] = 1
                  \/ last = "LOST" /\ dlq[j] = 0
            /\ jobs[j].status # "FAILED" => dlq[j] = 0

\* What is over stays over: no step, however late, rewrites a terminal job status
\* or the outcome of an attempt that ended (the fencing of finalize_attempt and
\* reclaim_stale).
OverIsOver ==
    [][/\ \A j \in Jobs : jobs[j].status \in Terminal => jobs'[j].status = jobs[j].status
       /\ \A k \in Jobs \X Attempts :
             attempts[k] \notin {"NONE", "RUNNING"} => attempts'[k] = attempts[k]]_vars

-----------------------------------------------------------------------------
(* Capacity comes back *)

\* An attempt that is over holds no capacity, and never will again: whoever ends it
\* releases its reservation in the same transaction, and an old listing cannot admit
\* it a second time.  Nor does a job hold one for an attempt that will not be, once it
\* SUCCEEDED or FAILED by its attempts and not by a PATCH: no late admission outlives
\* it (finalize_attempt, reclaim_stale, reservations.release and try_admit race here).
OverHoldsNothing ==
    \A j \in Jobs : \A a \in Attempts :
        HasActive(j, a) =>
            /\ attempts[<<j, a>>] \in {"NONE", "RUNNING"}
            /\ PatchTargets = {} => jobs[j].status \notin {"SUCCEEDED", "FAILED"}

-----------------------------------------------------------------------------
(* Delivery *)

\* A message about the job is on its way: an outbox row the relay has not sent in this
\* round, or one in the topic.
Announced(j) == topic[j] > 0 \/ outbox[j] > (IF relay = j THEN 1 ELSE 0)

\* An admitted job that a worker could claim always has a message on its way.  A lost
\* one would strand the job for ever, because list_schedulable leaves reserved
\* jobs out (the hole create_and_enqueue's docstring describes).
ClaimableIsDispatched ==
    ~LoseMessages =>
        \A j \in Jobs : Claimable(j) => Announced(j)

\* The Scheduler can admit the job's next attempt: one is left, and no earlier
\* admission has taken its primary key.
Admissible(j) ==
    /\ jobs[j].attempt_number < MaxAttempts
    /\ KeyIsFree(j, jobs[j].attempt_number + 1)

\* Nobody is forgotten: a QUEUED job can be admitted by the Scheduler, once its backoff is
\* over, or it is admitted, claimable, and a message tells the workers; a RUNNING one is
\* where Recovery looks once its lease expires.  A reservation released ahead of its
\* attempt (cancel_job), a lease without an expiry, or a backoff on an admitted job would
\* leave it where no process ever looks.  Left out, because nobody does look there: a job
\* whose message was lost (LoseMessages), a deleted one, a QUEUED one whose cancellation
\* was requested (CancelRequestedEnds), and one that a PATCH made RUNNING without a lease.
NobodyIsForgotten ==
    ~LoseMessages =>
        \A j \in Jobs : ~jobs[j].deleted =>
            /\ jobs[j].status = "QUEUED" /\ ~jobs[j].cancel_requested =>
                  Admissible(j) \/ (Claimable(j) /\ Announced(j))
            /\ jobs[j].status = "RUNNING" /\ (PatchTargets = {} \/ jobs[j].lease_owner # None)
                  => jobs[j].lease \in {"live", "expired"}

-----------------------------------------------------------------------------
(* Statements of the repository's documents that the code does not keep. *)

\* FAILURE_SCENARIOS_V0.4.md, 4: "capacity is never left reserved for a job that
\* ends up CANCELLED without ever running".
NeverRanHoldsNothing ==
    \A j \in Jobs :
        jobs[j].status = "CANCELLED" /\ jobs[j].attempt_number = 0
            => \A a \in Attempts : ~HasActive(j, a)

\* STATE_TRANSITIONS_V0.3.md: "Reaching FAILED via exhausted retries or permanent
\* classification is followed by a dlq row insert in the same transaction".
FailedIsInDlq ==
    \A j \in Jobs : jobs[j].status = "FAILED" => dlq[j] > 0

\* STATE_TRANSITIONS_V0.3.md on a job whose cancellation keeps it from being
\* claimed: "claim rejected, job later transitions QUEUED -> CANCELLED".
CancelRequestedEnds ==
    \A j \in Jobs : jobs[j].cancel_requested ~> jobs[j].status \in Terminal

-----------------------------------------------------------------------------
(***************************************************************************)
(* Fairness.  Every main loop catches what a pass raises and polls again,  *)
(* so a process with work to do takes a step (WF).  A process that is      *)
(* killed is restarted, as recovery.py and the failure scenarios assume,   *)
(* and a crash does not hit the same step of every pass: the step that     *)
(* commits an admission, a publication or a reclaim is taken if it is      *)
(* reached again and again (SF); so is listing the stale leases, the first *)
(* query of every Recovery pass.  The executor terminates, the clock       *)
(* advances, and a request the API has accepted is handled; clients owe no *)
(* request.                                                                *)
(***************************************************************************)
SchedulerWork(s) == SchedulerStep(s) /\ UNCHANGED <<topic, relay, work, recov, calls>>
SchedulerReserves(s) == Reserve(s) /\ UNCHANGED <<topic, relay, work, recov, calls>>
SchedulerRechecks(s) == Recheck(s) /\ UNCHANGED <<topic, relay, work, recov, calls>>
RelayWork == RelayStep /\ UNCHANGED <<sched, work, recov, calls>>
RelayMarks == MarkPublished /\ UNCHANGED <<sched, work, recov, calls>>
WorkerWork(w) == WorkerStep(w) /\ UNCHANGED <<relay, sched, recov, calls>>
RecoveryWork(r) == RecoveryStep(r) /\ UNCHANGED <<topic, relay, sched, work, calls>>
RecoveryListsStale(r) == ListStale(r) /\ UNCHANGED <<topic, relay, sched, work, calls>>
RecoveryReclaims(r) == Reclaim(r) /\ UNCHANGED <<topic, relay, sched, work, calls>>
CallFinishes(c) ==
    /\ CancelFast(c) \/ CancelRequest(c) \/ CancelMisses(c)
    /\ UNCHANGED <<topic, relay, sched, work, recov>>

Fairness ==
    /\ \A s \in Schedulers : /\ WF_vars(SchedulerWork(s))
                             /\ SF_vars(SchedulerRechecks(s))
                             /\ SF_vars(SchedulerReserves(s))
    /\ WF_vars(RelayWork)
    /\ SF_vars(RelayMarks)
    /\ \A c \in Clients : WF_vars(CallFinishes(c))
    /\ \A w \in Workers : WF_vars(WorkerWork(w))
    /\ \A r \in Recoveries : /\ WF_vars(RecoveryWork(r))
                             /\ SF_vars(RecoveryListsStale(r))
                             /\ SF_vars(RecoveryReclaims(r))
    /\ WF_vars(Clock)

FairSpec == Spec /\ Fairness

\* Every job that was submitted ends, and gives its capacity back: through crashes
\* at any step, expired leases, duplicate messages and lost attempts, the retry
\* bound and the hand-over from scheduler to relay to worker leave no state in
\* which a job waits for ever.  A claim that raises (LoseMessages) and clients that
\* cancel, PATCH or delete are left out: they do strand jobs.
EveryJobEnds ==
    \A j \in Jobs :
        jobs[j].status # Absent ~>
            /\ jobs[j].status \in Terminal
            /\ \A a \in Attempts : ~HasActive(j, a)

-----------------------------------------------------------------------------
\* The platform implements the life cycle of JobLifecycle.
Life == INSTANCE JobLifecycle
            WITH status <- [j \in Jobs |-> jobs[j].status],
                 attempt <- [j \in Jobs |-> jobs[j].attempt_number]

ImplementsLifecycle == Life!LifeSpec

\* What an executor sees of its worker: from the read-back of the attempt number to
\* the executor's return it is at work.
AsExec(r) ==
    [pc |-> IF r.pc \in {"loaded", "inserted", "executing"} THEN "lookup" ELSE r.pc,
     job |-> r.job, attempt |-> r.attempt, at |-> 0,
     abandoned |-> r.abandoned, result |-> r.result]

\* The platform implements the host of AttemptHost, on which the executors of Training
\* and Evaluation run.
Host == INSTANCE AttemptHost
            WITH status <- [j \in Jobs |-> jobs[j].status],
                 attempt <- [j \in Jobs |-> jobs[j].attempt_number],
                 owner <- [j \in Jobs |-> jobs[j].lease_owner],
                 exec <- [w \in Workers |-> AsExec(work[w])],
                 Last <- 0

\* Whatever schedulers, relay, recovery, clients and the clock do, a worker's attempt
\* starts, is fenced off and ends as AttemptHost says: so what is shown of the
\* executors there rests on the platform's own code.
ImplementsHost == Host!HostSpec
=============================================================================
