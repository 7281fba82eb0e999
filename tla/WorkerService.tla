----------------------------- MODULE WorkerService -----------------------------
(***************************************************************************)
(* The Worker (worker/main.py, app/services/worker.py): consumes a         *)
(* job.queued message, claims the job, runs its executor under a heartbeat *)
(* thread and writes the outcome, every write fenced by (lease_owner,      *)
(* attempt_number).  The offset is committed when the message has been     *)
(* handled, whatever the outcome.                                          *)
(***************************************************************************)
EXTENDS OutboxRelay

CONSTANTS
    Backed,         \* jobs with a training or evaluation run: their executor commits
    Classes,        \* failure classifications the executor may report
    LoseMessages    \* TRUE: the claim itself may raise (the database is unreachable)

TRANSIENT == "transient"
PERMANENT == "permanent"
UNKNOWN == "unknown"
RETRYABLE_CLASSIFICATIONS == {TRANSIENT, UNKNOWN}

ASSUME BackedAreJobs == Backed \subseteq Jobs
ASSUME ClassesAreKnown == Classes \subseteq {TRANSIENT, PERMANENT, UNKNOWN}
ASSUME LoseMessagesIsBoolean == LoseMessages \in BOOLEAN

VARIABLE work       \* what each worker process holds while handling a message

Results == {"SUCCEEDED"} \cup Classes

WorkerState ==
    [pc : {"idle", "claimed", "loaded", "inserted", "executing", "finalize"},
     job : Jobs \cup {None}, attempt : 0..MaxAttempts, abandoned : BOOLEAN,
     saw : BOOLEAN, result : Results \cup {None}]

WorkerIdle ==
    [pc |-> "idle", job |-> None, attempt |-> 0, abandoned |-> FALSE,
     saw |-> FALSE, result |-> None]

WorkerInit == work = [w \in Workers |-> WorkerIdle]

\* Mutant of is_retryable: off by one at the retry bound.
is_retryable_OneMore(class, a) ==
    class \in RETRYABLE_CLASSIFICATIONS /\ a <= MaxAttempts

is_retryable(class, a) == class \in RETRYABLE_CLASSIFICATIONS /\ a < MaxAttempts

Consume(j) ==
    /\ topic[j] > 0
    /\ topic' = [topic EXCEPT ![j] = topic[j] - 1]

\* repo.claim matched and committed; the job has not been re-read yet.
Claim(w, j) ==
    /\ work[w].pc = "idle"
    /\ Consume(j)
    /\ Claimable(j)
    /\ claim(j, w)
    /\ work' = [work EXCEPT ![w] = [WorkerIdle EXCEPT !.pc = "claimed", !.job = j]]
    /\ UNCHANGED <<reservations, capacity, attempts, dlq, outbox, decisions>>

\* "not_claimed": the message is acknowledged as a no-op.
NotClaimed(w, j) ==
    /\ work[w].pc = "idle"
    /\ Consume(j)
    /\ ~Claimable(j)
    /\ UNCHANGED <<storeVars, work>>

\* The claim raised: the offset is committed all the same.
ClaimRaises(w, j) ==
    /\ LoseMessages
    /\ work[w].pc = "idle"
    /\ Consume(j)
    /\ UNCHANGED <<storeVars, work>>

\* claim's trailing get(): the attempt number is read back in a new transaction,
\* and a job soft-deleted meanwhile looks unclaimed.
Reload(w) ==
    LET j == work[w].job IN
    /\ work[w].pc = "claimed"
    /\ work' = [work EXCEPT ![w] =
                  IF jobs[j].deleted THEN WorkerIdle
                  ELSE [@ EXCEPT !.pc = "loaded", !.attempt = jobs[j].attempt_number]]
    /\ UNCHANGED <<storeVars, topic>>

\* attempts.insert; a taken primary key raises and the message is given up.
InsertAttempt(w) ==
    LET j == work[w].job
        a == work[w].attempt
    IN
    /\ work[w].pc = "loaded"
    /\ IF attempts[<<j, a>>] = "NONE"
       THEN /\ attempts' = [attempts EXCEPT ![<<j, a>>] = "RUNNING"]
            /\ work' = [work EXCEPT ![w] = [@ EXCEPT !.pc = "inserted"]]
       ELSE /\ work' = [work EXCEPT ![w] = WorkerIdle]
            /\ UNCHANGED attempts
    /\ UNCHANGED <<jobs, reservations, capacity, dlq, outbox, decisions, topic>>

\* The executor's first access to the job object reloads the expired row.
StartExecutor(w) ==
    /\ work[w].pc = "inserted"
    /\ work' = [work EXCEPT ![w] =
                  [@ EXCEPT !.pc = "executing", !.saw = jobs[work[w].job].cancel_requested]]
    /\ UNCHANGED <<storeVars, topic>>

\* One beat of the heartbeat thread, on its own session.
Heartbeat(w) ==
    LET j == work[w].job IN
    /\ work[w].pc \in {"inserted", "executing"}
    /\ ~work[w].abandoned
    /\ IF Owns(w, j, work[w].attempt)
       THEN /\ jobs' = [jobs EXCEPT ![j] = [@ EXCEPT !.lease = "live"]]
            /\ UNCHANGED work
       ELSE /\ work' = [work EXCEPT ![w] = [@ EXCEPT !.abandoned = TRUE]]
            /\ UNCHANGED jobs
    /\ UNCHANGED <<reservations, capacity, attempts, dlq, outbox, decisions, topic>>

\* What the checkpoint after execution can read of cancel_requested.  repo.get
\* returns the object the session holds: as loaded when the executor started,
\* unless the executor committed (and so expired it) meanwhile.
CheckpointSees(w) ==
    IF work[w].job \in Backed
    THEN {work[w].saw, jobs[work[w].job].cancel_requested}
    ELSE {work[w].saw}

\* The executor returns, the heartbeat thread is joined, cancel_requested is read.
FinishExecutor(w) ==
    /\ work[w].pc = "executing"
    /\ ~work[w].abandoned
    /\ \E r \in Results, c \in CheckpointSees(w) :
          work' = [work EXCEPT ![w] = [@ EXCEPT !.pc = "finalize", !.saw = c, !.result = r]]
    /\ UNCHANGED <<storeVars, topic>>

\* "fenced_out": a rejected heartbeat makes the worker drop its result.
Abandon(w) ==
    /\ work[w].pc = "executing"
    /\ work[w].abandoned
    /\ work' = [work EXCEPT ![w] = WorkerIdle]
    /\ UNCHANGED <<storeVars, topic>>

\* The job status the worker asks for, and what it writes in the attempts row.
JobOutcome(w) ==
    IF work[w].saw THEN "CANCELLED"
    ELSE IF work[w].result = "SUCCEEDED" THEN "SUCCEEDED"
    ELSE IF is_retryable(work[w].result, work[w].attempt) THEN "QUEUED"
    ELSE "FAILED"

\* Mutant of AttemptOutcome: the attempt records the executor's result although
\* the job was cancelled.
AttemptOutcome_NoCancel(w) ==
    IF work[w].result = "SUCCEEDED" THEN "SUCCEEDED" ELSE "FAILED"

AttemptOutcome(w) == IF JobOutcome(w) = "QUEUED" THEN "FAILED" ELSE JobOutcome(w)

\* The finalizing transaction: job, attempt, DLQ row for a terminal failure, and
\* the reservation.
Finalize(w) ==
    LET j == work[w].job
        a == work[w].attempt
    IN
    /\ work[w].pc = "finalize"
    /\ Owns(w, j, a)
    /\ ~jobs[j].deleted
    /\ LeaveRunning(j, JobOutcome(w),
                    IF JobOutcome(w) = "QUEUED" THEN "waiting" ELSE jobs[j].next_retry)
    /\ attempts' = [attempts EXCEPT ![<<j, a>>] = AttemptOutcome(w)]
    /\ IF JobOutcome(w) = "FAILED" THEN insert_dlq(j) ELSE UNCHANGED dlq
    /\ ReleaseReservation(j, a)
    /\ work' = [work EXCEPT ![w] = WorkerIdle]
    /\ UNCHANGED <<outbox, decisions, topic>>

\* Fenced out at the last write, or the job was soft-deleted so that the trailing
\* get() finds nothing: everything is rolled back.
FinalizeRejected(w) ==
    LET j == work[w].job IN
    /\ work[w].pc = "finalize"
    /\ ~Owns(w, j, work[w].attempt) \/ jobs[j].deleted
    /\ work' = [work EXCEPT ![w] = WorkerIdle]
    /\ UNCHANGED <<storeVars, topic>>

\* The process dies before committing the offset: the message comes back.
WorkerCrash(w) ==
    /\ work[w].pc # "idle"
    /\ Deliver(work[w].job)
    /\ work' = [work EXCEPT ![w] = WorkerIdle]
    /\ UNCHANGED storeVars

\* process_job_message raises: the offset is committed, nothing comes back.
WorkerRaises(w) ==
    /\ work[w].pc # "idle"
    /\ work' = [work EXCEPT ![w] = WorkerIdle]
    /\ UNCHANGED <<storeVars, topic>>

\* A rebalance redelivers the message while the worker is still handling it.
Redeliver(w) ==
    /\ work[w].pc # "idle"
    /\ Deliver(work[w].job)
    /\ UNCHANGED <<storeVars, work>>

WorkerStep(w) ==
    \/ \E j \in Jobs : Claim(w, j) \/ NotClaimed(w, j)
    \/ Reload(w) \/ InsertAttempt(w) \/ StartExecutor(w)
    \/ FinishExecutor(w) \/ Abandon(w) \/ Finalize(w) \/ FinalizeRejected(w)
=============================================================================
