---------------------------- MODULE RecoveryService ----------------------------
(***************************************************************************)
(* Recovery (recovery/main.py, app/services/recovery.py): reclaims stale   *)
(* leases, then dispatches retries whose backoff has elapsed.  A phase     *)
(* that finds nothing changes nothing, so a pass is modelled by the phases *)
(* that find something.                                                    *)
(***************************************************************************)
EXTENDS JobStore

CONSTANTS
    Recoveries,     \* recovery processes
    MaxOutbox       \* bound on the unpublished rows a retry dispatch adds to

ASSUME MaxOutboxPositive == MaxOutbox \in Nat \ {0}

VARIABLE recov      \* the phase of each process and the jobs it listed

RecoveryState ==
    [pc : {"idle", "reclaim", "dispatch", "clear"}, todo : SUBSET Jobs,
     job : Jobs \cup {None}]

RecoveryIdle == [pc |-> "idle", todo |-> {}, job |-> None]

RecoveryInit == recov = [r \in Recoveries |-> RecoveryIdle]

\* The for loop of a phase: back to the list, or done.
NextOf(pc, todo) ==
    IF todo = {} THEN RecoveryIdle ELSE [pc |-> pc, todo |-> todo, job |-> None]

ListStale(r) ==
    /\ recov[r].pc = "idle"
    /\ list_stale_leases # {}
    /\ recov' = [recov EXCEPT ![r] = NextOf("reclaim", list_stale_leases)]
    /\ UNCHANGED storeVars

\* Mutant of ReclaimTarget: off by one at the retry bound.
ReclaimTarget_OneMore(j) ==
    IF jobs[j].cancel_requested THEN "CANCELLED"
    ELSE IF jobs[j].attempt_number > MaxAttempts THEN "FAILED"
    ELSE "QUEUED"

\* The CASE expression of reclaim_stale.
ReclaimTarget(j) ==
    IF jobs[j].cancel_requested THEN "CANCELLED"
    ELSE IF jobs[j].attempt_number >= MaxAttempts THEN "FAILED"
    ELSE "QUEUED"

\* Reclaim, LOST and the release are one transaction.  The UPDATE checks RUNNING
\* and the expiry again, but not deleted_at.
Reclaim(r) ==
    /\ recov[r].pc = "reclaim"
    /\ \E j \in recov[r].todo :
          LET a == jobs[j].attempt_number IN
          /\ jobs[j].status = "RUNNING"
          /\ jobs[j].lease = "expired"
          /\ LeaveRunning(j, ReclaimTarget(j),
                          IF ReclaimTarget(j) = "QUEUED" THEN "waiting" ELSE "none")
          /\ mark_lost(j, a)
          /\ ReleaseReservation(j, a)
          /\ recov' = [recov EXCEPT ![r] = NextOf("reclaim", recov[r].todo \ {j})]
    /\ UNCHANGED <<dlq, outbox, decisions>>

\* Another process or a heartbeat won: nothing is updated.
ReclaimLoses(r) ==
    /\ recov[r].pc = "reclaim"
    /\ \E j \in recov[r].todo :
          /\ jobs[j].status # "RUNNING" \/ jobs[j].lease # "expired"
          /\ recov' = [recov EXCEPT ![r] = NextOf("reclaim", recov[r].todo \ {j})]
    /\ UNCHANGED storeVars

ListDue(r) ==
    /\ recov[r].pc = "idle"
    /\ list_retry_due # {}
    /\ recov' = [recov EXCEPT ![r] = NextOf("dispatch", list_retry_due)]
    /\ UNCHANGED storeVars

\* insert_event commits on its own, whatever became of the job since it was listed.
Dispatch(r) ==
    /\ recov[r].pc = "dispatch"
    /\ \E j \in recov[r].todo :
          /\ outbox[j] < MaxOutbox
          /\ insert_event(j)
          /\ recov' = [recov EXCEPT ![r] =
                          [pc |-> "clear", todo |-> recov[r].todo \ {j}, job |-> j]]
    /\ UNCHANGED <<jobs, reservations, capacity, attempts, dlq, decisions>>

\* clear_retry_dispatched: unconditional on the job's state.
ClearRetry(r) ==
    LET j == recov[r].job IN
    /\ recov[r].pc = "clear"
    /\ jobs' = [jobs EXCEPT ![j] = [@ EXCEPT !.next_retry = "none"]]
    /\ recov' = [recov EXCEPT ![r] = NextOf("dispatch", recov[r].todo)]
    /\ UNCHANGED <<reservations, capacity, attempts, dlq, outbox, decisions>>

RecoveryCrash(r) ==
    /\ recov[r].pc # "idle"
    /\ recov' = [recov EXCEPT ![r] = RecoveryIdle]
    /\ UNCHANGED storeVars

RecoveryStep(r) ==
    \/ ListStale(r) \/ Reclaim(r) \/ ReclaimLoses(r)
    \/ ListDue(r) \/ Dispatch(r) \/ ClearRetry(r)
=============================================================================
