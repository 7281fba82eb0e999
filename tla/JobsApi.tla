-------------------------------- MODULE JobsApi --------------------------------
(***************************************************************************)
(* The job endpoints (app/routers/jobs.py, app/services/jobs.py).  Create, *)
(* PATCH and DELETE are one transaction each; cancel reads the job first   *)
(* and acts on what it read in a second statement.                         *)
(***************************************************************************)
EXTENDS JobStore

CONSTANTS
    Clients,        \* concurrent cancel calls
    PatchTargets,   \* statuses clients ask for with PATCH
    Deletable,      \* jobs clients may soft-delete
    PatchConfig     \* TRUE: clients may change a job's config with PATCH

ASSUME PatchTargetsAreStatuses == PatchTargets \subseteq Status
ASSUME DeletableAreJobs == Deletable \subseteq Jobs
ASSUME PatchConfigIsBoolean == PatchConfig \in BOOLEAN

VARIABLE calls      \* the cancel call each client has in progress

CallState ==
    [pc : {"idle", "fast", "request"}, job : Jobs \cup {None}, attempt : 0..MaxAttempts]

CallIdle == [pc |-> "idle", job |-> None, attempt |-> 0]

ApiInit == calls = [c \in Clients |-> CallIdle]

\* create_and_enqueue: PENDING is never committed.
CreateJob(j) ==
    /\ jobs[j].status = Absent
    /\ \E q \in Requests :
          jobs' = [jobs EXCEPT ![j] = [NoRow EXCEPT !.status = "QUEUED", !.request = q]]
    /\ UNCHANGED <<reservations, capacity, attempts, dlq, outbox, decisions, calls>>

\* Mutant of CancelRead: the attempt after the current one is remembered.
CancelRead_NextAttempt(c, j) ==
    /\ calls[c].pc = "idle"
    /\ ~jobs[j].deleted
    /\ jobs[j].status \in {"PENDING", "QUEUED", "RUNNING"}
    /\ calls' = [calls EXCEPT ![c] =
                   [pc |-> IF jobs[j].status = "RUNNING" THEN "request" ELSE "fast",
                    job |-> j, attempt |-> jobs[j].attempt_number + 1]]
    /\ UNCHANGED storeVars

\* cancel_job's get_job, and the branch it chooses; a terminal job answers 409.
CancelRead(c, j) ==
    /\ calls[c].pc = "idle"
    /\ ~jobs[j].deleted
    /\ jobs[j].status \in {"PENDING", "QUEUED", "RUNNING"}
    /\ calls' = [calls EXCEPT ![c] =
                   [pc |-> IF jobs[j].status = "RUNNING" THEN "request" ELSE "fast",
                    job |-> j, attempt |-> jobs[j].attempt_number]]
    /\ UNCHANGED storeVars

\* The fast path: QUEUED or RUNNING by now, and the reservation released is the
\* one of the attempt after the one that was read.
CancelFast(c) ==
    LET j == calls[c].job IN
    /\ calls[c].pc = "fast"
    /\ conditional_transition(j, "CANCELLED")
    /\ ReleaseReservation(j, calls[c].attempt + 1)
    /\ calls' = [calls EXCEPT ![c] = CallIdle]
    /\ UNCHANGED <<attempts, dlq, outbox, decisions>>

\* set_cancel_requested on a job that is still RUNNING.
CancelRequest(c) ==
    LET j == calls[c].job IN
    /\ calls[c].pc = "request"
    /\ jobs[j].status = "RUNNING"
    /\ ~jobs[j].deleted
    /\ jobs' = [jobs EXCEPT ![j] = [@ EXCEPT !.cancel_requested = TRUE]]
    /\ calls' = [calls EXCEPT ![c] = CallIdle]
    /\ UNCHANGED <<reservations, capacity, attempts, dlq, outbox, decisions>>

\* The conditional UPDATE matched no row: 409 on the fast path, the job as it is
\* on the other.
CancelMisses(c) ==
    LET j == calls[c].job IN
    /\ calls[c].pc # "idle"
    /\ \/ jobs[j].deleted
       \/ calls[c].pc = "fast" /\ jobs[j].status \notin sources_for("CANCELLED")
       \/ calls[c].pc = "request" /\ jobs[j].status # "RUNNING"
    /\ calls' = [calls EXCEPT ![c] = CallIdle]
    /\ UNCHANGED storeVars

\* PATCH with a status: transition().
PatchStatus(j) ==
    /\ \E to \in PatchTargets : conditional_transition(j, to)
    /\ UNCHANGED <<reservations, capacity, attempts, dlq, outbox, decisions, calls>>

\* PATCH with a config: the resources a later admission will ask for.
UpdateConfig(j) ==
    /\ PatchConfig
    /\ jobs[j].status # Absent
    /\ ~jobs[j].deleted
    /\ \E q \in Requests : jobs' = [jobs EXCEPT ![j] = [@ EXCEPT !.request = q]]
    /\ UNCHANGED <<reservations, capacity, attempts, dlq, outbox, decisions, calls>>

\* DELETE: soft_delete, whatever the job is doing.
DeleteJob(j) ==
    /\ j \in Deletable
    /\ jobs[j].status # Absent
    /\ ~jobs[j].deleted
    /\ jobs' = [jobs EXCEPT ![j] = [@ EXCEPT !.deleted = TRUE]]
    /\ UNCHANGED <<reservations, capacity, attempts, dlq, outbox, decisions, calls>>
=============================================================================
