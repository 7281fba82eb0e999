------------------------------ MODULE AttemptHost ------------------------------
(***************************************************************************)
(* The job life cycle as an executor meets it.  Jobs live as JobLifecycle  *)
(* says, which Platform is shown to implement; what is added is who holds  *)
(* the lease of the running attempt, and the worker process around the     *)
(* executor, from claim to finalize_attempt (app/services/worker.py).      *)
(* Admission, delivery and the lease's clock are left to Platform, which   *)
(* implements HostSpec: here a QUEUED job may be claimed and a held one    *)
(* reclaimed at any moment.                                                *)
(***************************************************************************)
EXTENDS JobLifecycle

CONSTANTS
    None,           \* SQL NULL
    Workers,
    Last            \* number of events a complete executor run reports

ASSUME NullIsNobody == None \notin Workers
ASSUME MaxAttemptsIsNat == MaxAttempts \in Nat
ASSUME LastIsNat == Last \in Nat

VARIABLES
    owner,          \* lease_owner of each job
    exec            \* what each worker process holds while handling a job

hostVars == <<status, attempt, owner, exec>>

Results == {"SUCCEEDED", "transient", "permanent", "unknown"}

ExecState ==
    [pc : {"idle", "claimed", "lookup", "prepare", "stream", "close", "finalize"},
     job : Jobs \cup {None}, attempt : 0..MaxAttempts,
     at : 0..Last,              \* events handled (what resume skipped included)
     abandoned : BOOLEAN,       \* the heartbeat thread was rejected
     result : Results \cup {None}]

ExecIdle ==
    [pc |-> "idle", job |-> None, attempt |-> 0, at |-> 0,
     abandoned |-> FALSE, result |-> None]

HostInit ==
    /\ LifeInit
    /\ owner = [j \in Jobs |-> None]
    /\ exec = [w \in Workers |-> ExecIdle]

HostTypeOK ==
    /\ status \in [Jobs -> Status \cup {Absent}]
    /\ attempt \in [Jobs -> 0..MaxAttempts]
    /\ owner \in [Jobs -> Workers \cup {None}]
    /\ exec \in [Workers -> ExecState]

\* Mutant of Holds: the status is not part of the fence.
Holds_AnyStatus(w) ==
    /\ owner[exec[w].job] = w
    /\ attempt[exec[w].job] = exec[w].attempt

\* The fence of every write an executor makes: the EXISTS subquery on jobs.
Holds(w) ==
    /\ status[exec[w].job] = "RUNNING"
    /\ owner[exec[w].job] = w
    /\ attempt[exec[w].job] = exec[w].attempt

GoOn(w, pc) == exec' = [exec EXCEPT ![w] = [@ EXCEPT !.pc = pc]]

\* The executor returns its outcome to the worker.
Outcome(w, result) ==
    exec' = [exec EXCEPT ![w] = [@ EXCEPT !.pc = "finalize", !.result = result]]

\* The executor reads the next line its subprocess reported.
NextEvent(w) ==
    /\ exec[w].pc = "stream"
    /\ ~exec[w].abandoned
    /\ exec[w].at < Last
    /\ exec' = [exec EXCEPT ![w] = [@ EXCEPT !.at = exec[w].at + 1]]

\* The subprocess ends: complete, killed (no error), or after reporting an error.
StreamEnds(w) ==
    /\ exec[w].pc = "stream"
    /\ ~exec[w].abandoned
    /\ \E r \in {"transient", "permanent", None} :
          /\ exec[w].at = Last => r = None
          /\ exec' = [exec EXCEPT ![w] = [@ EXCEPT !.pc = "close", !.result = r]]

\* The executor finds the heartbeat thread rejected; the worker returns "fenced_out".
FencedOut(w) ==
    /\ exec[w].pc \in {"stream", "close"}
    /\ exec[w].abandoned
    /\ exec' = [exec EXCEPT ![w] = ExecIdle]

StreamStep(w) == (StreamEnds(w) \/ FencedOut(w)) /\ UNCHANGED <<status, attempt, owner>>

\* The UPDATE of claim matched.
StartAttempt(w, j) ==
    /\ exec[w].pc = "idle"
    /\ Start(j)
    /\ owner' = [owner EXCEPT ![j] = w]
    /\ exec' = [exec EXCEPT ![w] = [ExecIdle EXCEPT !.pc = "claimed", !.job = j]]

\* claim's trailing get(): the attempt number is read in a transaction of its own,
\* perhaps after the job was reclaimed and started again by another worker.
ReadBack(w) ==
    /\ exec[w].pc = "claimed"
    /\ exec' = [exec EXCEPT ![w] = [@ EXCEPT !.pc = "lookup", !.attempt = attempt[exec[w].job]]]
    /\ UNCHANGED <<status, attempt, owner>>

\* A heartbeat that matched no row; the thread lives as long as the executor.
HeartbeatRejected(w) ==
    /\ exec[w].pc \in {"lookup", "prepare", "stream", "close"}
    /\ ~exec[w].abandoned
    /\ ~Holds(w)
    /\ exec' = [exec EXCEPT ![w] = [@ EXCEPT !.abandoned = TRUE]]
    /\ UNCHANGED <<status, attempt, owner>>

\* finalize_attempt: the client may have asked for cancellation meanwhile.
FinalizeAttempt(w) ==
    LET j == exec[w].job IN
    /\ exec[w].pc = "finalize"
    /\ ~exec[w].abandoned
    /\ Holds(w)
    /\ \/ Become(j, "CANCELLED") /\ UNCHANGED attempt
       \/ exec[w].result = "SUCCEEDED" /\ Become(j, "SUCCEEDED") /\ UNCHANGED attempt
       \/ exec[w].result \in {"transient", "unknown"} /\ Retry(j)
       \/ /\ exec[w].result = "permanent" \/ attempt[j] = MaxAttempts
          /\ exec[w].result # "SUCCEEDED"
          /\ Become(j, "FAILED")
          /\ UNCHANGED attempt
    /\ owner' = [owner EXCEPT ![j] = None]
    /\ exec' = [exec EXCEPT ![w] = ExecIdle]

\* "fenced_out": the result is dropped.
DropResult(w) ==
    /\ exec[w].pc = "finalize"
    /\ exec[w].abandoned \/ ~Holds(w)
    /\ exec' = [exec EXCEPT ![w] = ExecIdle]
    /\ UNCHANGED <<status, attempt, owner>>

\* The worker dies, or the executor raises: nothing is finalized.
WorkerGone(w) ==
    /\ exec[w].pc # "idle"
    /\ exec' = [exec EXCEPT ![w] = ExecIdle]
    /\ UNCHANGED <<status, attempt, owner>>

\* reclaim_stale of a held job: CANCELLED if a client asked for it, else requeued, or
\* FAILED after the last attempt.
Reclaim(j) ==
    /\ owner[j] # None
    /\ status[j] = "RUNNING"
    /\ \/ Become(j, "CANCELLED") /\ UNCHANGED attempt
       \/ Retry(j)
       \/ attempt[j] = MaxAttempts /\ Become(j, "FAILED") /\ UNCHANGED attempt
    /\ owner' = [owner EXCEPT ![j] = None]
    /\ UNCHANGED exec

\* A client cancels or PATCHes the job; nothing clears the lease.
ClientEnds(j) ==
    /\ \E to \in {"CANCELLED"} \cup (PatchTargets \cap Terminal) :
          status[j] \in sources_for(to) /\ Become(j, to)
    /\ UNCHANGED <<attempt, owner, exec>>

HostStep ==
    \/ \E j \in Jobs : \/ (Submit(j) \/ PatchRunning(j)) /\ UNCHANGED <<owner, exec>>
                       \/ Reclaim(j) \/ ClientEnds(j)
    \/ \E w \in Workers : \/ \E j \in Jobs : StartAttempt(w, j)
                          \/ ReadBack(w) \/ HeartbeatRejected(w) \/ FinalizeAttempt(w)
                          \/ DropResult(w) \/ WorkerGone(w)

\* A job without a training or evaluation run: the execution is simulated.
Simulate(w) ==
    /\ exec[w].pc = "lookup"
    /\ ~exec[w].abandoned
    /\ \E r \in Results : Outcome(w, r)
    /\ UNCHANGED <<status, attempt, owner>>

\* The host by itself, every job simulated: what Platform implements.
HostNext == HostStep \/ \E w \in Workers : Simulate(w)

HostSpec == HostInit /\ [][HostNext]_hostVars
=============================================================================
