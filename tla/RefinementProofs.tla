---------------------------- MODULE RefinementProofs ----------------------------
(***************************************************************************)
(* The platform implements its two abstract specifications.  JobLifecycle: *)
(* every step of every process is a step of one job's life cycle, or       *)
(* changes no job.  AttemptHost: it is a step of one worker's attempt or   *)
(* of one job, or changes nothing an executor can see.                     *)
(***************************************************************************)
EXTENDS ReservationProofs

-----------------------------------------------------------------------------
(* The life cycle. *)

LifeStep == Life!LifeNext \/ UNCHANGED Life!lifeVars

\* The transition table, as the abstract specification reads it.
LEMMA LifeSources ==
    /\ \A to \in {"SUCCEEDED", "FAILED"} : Life!sources_for(to) = {"RUNNING"}
    /\ Life!sources_for("CANCELLED") = {"QUEUED", "RUNNING"}
    /\ Life!Terminal = {"SUCCEEDED", "FAILED", "CANCELLED"}
BY DEF Life!sources_for, Life!VALID_TRANSITIONS, Life!Status, Life!Terminal

\* A step that moves one job is a step of the abstract variables.
LEMMA LifeMoves ==
    ASSUME TypeOK, NEW j \in Jobs, NEW to, NEW n, NEW owner, Moved(j, to, n, owner)
    PROVE  /\ Life!Become(j, to)
           /\ [i \in Jobs |-> jobs'[i].attempt_number] =
                 [[i \in Jobs |-> jobs[i].attempt_number] EXCEPT ![j] = n]
BY DEF Life!Become, Moved

\* A step that changes no status and no attempt number is a stutter.
LEMMA LifeFrame ==
    ASSUME \A j \in Jobs : /\ jobs'[j].status = jobs[j].status
                           /\ jobs'[j].attempt_number = jobs[j].attempt_number
    PROVE  LifeStep
BY DEF LifeStep, Life!lifeVars

\* A move that consumes no attempt: submission, retry, the end, or a client's PATCH.
LEMMA LifeMoveKeepsAttempt ==
    ASSUME TypeOK, NEW j \in Jobs, NEW to, NEW owner,
           Moved(j, to, jobs[j].attempt_number, owner),
           \/ jobs[j].status = Absent /\ to = "QUEUED"
           \/ jobs[j].status = "RUNNING" /\ to = "QUEUED" /\ jobs[j].attempt_number < MaxAttempts
           \/ to \in Terminal /\ jobs[j].status \in sources_for(to)
           \/ jobs[j].status = "QUEUED" /\ to = "RUNNING" /\ "RUNNING" \in PatchTargets
    PROVE  LifeStep
<1> DEFINE status == [i \in Jobs |-> jobs[i].status]
           attempt == [i \in Jobs |-> jobs[i].attempt_number]
<1>1. Life!Become(j, to)
  BY LifeMoves
<1>2. attempt' = attempt
  <2>1. attempt' = [attempt EXCEPT ![j] = jobs[j].attempt_number]
    BY LifeMoves
  <2> QED
    BY <2>1
<1>3. status[j] = jobs[j].status /\ attempt[j] = jobs[j].attempt_number
  OBVIOUS
<1>4. CASE jobs[j].status = Absent /\ to = "QUEUED"
  <2>1. Life!Submit(j)
    BY <1>1, <1>2, <1>3, <1>4 DEF Life!Submit, Life!Absent, Absent
  <2> QED
    BY <2>1 DEF LifeStep, Life!LifeNext
<1>5. CASE jobs[j].status = "RUNNING" /\ to = "QUEUED" /\ jobs[j].attempt_number < MaxAttempts
  <2>1. Life!Retry(j)
    BY <1>1, <1>2, <1>3, <1>5 DEF Life!Retry
  <2> QED
    BY <2>1 DEF LifeStep, Life!LifeNext
<1>6. CASE to \in Terminal /\ jobs[j].status \in sources_for(to)
  <2>1. to \in Life!Terminal /\ jobs[j].status \in Life!sources_for(to)
    BY <1>6, Sources, LifeSources
  <2>2. Life!Finish(j)
    BY <1>1, <1>2, <1>3, <2>1 DEF Life!Finish
  <2> QED
    BY <2>2 DEF LifeStep, Life!LifeNext
<1>7. CASE jobs[j].status = "QUEUED" /\ to = "RUNNING" /\ "RUNNING" \in PatchTargets
  <2>1. Life!PatchRunning(j)
    BY <1>1, <1>2, <1>3, <1>7 DEF Life!PatchRunning
  <2> QED
    BY <2>1 DEF LifeStep, Life!LifeNext
<1> QED
  BY <1>4, <1>5, <1>6, <1>7

\* claim is a Start of the life cycle.
LEMMA LifeClaim ==
    ASSUME ReservationInv, NEW w \in Workers, NEW j \in Jobs, Claim(w, j)
    PROVE  LifeStep
<1> DEFINE status == [i \in Jobs |-> jobs[i].status]
           attempt == [i \in Jobs |-> jobs[i].attempt_number]
<1>1. /\ Moved(j, "RUNNING", jobs[j].attempt_number + 1, w)
      /\ jobs[j].attempt_number \in Nat /\ jobs[j].attempt_number + 1 \in Attempts
      /\ jobs[j].status = "QUEUED" /\ TypeOK
  BY ClaimMoves DEF ReservationInv
<1>2. /\ Life!Become(j, "RUNNING")
      /\ attempt' = [attempt EXCEPT ![j] = jobs[j].attempt_number + 1]
  BY <1>1, LifeMoves
<1>3. jobs[j].attempt_number < MaxAttempts
  BY <1>1, MaxAttemptsPositive DEF Attempts
<1>4. status[j] = jobs[j].status /\ attempt[j] = jobs[j].attempt_number
  OBVIOUS
<1>5. Life!Start(j)
  BY <1>1, <1>2, <1>3, <1>4 DEF Life!Start
<1> QED
  BY <1>5 DEF LifeStep, Life!LifeNext

\* finalize_attempt and reclaim_stale: a retry or an end.
LEMMA LifeLeaves ==
    ASSUME ReservationInv, NEW j \in Jobs, NEW to \in Status, jobs[j].status = "RUNNING",
           to \notin {"PENDING", "RUNNING"},
           to = "QUEUED" => jobs[j].attempt_number < MaxAttempts,
           Moved(j, to, jobs[j].attempt_number, None)
    PROVE  LifeStep
<1>1. to # "QUEUED" => to \in Terminal /\ jobs[j].status \in sources_for(to)
  BY Sources DEF Status
<1> QED
  BY <1>1, LifeMoveKeepsAttempt DEF ReservationInv

\* Every request step is a life-cycle step or a stutter.
LEMMA LifeApi == ReservationInv /\ Api => LifeStep
<1> SUFFICES ASSUME ReservationInv, Api PROVE LifeStep
  OBVIOUS
<1>t. TypeOK /\ LocalsOK /\ jobs \in [Jobs -> JobRow]
  BY DEF ReservationInv, TypeOK
<1>1. ASSUME NEW j \in Jobs, CreateJob(j) PROVE LifeStep
  BY <1>t, <1>1, CreateMoves, LifeMoveKeepsAttempt
<1>m. ASSUME NEW j \in Jobs, NEW to \in Status, conditional_transition(j, to),
             to = "RUNNING" => to \in PatchTargets
      PROVE  LifeStep
  <2>1. /\ Moved(j, to, jobs[j].attempt_number, jobs[j].lease_owner)
        /\ jobs[j].status \in sources_for(to)
        /\ to \notin {"PENDING", "QUEUED"}
        /\ to = "RUNNING" => jobs[j].status = "QUEUED"
    BY <1>m, TransitionMoves
  <2>2. to # "RUNNING" => to \in Terminal
    BY <2>1, Sources DEF Status
  <2> QED
    BY <1>m, <1>t, <2>1, <2>2, LifeMoveKeepsAttempt
<1>2. ASSUME NEW j \in Jobs, PatchStatus(j) PROVE LifeStep
  BY <1>2, <1>m, PatchTargetsAreStatuses DEF PatchStatus
<1>3. ASSUME NEW j \in Jobs, UpdateConfig(j) PROVE LifeStep
  BY <1>3, <1>t, LifeFrame DEF UpdateConfig, JobRow
<1>4. ASSUME NEW j \in Jobs, DeleteJob(j) PROVE LifeStep
  BY <1>4, <1>t, LifeFrame DEF DeleteJob, JobRow
<1>5. ASSUME NEW c \in Clients, NEW j \in Jobs, CancelRead(c, j) PROVE LifeStep
  BY <1>5, LifeFrame DEF CancelRead, storeVars
<1>6. ASSUME NEW c \in Clients, CancelFast(c) PROVE LifeStep
  BY <1>6, <1>m, <1>t DEF CancelFast, LocalsOK, Status
<1>7. ASSUME NEW c \in Clients, CancelRequest(c) PROVE LifeStep
  BY <1>7, <1>t, LifeFrame DEF CancelRequest, JobRow
<1>8. ASSUME NEW c \in Clients, CancelMisses(c) PROVE LifeStep
  BY <1>8, LifeFrame DEF CancelMisses, storeVars
<1> QED
  BY <1>1, <1>2, <1>3, <1>4, <1>5, <1>6, <1>7, <1>8 DEF Api

\* Every step of the platform is a life-cycle step or a stutter.
LEMMA LifeSimulation == ReservationInv /\ [Next]_vars => LifeStep
<1> SUFFICES ASSUME ReservationInv, [Next]_vars PROVE LifeStep
  OBVIOUS
<1>t. TypeOK /\ jobs \in [Jobs -> JobRow]
  BY DEF ReservationInv, TypeOK
<1>f. ASSUME UNCHANGED jobs PROVE LifeStep
  BY <1>f, LifeFrame
<1>1. CASE Api
  BY <1>1, LifeApi
<1>2. ASSUME NEW s \in Schedulers, Scheduler(s) PROVE LifeStep
  BY <1>2, <1>f DEF Scheduler, SchedulerStep, SchedulerCrash, StartPass, NextCandidate, Recheck,
     RecheckRejects, Reserve, ReserveConflicts, ReserveRejects, RecordAdmitted, storeVars
<1>3. CASE Relay
  BY <1>3, <1>f DEF Relay, RelayStep, Publish, MarkPublished, RelayCrash, storeVars
<1>4. ASSUME NEW w \in Workers, Worker(w) PROVE LifeStep
  <2>1. ASSUME NEW j \in Jobs, Claim(w, j) PROVE LifeStep
    BY <2>1, LifeClaim
  <2>2. CASE Finalize(w)
    BY <2>2, FinalizeMoves, LifeLeaves
  <2>3. CASE Heartbeat(w)
    BY <2>3, <1>t, LifeFrame DEF Heartbeat, JobRow
  <2>4. ASSUME NEW j \in Jobs, NotClaimed(w, j) \/ ClaimRaises(w, j) PROVE LifeStep
    BY <2>4, <1>f DEF NotClaimed, ClaimRaises, storeVars
  <2>5. CASE Reload(w) \/ InsertAttempt(w) \/ StartExecutor(w) \/ FinishExecutor(w) \/ Abandon(w)
    BY <2>5, <1>f DEF Reload, InsertAttempt, StartExecutor, FinishExecutor, Abandon, storeVars
  <2>6. CASE FinalizeRejected(w) \/ WorkerCrash(w) \/ WorkerRaises(w) \/ Redeliver(w)
    BY <2>6, <1>f DEF FinalizeRejected, WorkerCrash, WorkerRaises, Redeliver, storeVars
  <2> QED
    BY <1>4, <2>1, <2>2, <2>3, <2>4, <2>5, <2>6 DEF Worker, WorkerStep
<1>5. ASSUME NEW r \in Recoveries, Recovery(r) PROVE LifeStep
  <2>1. CASE Reclaim(r)
    BY <2>1, ReclaimMoves, LifeLeaves
  <2>2. CASE ClearRetry(r)
    BY <2>2, <1>t, LifeFrame DEF ClearRetry, JobRow
  <2>3. CASE ListStale(r) \/ ReclaimLoses(r) \/ ListDue(r) \/ Dispatch(r) \/ RecoveryCrash(r)
    BY <2>3, <1>f DEF ListStale, ReclaimLoses, ListDue, Dispatch, RecoveryCrash, storeVars
  <2> QED
    BY <1>5, <2>1, <2>2, <2>3 DEF Recovery, RecoveryStep
<1>6. CASE Clock
  BY <1>6, <1>t, LifeFrame DEF Clock, LeaseExpires, RetryDue, JobRow
<1>7. CASE UNCHANGED vars
  BY <1>7, <1>f DEF vars, storeVars
<1> QED
  BY <1>1, <1>2, <1>3, <1>4, <1>5, <1>6, <1>7 DEF Next

\* Whatever its processes do, the platform moves a job only along the life cycle of
\* app/statemachine.py and the retry rule, and a terminal status is for ever.
THEOREM PlatformImplementsLifecycle == Spec => ImplementsLifecycle
<1>1. Init => Life!LifeInit
  BY DEF Init, StoreInit, NoRow, Life!LifeInit, Life!Absent, Absent
<1>2. ReservationInv /\ [Next]_vars => [Life!LifeNext]_(Life!lifeVars)
  BY LifeSimulation DEF LifeStep
<1> QED
  BY <1>1, <1>2, ReservationInvariant, PTL DEF Spec, ImplementsLifecycle, Life!LifeSpec

-----------------------------------------------------------------------------
(* The host: what an executor sees of the platform. *)

\* A lease belongs to somebody: claim sets both columns, finalize_attempt and
\* reclaim_stale clear both, a heartbeat renews the owner's.
LeaseIsOwned == \A j \in Jobs : jobs[j].lease # "none" => jobs[j].lease_owner # None

\* A worker that reaches finalize_attempt has a result and was not fenced off before.
ReturnIsClean ==
    \A w \in Workers :
        work[w].pc = "finalize" => ~work[w].abandoned /\ work[w].result \in Results

HostInv == ReservationInv /\ LeaseIsOwned /\ ReturnIsClean

\* The host's view of the tables and of the workers.
Statuses == [j \in Jobs |-> jobs[j].status]
Numbers == [j \in Jobs |-> jobs[j].attempt_number]
Owners == [j \in Jobs |-> jobs[j].lease_owner]
Execs == [w \in Workers |-> AsExec(work[w])]

-----------------------------------------------------------------------------
(* How the view follows a step. *)

\* A step that leaves three columns of the jobs table alone.
LEMMA ViewFrame ==
    ASSUME \A j \in Jobs : /\ jobs'[j].status = jobs[j].status
                           /\ jobs'[j].attempt_number = jobs[j].attempt_number
                           /\ jobs'[j].lease_owner = jobs[j].lease_owner
    PROVE  Statuses' = Statuses /\ Numbers' = Numbers /\ Owners' = Owners
BY DEF Statuses, Numbers, Owners

\* A step that moves one job.
LEMMA ViewMoves ==
    ASSUME NEW j \in Jobs, NEW to, NEW n, NEW owner, Moved(j, to, n, owner)
    PROVE  /\ Statuses' = [Statuses EXCEPT ![j] = to]
           /\ Numbers' = [Numbers EXCEPT ![j] = n]
           /\ Owners' = [Owners EXCEPT ![j] = owner]
BY DEF Statuses, Numbers, Owners, Moved

\* A move that consumes no attempt, or leaves the lease alone.
LEMMA ViewKeeps ==
    ASSUME NEW j \in Jobs, NEW to, NEW n, NEW owner, Moved(j, to, n, owner)
    PROVE  /\ n = jobs[j].attempt_number => Numbers' = Numbers
           /\ owner = jobs[j].lease_owner => Owners' = Owners
<1>1. \A i \in Jobs : /\ n = jobs[j].attempt_number
                            => jobs'[i].attempt_number = jobs[i].attempt_number
                      /\ owner = jobs[j].lease_owner
                            => jobs'[i].lease_owner = jobs[i].lease_owner
  BY DEF Moved
<1> QED
  BY <1>1 DEF Numbers, Owners

\* A step of one worker.
LEMMA ViewWorks ==
    ASSUME work \in [Workers -> WorkerState], NEW w \in Workers, NEW row,
           work' = [work EXCEPT ![w] = row]
    PROVE  Execs' = [Execs EXCEPT ![w] = AsExec(row)]
BY DEF Execs

\* A worker that stops handling its job is idle in the view too.
LEMMA ViewIdle == AsExec(WorkerIdle) = Host!ExecIdle
BY DEF AsExec, WorkerIdle, Host!ExecIdle

\* A row of exec, field by field.
ExecKeys == {"pc", "job", "attempt", "at", "abandoned", "result"}
ExecRow(p, j, a, t, b, x) ==
    [pc |-> p, job |-> j, attempt |-> a, at |-> t, abandoned |-> b, result |-> x]

\* Two rows with the same fields are the same.
LEMMA SameExec ==
    ASSUME NEW l, NEW r,
           l = [k \in ExecKeys |-> l[k]], r = [k \in ExecKeys |-> r[k]],
           l.pc = r.pc, l.job = r.job, l.attempt = r.attempt, l.at = r.at,
           l.abandoned = r.abandoned, l.result = r.result
    PROVE  l = r
BY DEF ExecKeys

\* What the view shows of one job and of one worker.
LEMMA ViewReads ==
    /\ \A j \in Jobs : /\ Statuses[j] = jobs[j].status
                       /\ Numbers[j] = jobs[j].attempt_number
                       /\ Owners[j] = jobs[j].lease_owner
    /\ \A w \in Workers : /\ Execs[w] = AsExec(work[w])
                          /\ Execs[w].job = work[w].job
                          /\ Execs[w].attempt = work[w].attempt
                          /\ Execs[w].abandoned = work[w].abandoned
                          /\ Execs[w].result = work[w].result
                          /\ Execs[w].pc = IF work[w].pc \in {"loaded", "inserted", "executing"}
                                           THEN "lookup" ELSE work[w].pc
BY DEF Statuses, Numbers, Owners, Execs, AsExec

\* The executors' fence is the worker's.
LEMMA HoldsIsOwns ==
    ASSUME NEW w \in Workers, work[w].job \in Jobs
    PROVE  Host!Holds(w) <=> Owns(w, work[w].job, work[w].attempt)
BY ViewReads DEF Host!Holds, Owns, Statuses, Numbers, Owners, Execs

-----------------------------------------------------------------------------
(* The steps of the host, as steps of the view. *)

HostStepped == Host!HostNext \/ UNCHANGED Host!hostVars

\* The view's variables are the ones the host's actions are about.
LEMMA ViewStutters ==
    ASSUME Statuses' = Statuses, Numbers' = Numbers, Owners' = Owners, Execs' = Execs
    PROVE  HostStepped
BY DEF HostStepped, Host!hostVars, Statuses, Numbers, Owners, Execs

\* The worker dies, raises or drops its result.
LEMMA ViewWorkerGone ==
    ASSUME NEW w \in Workers, work \in [Workers -> WorkerState],
           work[w].pc # "idle", work' = [work EXCEPT ![w] = WorkerIdle], UNCHANGED jobs
    PROVE  HostStepped
<1>1. Execs' = [Execs EXCEPT ![w] = Host!ExecIdle]
  <2>1. Execs' = [Execs EXCEPT ![w] = AsExec(WorkerIdle)]
    BY ViewWorks
  <2> QED
    BY <2>1, ViewIdle
<1>2. Statuses' = Statuses /\ Numbers' = Numbers /\ Owners' = Owners
  BY ViewFrame
<1>3. Execs[w].pc # "idle"
  BY ViewReads
<1>4. Host!WorkerGone(w)
  BY <1>1, <1>2, <1>3 DEF Host!WorkerGone, Execs, Statuses, Numbers, Owners
<1> QED
  BY <1>4 DEF HostStepped, Host!HostNext, Host!HostStep

\* A worker goes on, unnoticed by its executor.
LEMMA ViewGoesOn ==
    ASSUME NEW w \in Workers, work \in [Workers -> WorkerState], NEW row,
           work' = [work EXCEPT ![w] = row], AsExec(row) = AsExec(work[w]), UNCHANGED jobs
    PROVE  HostStepped
<1>1. Execs' = Execs
  BY DEF Execs
<1> QED
  BY <1>1, ViewFrame, ViewStutters

\* claim is a StartAttempt.
LEMMA HostClaim ==
    ASSUME HostInv, NEW w \in Workers, NEW j \in Jobs, Claim(w, j)
    PROVE  HostStepped
<1> DEFINE row == [WorkerIdle EXCEPT !.pc = "claimed", !.job = j]
<1>t. TypeOK /\ work \in [Workers -> WorkerState]
  BY DEF HostInv, ReservationInv, TypeOK
<1>1. /\ Moved(j, "RUNNING", jobs[j].attempt_number + 1, w)
      /\ jobs[j].attempt_number \in Nat /\ jobs[j].attempt_number + 1 \in Attempts
      /\ jobs[j].status = "QUEUED"
  BY ClaimMoves DEF HostInv
<1>2. /\ Statuses' = [Statuses EXCEPT ![j] = "RUNNING"]
      /\ Numbers' = [Numbers EXCEPT ![j] = jobs[j].attempt_number + 1]
      /\ Owners' = [Owners EXCEPT ![j] = w]
  BY <1>1, ViewMoves
<1>3. Execs' = [Execs EXCEPT ![w] = AsExec(row)]
  BY <1>t, ViewWorks DEF Claim
<1>4. AsExec(row) = [Host!ExecIdle EXCEPT !.pc = "claimed", !.job = j]
  <2>1. /\ row.pc = "claimed" /\ row.job = j /\ row.attempt = 0
        /\ row.abandoned = FALSE /\ row.result = None
    BY DEF WorkerIdle
  <2> HIDE DEF row
  <2>2. AsExec(row) = ExecRow("claimed", j, 0, 0, FALSE, None)
    BY <2>1 DEF AsExec, ExecRow
  <2>3. Host!ExecIdle = ExecRow("idle", None, 0, 0, FALSE, None)
    BY DEF Host!ExecIdle, ExecRow
  <2> DEFINE l == AsExec(row)
             r == [Host!ExecIdle EXCEPT !.pc = "claimed", !.job = j]
  <2>4. l = [k \in ExecKeys |-> l[k]] /\ r = [k \in ExecKeys |-> r[k]]
    BY <2>2, <2>3 DEF ExecRow, ExecKeys
  <2>5. /\ l.pc = r.pc /\ l.job = r.job /\ l.attempt = r.attempt /\ l.at = r.at
        /\ l.abandoned = r.abandoned /\ l.result = r.result
    BY <2>2, <2>3 DEF ExecRow
  <2> HIDE DEF l, r
  <2>6. l = r
    BY <2>4, <2>5, SameExec
  <2> QED
    BY <2>6 DEF l, r, row
<1>5. Execs[w].pc = "idle"
  BY ViewReads DEF Claim
<1>6. jobs[j].attempt_number < MaxAttempts
  BY <1>1, MaxAttemptsPositive DEF Attempts
<1> HIDE DEF row
<1>7. Host!Start(j)
  <2>1. Statuses[j] = "QUEUED" /\ Numbers[j] = jobs[j].attempt_number
    BY <1>1, ViewReads
  <2> QED
    BY <1>2, <1>6, <2>1 DEF Host!Start, Host!Become, Statuses, Numbers
<1>8. Host!StartAttempt(w, j)
  BY <1>2, <1>3, <1>4, <1>5, <1>7 DEF Host!StartAttempt, Owners, Execs
<1> QED
  BY <1>8 DEF HostStepped, Host!HostNext, Host!HostStep

\* claim's trailing get() is a ReadBack, or finds the job deleted.
LEMMA HostReload ==
    ASSUME HostInv, NEW w \in Workers, Reload(w)
    PROVE  HostStepped
<1> DEFINE j == work[w].job
           row == [work[w] EXCEPT !.pc = "loaded", !.attempt = jobs[j].attempt_number]
<1>t. /\ work \in [Workers -> WorkerState] /\ work[w].pc = "claimed" /\ j \in Jobs
      /\ UNCHANGED jobs
  BY DEF HostInv, ReservationInv, TypeOK, LocalsOK, Reload, storeVars
<1>1. CASE jobs[j].deleted
  <2>1. work' = [work EXCEPT ![w] = WorkerIdle]
    BY <1>1 DEF Reload
  <2> QED
    BY <1>t, <2>1, ViewWorkerGone
<1>2. CASE ~jobs[j].deleted
  <2>1. Execs' = [Execs EXCEPT ![w] = AsExec(row)]
    BY <1>t, <1>2, ViewWorks DEF Reload
  <2>2. AsExec(row) = [Execs[w] EXCEPT !.pc = "lookup", !.attempt = jobs[j].attempt_number]
    <3>1. work[w] \in WorkerState
      BY <1>t
    <3>2. /\ row.pc = "loaded" /\ row.attempt = jobs[j].attempt_number
          /\ row.job = work[w].job /\ row.abandoned = work[w].abandoned
          /\ row.result = work[w].result
      BY <3>1 DEF WorkerState
    <3> HIDE DEF row
    <3>3. AsExec(row) = ExecRow("lookup", j, jobs[j].attempt_number, 0,
                                work[w].abandoned, work[w].result)
      BY <3>2 DEF AsExec, ExecRow
    <3>4. Execs[w] = ExecRow("claimed", j, work[w].attempt, 0,
                             work[w].abandoned, work[w].result)
      BY <1>t DEF AsExec, Execs, ExecRow
    <3> DEFINE l == AsExec(row)
               r == [Execs[w] EXCEPT !.pc = "lookup", !.attempt = jobs[j].attempt_number]
    <3>5. l = [k \in ExecKeys |-> l[k]] /\ r = [k \in ExecKeys |-> r[k]]
      BY <3>3, <3>4 DEF ExecRow, ExecKeys
    <3>6. /\ l.pc = r.pc /\ l.job = r.job /\ l.attempt = r.attempt /\ l.at = r.at
          /\ l.abandoned = r.abandoned /\ l.result = r.result
      BY <3>3, <3>4 DEF ExecRow
    <3> HIDE DEF l, r
    <3>7. l = r
      BY <3>5, <3>6, SameExec
    <3> QED
      BY <3>7 DEF l, r, row
  <2>3. /\ Execs[w].pc = "claimed" /\ Execs[w].job = j
        /\ Numbers[Execs[w].job] = jobs[j].attempt_number
    BY <1>t, ViewReads
  <2>4. Statuses' = Statuses /\ Numbers' = Numbers /\ Owners' = Owners
    BY <1>t, ViewFrame
  <2> HIDE DEF row, j
  <2>5. Host!ReadBack(w)
    BY <2>1, <2>2, <2>3, <2>4 DEF Host!ReadBack, Execs, Statuses, Numbers, Owners
  <2> QED
    BY <2>5 DEF HostStepped, Host!HostNext, Host!HostStep
<1> QED
  BY <1>1, <1>2

\* attempts.insert, and the executor's first access to the job, are not seen by the
\* executor; a taken primary key ends the worker's work.
LEMMA HostInsert ==
    ASSUME HostInv, NEW w \in Workers, InsertAttempt(w) \/ StartExecutor(w)
    PROVE  HostStepped
<1> DEFINE started == [work[w] EXCEPT !.pc = "executing",
                                      !.saw = jobs[work[w].job].cancel_requested]
           inserted == [work[w] EXCEPT !.pc = "inserted"]
<1>t. /\ work \in [Workers -> WorkerState] /\ work[w] \in WorkerState
      /\ UNCHANGED jobs /\ work[w].pc \in {"loaded", "inserted"}
  BY DEF HostInv, ReservationInv, TypeOK, InsertAttempt, StartExecutor, storeVars
<1>1. AsExec(started) = AsExec(work[w]) /\ AsExec(inserted) = AsExec(work[w])
  BY <1>t DEF AsExec, WorkerState
<1>2. \/ work' = [work EXCEPT ![w] = started]
      \/ work' = [work EXCEPT ![w] = inserted]
      \/ work' = [work EXCEPT ![w] = WorkerIdle]
  BY DEF InsertAttempt, StartExecutor
<1> HIDE DEF started, inserted
<1>3. CASE work' = [work EXCEPT ![w] = WorkerIdle]
  BY <1>t, <1>3, ViewWorkerGone
<1> QED
  BY <1>t, <1>1, <1>2, <1>3, ViewGoesOn

\* A beat is a stutter, or a HeartbeatRejected.
LEMMA HostHeartbeat ==
    ASSUME HostInv, NEW w \in Workers, Heartbeat(w)
    PROVE  HostStepped
<1> DEFINE j == work[w].job
           row == [work[w] EXCEPT !.abandoned = TRUE]
<1>t. /\ work \in [Workers -> WorkerState] /\ jobs \in [Jobs -> JobRow] /\ j \in Jobs
      /\ work[w].pc \in {"inserted", "executing"} /\ ~work[w].abandoned
  BY DEF HostInv, ReservationInv, TypeOK, LocalsOK, Heartbeat
<1>1. CASE Owns(w, j, work[w].attempt)
  <2>1. Execs' = Execs
    BY <1>1 DEF Heartbeat, Execs
  <2>2. jobs' = [jobs EXCEPT ![j] = [@ EXCEPT !.lease = "live"]]
    BY <1>1 DEF Heartbeat
  <2>3. Statuses' = Statuses /\ Numbers' = Numbers /\ Owners' = Owners
    BY <1>t, <2>2, ViewFrame DEF JobRow
  <2> QED
    BY <2>1, <2>3, ViewStutters
<1>2. CASE ~Owns(w, j, work[w].attempt)
  <2>1. work' = [work EXCEPT ![w] = row] /\ UNCHANGED jobs
    BY <1>2 DEF Heartbeat
  <2>2. Execs' = [Execs EXCEPT ![w] = AsExec(row)]
    BY <1>t, <2>1, ViewWorks
  <2>3. AsExec(row) = [Execs[w] EXCEPT !.abandoned = TRUE]
    <3>1. /\ row.pc = work[w].pc /\ row.attempt = work[w].attempt /\ row.job = work[w].job
          /\ row.abandoned = TRUE /\ row.result = work[w].result
      BY <1>t DEF WorkerState
    <3> HIDE DEF row
    <3>2. AsExec(row) = ExecRow("lookup", work[w].job, work[w].attempt, 0, TRUE, work[w].result)
      BY <1>t, <3>1 DEF AsExec, ExecRow
    <3>3. Execs[w] = ExecRow("lookup", work[w].job, work[w].attempt, 0,
                             work[w].abandoned, work[w].result)
      BY <1>t DEF AsExec, Execs, ExecRow
    <3> DEFINE l == AsExec(row)
               r == [Execs[w] EXCEPT !.abandoned = TRUE]
    <3>4. l = [k \in ExecKeys |-> l[k]] /\ r = [k \in ExecKeys |-> r[k]]
      BY <3>2, <3>3 DEF ExecRow, ExecKeys
    <3>5. /\ l.pc = r.pc /\ l.job = r.job /\ l.attempt = r.attempt /\ l.at = r.at
          /\ l.abandoned = r.abandoned /\ l.result = r.result
      BY <3>2, <3>3 DEF ExecRow
    <3> HIDE DEF l, r
    <3>6. l = r
      BY <3>4, <3>5, SameExec
    <3> QED
      BY <3>6 DEF l, r, row
  <2>4. Statuses' = Statuses /\ Numbers' = Numbers /\ Owners' = Owners
    BY <2>1, ViewFrame
  <2>5. Execs[w].pc = "lookup" /\ ~Execs[w].abandoned
    BY <1>t, ViewReads
  <2>6. ~Host!Holds(w)
    BY <1>t, <1>2, HoldsIsOwns
  <2> HIDE DEF row, j
  <2>7. Host!HeartbeatRejected(w)
    BY <2>2, <2>3, <2>4, <2>5, <2>6 DEF Host!HeartbeatRejected, Execs, Statuses, Numbers, Owners
  <2> QED
    BY <2>7 DEF HostStepped, Host!HostNext, Host!HostStep
<1> QED
  BY <1>1, <1>2

\* The executor returns: a Simulate, whatever the executor did.
LEMMA HostFinish ==
    ASSUME HostInv, NEW w \in Workers, FinishExecutor(w)
    PROVE  HostStepped
<1>t. /\ work \in [Workers -> WorkerState] /\ UNCHANGED jobs
      /\ work[w].pc = "executing" /\ ~work[w].abandoned
  BY DEF HostInv, ReservationInv, TypeOK, FinishExecutor, storeVars
<1>1. PICK x \in Results, c \in CheckpointSees(w) :
         work' = [work EXCEPT ![w] = [@ EXCEPT !.pc = "finalize", !.saw = c, !.result = x]]
  BY DEF FinishExecutor
<1> DEFINE row == [work[w] EXCEPT !.pc = "finalize", !.saw = c, !.result = x]
<1>2. Execs' = [Execs EXCEPT ![w] = AsExec(row)]
  BY <1>t, <1>1, ViewWorks
<1>3. AsExec(row) = [Execs[w] EXCEPT !.pc = "finalize", !.result = x]
  <2>1. /\ row.pc = "finalize" /\ row.attempt = work[w].attempt /\ row.job = work[w].job
        /\ row.abandoned = work[w].abandoned /\ row.result = x
    BY <1>t DEF WorkerState
  <2> HIDE DEF row
  <2>2. AsExec(row) = ExecRow("finalize", work[w].job, work[w].attempt, 0, work[w].abandoned, x)
    BY <2>1 DEF AsExec, ExecRow
  <2>3. Execs[w] = ExecRow("lookup", work[w].job, work[w].attempt, 0,
                           work[w].abandoned, work[w].result)
    BY <1>t DEF AsExec, Execs, ExecRow
  <2> DEFINE l == AsExec(row)
             r == [Execs[w] EXCEPT !.pc = "finalize", !.result = x]
  <2>4. l = [k \in ExecKeys |-> l[k]] /\ r = [k \in ExecKeys |-> r[k]]
    BY <2>2, <2>3 DEF ExecRow, ExecKeys
  <2>5. /\ l.pc = r.pc /\ l.job = r.job /\ l.attempt = r.attempt /\ l.at = r.at
        /\ l.abandoned = r.abandoned /\ l.result = r.result
    BY <2>2, <2>3 DEF ExecRow
  <2> HIDE DEF l, r
  <2>6. l = r
    BY <2>4, <2>5, SameExec
  <2> QED
    BY <2>6 DEF l, r, row
<1> HIDE DEF row
<1>4. x \in Host!Results
  BY ClassesAreKnown DEF Results, Host!Results, TRANSIENT, PERMANENT, UNKNOWN
<1>5. Statuses' = Statuses /\ Numbers' = Numbers /\ Owners' = Owners
  BY <1>t, ViewFrame
<1>6. Execs[w].pc = "lookup" /\ ~Execs[w].abandoned
  BY <1>t, ViewReads
<1>7. Host!Outcome(w, x)
  BY <1>2, <1>3 DEF Host!Outcome, Execs
<1>8. Host!Simulate(w)
  BY <1>4, <1>5, <1>6, <1>7 DEF Host!Simulate, Execs, Statuses, Numbers, Owners
<1> QED
  BY <1>8 DEF HostStepped, Host!HostNext

\* What finalize_attempt asks for, at the retry bound of app/retry_policy.py.
LEMMA OutcomeCases ==
    ASSUME HostInv, NEW w \in Workers, work[w].pc = "finalize", work[w].job \in Jobs,
           work[w].attempt = jobs[work[w].job].attempt_number
    PROVE  \/ JobOutcome(w) = "CANCELLED"
           \/ JobOutcome(w) = "SUCCEEDED" /\ work[w].result = "SUCCEEDED"
           \/ /\ JobOutcome(w) = "QUEUED" /\ work[w].result \in {"transient", "unknown"}
              /\ work[w].attempt < MaxAttempts
           \/ /\ JobOutcome(w) = "FAILED" /\ work[w].result # "SUCCEEDED"
              /\ work[w].result = "permanent" \/ work[w].attempt = MaxAttempts
<1>1. work[w].result \in {"SUCCEEDED", "transient", "permanent", "unknown"}
  BY ClassesAreKnown DEF HostInv, ReturnIsClean, Results, TRANSIENT, PERMANENT, UNKNOWN
<1>2. work[w].attempt \in 0..MaxAttempts
  BY DEF HostInv, ReservationInv, TypeOK, WorkerState
<1> QED
  BY <1>1, <1>2, MaxAttemptsPositive
  DEF JobOutcome, is_retryable, RETRYABLE_CLASSIFICATIONS, TRANSIENT, UNKNOWN

\* finalize_attempt is a FinalizeAttempt.
LEMMA HostFinalize ==
    ASSUME HostInv, NEW w \in Workers, Finalize(w)
    PROVE  HostStepped
<1>1. PICK j \in Jobs, to \in Status :
         /\ j = work[w].job /\ to = JobOutcome(w)
         /\ jobs[j].status = "RUNNING"
         /\ Moved(j, to, jobs[j].attempt_number, None)
  BY FinalizeMoves DEF HostInv
<1>t. /\ work \in [Workers -> WorkerState] /\ work[w].pc = "finalize" /\ ~work[w].abandoned
      /\ work[w].attempt = jobs[j].attempt_number
      /\ Owns(w, work[w].job, work[w].attempt)
      /\ work' = [work EXCEPT ![w] = WorkerIdle]
  BY <1>1 DEF HostInv, ReservationInv, TypeOK, ReturnIsClean, Finalize, Owns
<1>2. /\ Statuses' = [Statuses EXCEPT ![j] = to]
      /\ Numbers' = [Numbers EXCEPT ![j] = jobs[j].attempt_number]
      /\ Owners' = [Owners EXCEPT ![j] = None]
  BY <1>1, ViewMoves
<1>3. Numbers' = Numbers
  BY <1>1, ViewKeeps
<1>4. Execs' = [Execs EXCEPT ![w] = Host!ExecIdle]
  <2>1. Execs' = [Execs EXCEPT ![w] = AsExec(WorkerIdle)]
    BY <1>t, ViewWorks
  <2> QED
    BY <2>1, ViewIdle
<1>5. /\ Execs[w].pc = "finalize" /\ ~Execs[w].abandoned /\ Execs[w].job = j
      /\ Execs[w].result = work[w].result
      /\ Statuses[j] = "RUNNING" /\ Numbers[j] = work[w].attempt
  BY <1>1, <1>t, ViewReads
<1>6. Host!Holds(w)
  BY <1>1, <1>t, HoldsIsOwns
<1>7. \/ to = "CANCELLED"
      \/ to = "SUCCEEDED" /\ Execs[w].result = "SUCCEEDED"
      \/ to = "QUEUED" /\ Execs[w].result \in {"transient", "unknown"} /\ Numbers[j] < MaxAttempts
      \/ /\ to = "FAILED" /\ Execs[w].result # "SUCCEEDED"
         /\ Execs[w].result = "permanent" \/ Numbers[j] = MaxAttempts
  BY <1>1, <1>t, <1>5, OutcomeCases
<1>8. Host!Become(j, to)
  BY <1>2 DEF Host!Become, Statuses
<1>9. LET i == Execs[w].job IN
      \/ Host!Become(i, "CANCELLED") /\ Numbers' = Numbers
      \/ Execs[w].result = "SUCCEEDED" /\ Host!Become(i, "SUCCEEDED") /\ Numbers' = Numbers
      \/ Execs[w].result \in {"transient", "unknown"} /\ Host!Retry(i)
      \/ /\ Execs[w].result = "permanent" \/ Numbers[i] = MaxAttempts
         /\ Execs[w].result # "SUCCEEDED"
         /\ Host!Become(i, "FAILED")
         /\ Numbers' = Numbers
  <2>1. CASE to = "CANCELLED"
    <3>1. Host!Become(Execs[w].job, "CANCELLED")
      BY <1>5, <1>8, <2>1
    <3> QED
      BY <1>3, <3>1
  <2>2. CASE to = "SUCCEEDED" /\ Execs[w].result = "SUCCEEDED"
    <3>1. Host!Become(Execs[w].job, "SUCCEEDED")
      BY <1>5, <1>8, <2>2
    <3>2. /\ Execs[w].result = "SUCCEEDED"
          /\ Host!Become(Execs[w].job, "SUCCEEDED")
          /\ Numbers' = Numbers
      BY <1>3, <2>2, <3>1
    <3> QED
      BY ONLY <3>2
  <2>3. CASE to = "QUEUED" /\ Execs[w].result \in {"transient", "unknown"}
    <3>1. Host!Retry(Execs[w].job)
      <4>1. /\ Statuses[Execs[w].job] = "RUNNING" /\ Numbers[Execs[w].job] < MaxAttempts
            /\ Numbers' = Numbers
        BY <1>3, <1>5, <1>7, <2>3
      <4>2. Host!Become(Execs[w].job, "QUEUED")
        BY <1>5, <1>8, <2>3
      <4> QED
        BY <4>1, <4>2 DEF Host!Retry, Statuses, Numbers
    <3> QED
      BY <2>3, <3>1
  <2>4. CASE /\ to = "FAILED" /\ Execs[w].result # "SUCCEEDED"
             /\ Execs[w].result = "permanent" \/ Numbers[j] = MaxAttempts
    <3>1. Host!Become(Execs[w].job, "FAILED")
      BY <1>5, <1>8, <2>4
    <3> QED
      BY <1>3, <1>5, <2>4, <3>1
  <2> QED
    BY <1>7, <2>1, <2>2, <2>3, <2>4
<1>10. Owners' = [Owners EXCEPT ![Execs[w].job] = None]
  BY <1>2, <1>5
<1>11. Host!FinalizeAttempt(w)
  BY <1>10, <1>4, <1>5, <1>6, <1>9 DEF Host!FinalizeAttempt, Execs, Statuses, Numbers, Owners
<1> QED
  BY <1>11 DEF HostStepped, Host!HostNext, Host!HostStep

\* reclaim_stale is a Reclaim: a lease that expired was somebody's.
LEMMA HostReclaims ==
    ASSUME HostInv, UNCHANGED work, NEW r \in Recoveries, Reclaim(r)
    PROVE  HostStepped
<1>1. PICK j \in Jobs, to \in Status :
         /\ jobs[j].status = "RUNNING" /\ jobs[j].lease = "expired"
         /\ to \notin {"PENDING", "RUNNING"}
         /\ to = "QUEUED" => jobs[j].attempt_number < MaxAttempts
         /\ to = "FAILED" => jobs[j].attempt_number = MaxAttempts
         /\ to # "SUCCEEDED"
         /\ Moved(j, to, jobs[j].attempt_number, None)
  BY ReclaimMoves DEF HostInv
<1>2. /\ Statuses' = [Statuses EXCEPT ![j] = to]
      /\ Numbers' = [Numbers EXCEPT ![j] = jobs[j].attempt_number]
      /\ Owners' = [Owners EXCEPT ![j] = None]
  BY <1>1, ViewMoves
<1>3. Numbers' = Numbers
  BY <1>1, ViewKeeps
<1>4. /\ Owners[j] # None /\ Statuses[j] = "RUNNING" /\ Numbers[j] = jobs[j].attempt_number
  BY <1>1, ViewReads DEF HostInv, LeaseIsOwned
<1>5. Execs' = Execs
  BY DEF Execs
<1>6. Host!Become(j, to)
  BY <1>2 DEF Host!Become, Statuses
<1>7. to \in {"QUEUED", "FAILED", "CANCELLED"}
  BY <1>1 DEF Status
<1>8. to = "QUEUED" => Host!Retry(j)
  BY <1>1, <1>3, <1>4, <1>6 DEF Host!Retry, Statuses, Numbers
<1>9. \/ Host!Become(j, "CANCELLED") /\ Numbers' = Numbers
      \/ Host!Retry(j)
      \/ Numbers[j] = MaxAttempts /\ Host!Become(j, "FAILED") /\ Numbers' = Numbers
  BY <1>1, <1>3, <1>4, <1>6, <1>7, <1>8
<1>10. Host!Reclaim(j)
  BY <1>2, <1>4, <1>5, <1>9 DEF Host!Reclaim, Execs, Statuses, Numbers, Owners
<1> QED
  BY <1>10 DEF HostStepped, Host!HostNext, Host!HostStep

\* A request is a submission, the end of a job, a PATCH to RUNNING, or not seen.
LEMMA HostApi == HostInv /\ Api => HostStepped
<1> SUFFICES ASSUME HostInv, Api PROVE HostStepped
  OBVIOUS
<1>t. /\ TypeOK /\ LocalsOK /\ jobs \in [Jobs -> JobRow] /\ ReservationInv
      /\ Execs' = Execs
  BY DEF HostInv, ReservationInv, TypeOK, Api, Execs
<1>f. ASSUME \A j \in Jobs : /\ jobs'[j].status = jobs[j].status
                             /\ jobs'[j].attempt_number = jobs[j].attempt_number
                             /\ jobs'[j].lease_owner = jobs[j].lease_owner
      PROVE  HostStepped
  BY <1>t, <1>f, ViewFrame, ViewStutters
<1>1. ASSUME NEW j \in Jobs, CreateJob(j) PROVE HostStepped
  <2>1. /\ Moved(j, "QUEUED", jobs[j].attempt_number, jobs[j].lease_owner)
        /\ jobs[j].status = Absent
    BY <1>t, <1>1, CreateMoves
  <2>2. Statuses' = [Statuses EXCEPT ![j] = "QUEUED"] /\ Numbers' = Numbers /\ Owners' = Owners
    BY <2>1, ViewMoves, ViewKeeps
  <2>3. Host!Submit(j)
    BY <2>1, <2>2 DEF Host!Submit, Host!Become, Host!Absent, Absent, Statuses, Numbers
  <2> QED
    BY <1>t, <2>2, <2>3 DEF HostStepped, Host!HostNext, Host!HostStep, Execs, Owners
<1>m. ASSUME NEW j \in Jobs, NEW to \in Status, conditional_transition(j, to),
             to \in PatchTargets \cup {"CANCELLED"}
      PROVE  HostStepped
  <2>1. /\ Moved(j, to, jobs[j].attempt_number, jobs[j].lease_owner)
        /\ jobs[j].status \in sources_for(to)
        /\ to \notin {"PENDING", "QUEUED"}
        /\ to = "RUNNING" => jobs[j].status = "QUEUED"
    BY <1>m, <1>t, TransitionMoves
  <2>2. Statuses' = [Statuses EXCEPT ![j] = to] /\ Numbers' = Numbers /\ Owners' = Owners
    BY <2>1, ViewMoves, ViewKeeps
  <2>3. Host!Become(j, to) /\ Statuses[j] = jobs[j].status
    BY <2>2, ViewReads DEF Host!Become, Statuses
  <2>4. CASE to = "RUNNING"
    <3>1. Host!PatchRunning(j)
      BY <1>m, <2>1, <2>2, <2>3, <2>4 DEF Host!PatchRunning, Statuses, Numbers
    <3> QED
      BY <1>t, <2>2, <3>1 DEF HostStepped, Host!HostNext, Host!HostStep, Execs, Owners
  <2>5. CASE to # "RUNNING"
    <3>1. to \in Host!Terminal /\ Statuses[j] \in Host!sources_for(to)
      BY <2>1, <2>3, <2>5
      DEF Status, Host!Terminal, Host!sources_for, Host!VALID_TRANSITIONS, Host!Status,
          sources_for, VALID_TRANSITIONS
    <3>2. to \in {"CANCELLED"} \cup (PatchTargets \cap Host!Terminal)
      BY <1>m, <3>1
    <3>3. Host!ClientEnds(j)
      BY <1>t, <2>2, <2>3, <3>1, <3>2 DEF Host!ClientEnds, Execs, Statuses, Numbers, Owners
    <3> QED
      BY <3>3 DEF HostStepped, Host!HostNext, Host!HostStep
  <2> QED
    BY <2>4, <2>5
<1>2. ASSUME NEW j \in Jobs, PatchStatus(j) PROVE HostStepped
  BY <1>2, <1>m, PatchTargetsAreStatuses DEF PatchStatus
<1>3. ASSUME NEW j \in Jobs, UpdateConfig(j) PROVE HostStepped
  BY <1>3, <1>t, <1>f DEF UpdateConfig, JobRow
<1>4. ASSUME NEW j \in Jobs, DeleteJob(j) PROVE HostStepped
  BY <1>4, <1>t, <1>f DEF DeleteJob, JobRow
<1>5. ASSUME NEW c \in Clients, NEW j \in Jobs, CancelRead(c, j) PROVE HostStepped
  BY <1>5, <1>f DEF CancelRead, storeVars
<1>6. ASSUME NEW c \in Clients, CancelFast(c) PROVE HostStepped
  BY <1>6, <1>m, <1>t DEF CancelFast, LocalsOK, Status
<1>7. ASSUME NEW c \in Clients, CancelRequest(c) PROVE HostStepped
  BY <1>7, <1>t, <1>f DEF CancelRequest, JobRow
<1>8. ASSUME NEW c \in Clients, CancelMisses(c) PROVE HostStepped
  BY <1>8, <1>f DEF CancelMisses, storeVars
<1> QED
  BY <1>1, <1>2, <1>3, <1>4, <1>5, <1>6, <1>7, <1>8 DEF Api

-----------------------------------------------------------------------------
(* The invariant the mapping needs. *)

\* Nobody holds a lease at first, and no worker is at its job.
LEMMA HostInvInit == Init => HostInv
BY ReservationInit
DEF HostInv, LeaseIsOwned, ReturnIsClean, Init, StoreInit, NoRow, WorkerInit, WorkerIdle

\* A step that leaves the workers, every lease and every owner alone.
LEMMA HostInvFrame ==
    ASSUME HostInv, UNCHANGED work,
           \A j \in Jobs : /\ jobs'[j].lease # "none" => jobs[j].lease # "none"
                           /\ jobs'[j].lease_owner = jobs[j].lease_owner
    PROVE  LeaseIsOwned' /\ ReturnIsClean'
BY DEF HostInv, LeaseIsOwned, ReturnIsClean

\* A request neither takes nor gives up a lease.
LEMMA HostInvApi == HostInv /\ Api => LeaseIsOwned' /\ ReturnIsClean'
<1> SUFFICES ASSUME HostInv, Api PROVE LeaseIsOwned' /\ ReturnIsClean'
  OBVIOUS
<1>t. TypeOK /\ LocalsOK /\ jobs \in [Jobs -> JobRow] /\ ReservationInv /\ UNCHANGED work
  BY DEF HostInv, ReservationInv, TypeOK, Api
<1>f. ASSUME \A j \in Jobs : /\ jobs'[j].lease # "none" => jobs[j].lease # "none"
                             /\ jobs'[j].lease_owner = jobs[j].lease_owner
      PROVE  LeaseIsOwned' /\ ReturnIsClean'
  BY <1>t, <1>f, HostInvFrame
<1>m. ASSUME NEW j \in Jobs, NEW to, conditional_transition(j, to)
      PROVE  LeaseIsOwned' /\ ReturnIsClean'
  BY <1>t, <1>m, <1>f DEF conditional_transition, JobRow
<1>1. ASSUME NEW j \in Jobs, CreateJob(j) PROVE LeaseIsOwned' /\ ReturnIsClean'
  <2>1. PICK q \in Requests :
           jobs' = [jobs EXCEPT ![j] = [NoRow EXCEPT !.status = "QUEUED", !.request = q]]
    BY <1>1 DEF CreateJob
  <2>2. jobs[j].lease_owner = None
    BY <1>1, <1>t DEF CreateJob, ReservationInv, WaitingIsFree
  <2>3. jobs'[j].lease = "none" /\ jobs'[j].lease_owner = None
    BY <1>t, <2>1 DEF NoRow
  <2>4. \A i \in Jobs : i # j => jobs'[i] = jobs[i]
    BY <1>t, <2>1
  <2> QED
    BY <1>f, <2>2, <2>3, <2>4
<1>2. ASSUME NEW j \in Jobs, PatchStatus(j) PROVE LeaseIsOwned' /\ ReturnIsClean'
  BY <1>2, <1>m DEF PatchStatus
<1>3. ASSUME NEW j \in Jobs, UpdateConfig(j) PROVE LeaseIsOwned' /\ ReturnIsClean'
  BY <1>3, <1>t, <1>f DEF UpdateConfig, JobRow
<1>4. ASSUME NEW j \in Jobs, DeleteJob(j) PROVE LeaseIsOwned' /\ ReturnIsClean'
  BY <1>4, <1>t, <1>f DEF DeleteJob, JobRow
<1>5. ASSUME NEW c \in Clients, NEW j \in Jobs, CancelRead(c, j)
      PROVE  LeaseIsOwned' /\ ReturnIsClean'
  BY <1>5, <1>f DEF CancelRead, storeVars
<1>6. ASSUME NEW c \in Clients, CancelFast(c) PROVE LeaseIsOwned' /\ ReturnIsClean'
  BY <1>6, <1>m, <1>t DEF CancelFast, LocalsOK
<1>7. ASSUME NEW c \in Clients, CancelRequest(c) PROVE LeaseIsOwned' /\ ReturnIsClean'
  BY <1>7, <1>t, <1>f DEF CancelRequest, JobRow
<1>8. ASSUME NEW c \in Clients, CancelMisses(c) PROVE LeaseIsOwned' /\ ReturnIsClean'
  BY <1>8, <1>f DEF CancelMisses, storeVars
<1> QED
  BY <1>1, <1>2, <1>3, <1>4, <1>5, <1>6, <1>7, <1>8 DEF Api

\* A worker that goes idle, or stays short of finalize_attempt, has nothing to return.
LEMMA ReturnFrame ==
    ASSUME HostInv, NEW w \in Workers, NEW row,
           work' = [work EXCEPT ![w] = row],
           row.pc = "finalize" => ~row.abandoned /\ row.result \in Results
    PROVE  ReturnIsClean'
<1>1. work \in [Workers -> WorkerState]
  BY DEF HostInv, ReservationInv, TypeOK
<1> QED
  BY <1>1 DEF HostInv, ReturnIsClean

\* Leaving RUNNING drops the lease with its owner.
LEMMA LeaseDropped ==
    ASSUME HostInv, NEW j \in Jobs, NEW to, NEW retry, LeaveRunning(j, to, retry)
    PROVE  LeaseIsOwned'
<1>1. jobs \in [Jobs -> JobRow]
  BY DEF HostInv, ReservationInv, TypeOK
<1>2. jobs'[j].lease = "none" /\ \A i \in Jobs : i # j => jobs'[i] = jobs[i]
  BY <1>1 DEF LeaveRunning, JobRow
<1> QED
  BY <1>2 DEF HostInv, LeaseIsOwned

\* Message processing takes a lease only for its worker.
LEMMA HostInvWorker ==
    ASSUME HostInv, NEW w \in Workers, Worker(w)
    PROVE  LeaseIsOwned' /\ ReturnIsClean'
<1>t. /\ jobs \in [Jobs -> JobRow] /\ work \in [Workers -> WorkerState]
      /\ work[w].pc # "idle" => work[w].job \in Jobs
  BY DEF HostInv, ReservationInv, TypeOK, LocalsOK
<1>j. ASSUME UNCHANGED jobs PROVE LeaseIsOwned'
  BY <1>j DEF HostInv, LeaseIsOwned
<1>w. ASSUME UNCHANGED work PROVE ReturnIsClean'
  BY <1>w DEF HostInv, ReturnIsClean
<1>i. ASSUME work' = [work EXCEPT ![w] = WorkerIdle] PROVE ReturnIsClean'
  BY <1>i, ReturnFrame DEF WorkerIdle
<1>1. ASSUME NEW j \in Jobs, Claim(w, j) PROVE LeaseIsOwned' /\ ReturnIsClean'
  <2>1. LeaseIsOwned'
    <3>1. /\ Moved(j, "RUNNING", jobs[j].attempt_number + 1, w)
          /\ \A i \in Jobs : i # j => jobs'[i] = jobs[i]
      BY <1>1, ClaimMoves DEF HostInv, Moved
    <3> QED
      BY <3>1, WorkersAreNotNull DEF HostInv, LeaseIsOwned, Moved
  <2>2. ReturnIsClean'
    <3> DEFINE row == [WorkerIdle EXCEPT !.pc = "claimed", !.job = j]
    <3>1. row.pc = "claimed" /\ work' = [work EXCEPT ![w] = row]
      BY <1>1 DEF Claim, WorkerIdle
    <3> HIDE DEF row
    <3> QED
      BY <3>1, ReturnFrame
  <2> QED
    BY <2>1, <2>2
<1>2. ASSUME NEW j \in Jobs, NotClaimed(w, j) \/ ClaimRaises(w, j)
      PROVE  LeaseIsOwned' /\ ReturnIsClean'
  BY <1>2, <1>j, <1>w DEF NotClaimed, ClaimRaises, storeVars
<1>3. CASE Reload(w)
  <2> DEFINE row == [work[w] EXCEPT !.pc = "loaded",
                                    !.attempt = jobs[work[w].job].attempt_number]
  <2>1. row.pc = "loaded"
    BY <1>t DEF WorkerState
  <2>2. \/ work' = [work EXCEPT ![w] = WorkerIdle]
        \/ work' = [work EXCEPT ![w] = row]
    BY <1>3 DEF Reload
  <2> HIDE DEF row
  <2>3. ReturnIsClean'
    BY <1>i, <2>1, <2>2, ReturnFrame
  <2> QED
    BY <1>3, <1>j, <2>3 DEF Reload, storeVars
<1>4. CASE InsertAttempt(w) \/ StartExecutor(w)
  <2> DEFINE started == [work[w] EXCEPT !.pc = "executing",
                                        !.saw = jobs[work[w].job].cancel_requested]
             inserted == [work[w] EXCEPT !.pc = "inserted"]
  <2>1. started.pc = "executing" /\ inserted.pc = "inserted"
    BY <1>t DEF WorkerState
  <2>2. \/ work' = [work EXCEPT ![w] = started]
        \/ work' = [work EXCEPT ![w] = inserted]
        \/ work' = [work EXCEPT ![w] = WorkerIdle]
    BY <1>4 DEF InsertAttempt, StartExecutor
  <2> HIDE DEF started, inserted
  <2>3. ReturnIsClean'
    BY <1>i, <2>1, <2>2, ReturnFrame
  <2> QED
    BY <1>4, <1>j, <2>3 DEF InsertAttempt, StartExecutor, storeVars
<1>5. CASE Heartbeat(w)
  <2>1. LeaseIsOwned'
    <3>1. CASE UNCHANGED jobs
      BY <1>j, <3>1
    <3>2. CASE ~UNCHANGED jobs
      <4>1. /\ jobs' = [jobs EXCEPT ![work[w].job] = [@ EXCEPT !.lease = "live"]]
            /\ jobs[work[w].job].lease_owner = w
            /\ work[w].job \in Jobs
        BY <1>t, <1>5, <3>2 DEF Heartbeat, Owns
      <4> DEFINE j == work[w].job
      <4>2. jobs'[j].lease_owner = w /\ \A i \in Jobs : i # j => jobs'[i] = jobs[i]
        BY <1>t, <4>1 DEF JobRow
      <4> QED
        BY <4>2, WorkersAreNotNull DEF HostInv, LeaseIsOwned
    <3> QED
      BY <3>1, <3>2
  <2>2. ReturnIsClean'
    <3> DEFINE row == [work[w] EXCEPT !.abandoned = TRUE]
    <3>1. row.pc # "finalize" /\ (UNCHANGED work \/ work' = [work EXCEPT ![w] = row])
      BY <1>t, <1>5 DEF Heartbeat, WorkerState
    <3> HIDE DEF row
    <3> QED
      BY <1>w, <3>1, ReturnFrame
  <2> QED
    BY <2>1, <2>2
<1>6. CASE FinishExecutor(w)
  <2>1. PICK x \in Results, c \in CheckpointSees(w) :
           work' = [work EXCEPT ![w] = [@ EXCEPT !.pc = "finalize", !.saw = c, !.result = x]]
    BY <1>6 DEF FinishExecutor
  <2> DEFINE row == [work[w] EXCEPT !.pc = "finalize", !.saw = c, !.result = x]
  <2>2. ~row.abandoned /\ row.result = x
    BY <1>t, <1>6 DEF FinishExecutor, WorkerState
  <2>3. work' = [work EXCEPT ![w] = row]
    BY <2>1
  <2> HIDE DEF row
  <2>4. ReturnIsClean'
    BY <2>2, <2>3, ReturnFrame
  <2> QED
    BY <1>6, <1>j, <2>4 DEF FinishExecutor, storeVars
<1>7. CASE Finalize(w)
  <2>1. LeaseIsOwned'
    BY <1>7, LeaseDropped, <1>t DEF Finalize
  <2> QED
    BY <1>7, <1>i, <2>1 DEF Finalize
<1>8. CASE Abandon(w) \/ FinalizeRejected(w) \/ WorkerCrash(w) \/ WorkerRaises(w)
  BY <1>8, <1>i, <1>j DEF Abandon, FinalizeRejected, WorkerCrash, WorkerRaises, storeVars
<1>9. CASE Redeliver(w)
  BY <1>9, <1>j, <1>w DEF Redeliver, storeVars
<1> QED
  BY <1>1, <1>2, <1>3, <1>4, <1>5, <1>6, <1>7, <1>8, <1>9 DEF Worker, WorkerStep

\* The invariant is inductive.
LEMMA HostInvStep == HostInv /\ [Next]_vars => HostInv'
<1> SUFFICES ASSUME HostInv, [Next]_vars PROVE LeaseIsOwned' /\ ReturnIsClean'
  BY ReservationStep DEF HostInv
<1>t. jobs \in [Jobs -> JobRow] /\ recov \in [Recoveries -> RecoveryState]
  BY DEF HostInv, ReservationInv, TypeOK
<1>f. ASSUME UNCHANGED <<work, jobs>> PROVE LeaseIsOwned' /\ ReturnIsClean'
  BY <1>f, HostInvFrame
<1>1. ASSUME NEW s \in Schedulers, Scheduler(s) PROVE LeaseIsOwned' /\ ReturnIsClean'
  BY <1>1, <1>f DEF Scheduler, SchedulerStep, SchedulerCrash, StartPass, NextCandidate, Recheck,
     RecheckRejects, Reserve, ReserveConflicts, ReserveRejects, RecordAdmitted, storeVars
<1>2. CASE Relay
  BY <1>2, <1>f DEF Relay, RelayStep, Publish, MarkPublished, RelayCrash, storeVars
<1>3. ASSUME NEW r \in Recoveries, Recovery(r) PROVE LeaseIsOwned' /\ ReturnIsClean'
  <2>w. ReturnIsClean'
    BY <1>3 DEF Recovery, HostInv, ReturnIsClean
  <2>1. CASE Reclaim(r)
    <3>1. PICK j \in recov[r].todo :
             LeaveRunning(j, ReclaimTarget(j),
                          IF ReclaimTarget(j) = "QUEUED" THEN "waiting" ELSE "none")
      BY <2>1 DEF Reclaim
    <3>2. j \in Jobs
      BY <1>t DEF RecoveryState
    <3> QED
      BY <2>w, <3>1, <3>2, LeaseDropped
  <2>2. CASE ClearRetry(r)
    BY <1>3, <2>2, <1>t, HostInvFrame DEF Recovery, ClearRetry, JobRow
  <2>3. CASE ListStale(r) \/ ReclaimLoses(r) \/ ListDue(r) \/ Dispatch(r) \/ RecoveryCrash(r)
    BY <1>3, <2>3, <1>f
    DEF Recovery, ListStale, ReclaimLoses, ListDue, Dispatch, RecoveryCrash, storeVars
  <2> QED
    BY <1>3, <2>1, <2>2, <2>3 DEF Recovery, RecoveryStep
<1>4. CASE Clock
  BY <1>4, <1>t, HostInvFrame DEF Clock, LeaseExpires, RetryDue, JobRow
<1>5. CASE UNCHANGED vars
  BY <1>5, <1>f DEF vars, storeVars
<1> QED
  BY <1>1, <1>2, <1>3, <1>4, <1>5, HostInvApi, HostInvWorker DEF Next

-----------------------------------------------------------------------------
(* The refinement. *)

\* Nobody works at first.
LEMMA HostInitially == Init => Host!HostInit
<1> SUFFICES ASSUME Init PROVE Host!HostInit
  OBVIOUS
<1>1. Execs = [w \in Workers |-> Host!ExecIdle]
  BY ViewIdle DEF Execs, Init, WorkerInit
<1>2. Host!LifeInit
  BY DEF Init, StoreInit, NoRow, Host!LifeInit, Host!Absent, Absent
<1> QED
  BY <1>1, <1>2 DEF Host!HostInit, Execs, Init, StoreInit, NoRow

\* Every step of the platform is a step of the host or a stutter.
LEMMA HostSimulation == HostInv /\ [Next]_vars => HostStepped
<1> SUFFICES ASSUME HostInv, [Next]_vars PROVE HostStepped
  OBVIOUS
<1>t. /\ jobs \in [Jobs -> JobRow] /\ work \in [Workers -> WorkerState]
  BY DEF HostInv, ReservationInv, TypeOK
<1>f. ASSUME UNCHANGED work,
             \A j \in Jobs : /\ jobs'[j].status = jobs[j].status
                             /\ jobs'[j].attempt_number = jobs[j].attempt_number
                             /\ jobs'[j].lease_owner = jobs[j].lease_owner
      PROVE  HostStepped
  <2>1. Execs' = Execs
    BY <1>f DEF Execs
  <2> QED
    BY <1>f, <2>1, ViewFrame, ViewStutters
<1>1. ASSUME NEW s \in Schedulers, Scheduler(s) PROVE HostStepped
  BY <1>1, <1>f DEF Scheduler, SchedulerStep, SchedulerCrash, StartPass, NextCandidate, Recheck,
     RecheckRejects, Reserve, ReserveConflicts, ReserveRejects, RecordAdmitted, storeVars
<1>2. CASE Relay
  BY <1>2, <1>f DEF Relay, RelayStep, Publish, MarkPublished, RelayCrash, storeVars
<1>3. ASSUME NEW w \in Workers, Worker(w) PROVE HostStepped
  <2>1. ASSUME NEW j \in Jobs, Claim(w, j) PROVE HostStepped
    BY <2>1, HostClaim
  <2>2. ASSUME NEW j \in Jobs, NotClaimed(w, j) \/ ClaimRaises(w, j) PROVE HostStepped
    BY <2>2, <1>f DEF NotClaimed, ClaimRaises, storeVars
  <2>3. CASE Abandon(w) \/ FinalizeRejected(w) \/ WorkerCrash(w) \/ WorkerRaises(w)
    <3>1. work[w].pc # "idle" /\ work' = [work EXCEPT ![w] = WorkerIdle] /\ UNCHANGED jobs
      BY <2>3 DEF Abandon, FinalizeRejected, WorkerCrash, WorkerRaises, storeVars
    <3> QED
      BY <1>t, <3>1, ViewWorkerGone
  <2>4. CASE Redeliver(w)
    BY <2>4, <1>f DEF Redeliver, storeVars
  <2> QED
    BY <1>3, <2>1, <2>2, <2>3, <2>4, HostReload, HostInsert, HostHeartbeat, HostFinish,
       HostFinalize DEF Worker, WorkerStep
<1>4. ASSUME NEW r \in Recoveries, Recovery(r) PROVE HostStepped
  <2>w. UNCHANGED work
    BY <1>4 DEF Recovery
  <2>1. CASE ClearRetry(r)
    BY <2>w, <2>1, <1>t, <1>f DEF ClearRetry, JobRow
  <2>2. CASE ListStale(r) \/ ReclaimLoses(r) \/ ListDue(r) \/ Dispatch(r) \/ RecoveryCrash(r)
    BY <2>w, <2>2, <1>f DEF ListStale, ReclaimLoses, ListDue, Dispatch, RecoveryCrash, storeVars
  <2> QED
    BY <1>4, <2>w, <2>1, <2>2, HostReclaims DEF Recovery, RecoveryStep
<1>5. CASE Clock
  BY <1>5, <1>t, <1>f DEF Clock, LeaseExpires, RetryDue, JobRow
<1>6. CASE UNCHANGED vars
  BY <1>6, <1>f DEF vars, storeVars
<1> QED
  BY <1>1, <1>2, <1>3, <1>4, <1>5, <1>6, HostApi DEF Next

\* Whatever schedulers, relay, recovery, clients and the clock do, a worker's attempt
\* starts, is fenced off and ends as AttemptHost says (claim, heartbeat,
\* finalize_attempt, reclaim_stale).
THEOREM PlatformImplementsHost == Spec => ImplementsHost
<1>1. HostInv /\ [Next]_vars => [Host!HostNext]_(Host!hostVars)
  BY HostSimulation DEF HostStepped
<1> QED
  BY <1>1, HostInitially, HostInvInit, HostInvStep, PTL DEF Spec, ImplementsHost, Host!HostSpec
=============================================================================
