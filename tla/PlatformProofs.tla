----------------------------- MODULE PlatformProofs -----------------------------
(***************************************************************************)
(* Theorems about Platform, for any finite set of jobs and any number of   *)
(* processes, attempts and resources.                                      *)
(***************************************************************************)
EXTENDS Platform, TLAPS

-----------------------------------------------------------------------------
(* The state machine. *)

\* What app/statemachine.py allows, as sets of sources.
LEMMA Sources ==
    /\ sources_for("PENDING") = {}
    /\ sources_for("QUEUED") = {"PENDING"}
    /\ sources_for("RUNNING") = {"QUEUED"}
    /\ \A to \in {"SUCCEEDED", "FAILED"} : sources_for(to) = {"RUNNING"}
    /\ sources_for("CANCELLED") = {"QUEUED", "RUNNING"}
    /\ Terminal = {"SUCCEEDED", "FAILED", "CANCELLED"}
BY DEF sources_for, VALID_TRANSITIONS, Status, Terminal

\* Amounts are numbers in every dimension.
LEMMA Amounts ==
    ASSUME NEW q \in Requests \cup {Nothing}
    PROVE  q \in [Dims -> Nat]
BY RequestsAreAmounts DEF Nothing

-----------------------------------------------------------------------------
(* Types. *)

Typed == TypeOK /\ LocalsOK

\* The initial tables and locals have their types.
LEMMA TypedInit == Init => Typed
<1> SUFFICES ASSUME Init PROVE Typed
  OBVIOUS
<1> USE MaxAttemptsPositive
<1>1. jobs \in [Jobs -> JobRow]
  <2>1. NoRow \in JobRow
    BY DEF NoRow, JobRow, Status, Absent
  <2> QED
    BY <2>1 DEF Init, StoreInit
<1>2. /\ reservations \in [Jobs \X Attempts -> ReservationRow]
      /\ capacity \in [Dims -> Int]
      /\ attempts \in [Jobs \X Attempts -> AttemptStatus]
      /\ dlq \in [Jobs -> Nat]
      /\ outbox \in [Jobs -> Int]
      /\ decisions \in [Jobs -> [admitted : Nat, waiting : BOOLEAN]]
  BY DEF Init, StoreInit, ReservationRow, AttemptStatus, Nothing
<1>3. topic \in [Jobs -> Nat] /\ relay \in Jobs \cup {None}
  BY DEF Init, RelayInit
<1>4. sched \in [Schedulers -> SchedState]
  <2>1. SchedIdle \in SchedState
    BY DEF SchedIdle, SchedState
  <2> QED
    BY <2>1 DEF Init, SchedInit
<1>5. work \in [Workers -> WorkerState]
  BY DEF Init, WorkerInit, WorkerIdle, WorkerState
<1>6. recov \in [Recoveries -> RecoveryState]
  BY DEF Init, RecoveryInit, RecoveryIdle, RecoveryState
<1>7. calls \in [Clients -> CallState]
  BY DEF Init, ApiInit, CallIdle, CallState
<1>8. LocalsOK
  BY DEF LocalsOK, Init, SchedInit, SchedIdle, WorkerInit, WorkerIdle,
         RecoveryInit, RecoveryIdle, ApiInit, CallIdle
<1> QED
  BY <1>1, <1>2, <1>3, <1>4, <1>5, <1>6, <1>7, <1>8 DEF Typed, TypeOK

\* Giving a reservation back leaves tables of the right type, whichever row it is.
LEMMA ReleaseTyped ==
    ASSUME TypeOK, NEW j \in Jobs, NEW a \in Nat, ReleaseReservation(j, a)
    PROVE  /\ reservations' \in [Jobs \X Attempts -> ReservationRow]
           /\ capacity' \in [Dims -> Int]
<1>1. CASE HasActive(j, a)
  <2>1. reservations[<<j, a>>] \in ReservationRow
    BY <1>1 DEF TypeOK, HasActive
  <2>2. reservations[<<j, a>>].amount \in [Dims -> Nat]
    BY <2>1, Amounts DEF ReservationRow
  <2>3. [reservations[<<j, a>>] EXCEPT !.status = "RELEASED"] \in ReservationRow
    BY <2>1 DEF ReservationRow
  <2>4. capacity' \in [Dims -> Int]
    <3>1. capacity' = [d \in Dims |-> capacity[d] - reservations[<<j, a>>].amount[d]]
      BY <1>1 DEF ReleaseReservation
    <3>2. capacity \in [Dims -> Int]
      BY DEF TypeOK
    <3> QED
      BY <2>2, <3>1, <3>2
  <2>5. reservations' \in [Jobs \X Attempts -> ReservationRow]
    BY <1>1, <2>3 DEF ReleaseReservation, TypeOK
  <2> QED
    BY <2>4, <2>5
<1>2. CASE ~HasActive(j, a)
  BY <1>2 DEF ReleaseReservation, TypeOK
<1> QED
  BY <1>1, <1>2

\* Updating one column keeps a row of the jobs table a row.
LEMMA RowTyped ==
    ASSUME NEW r \in JobRow
    PROVE  /\ \A v \in Status : [r EXCEPT !.status = v] \in JobRow
           /\ \A q \in Requests : [r EXCEPT !.request = q] \in JobRow
           /\ \A v \in {"none", "live", "expired"} : [r EXCEPT !.lease = v] \in JobRow
           /\ \A v \in {"none", "waiting", "due"} : [r EXCEPT !.next_retry = v] \in JobRow
           /\ [r EXCEPT !.cancel_requested = TRUE] \in JobRow
           /\ [r EXCEPT !.deleted = TRUE] \in JobRow
BY DEF JobRow

\* create_and_enqueue inserts a well-typed row.
LEMMA NewRowTyped ==
    \A q \in Requests : [NoRow EXCEPT !.status = "QUEUED", !.request = q] \in JobRow
<1>1. NoRow \in JobRow
  BY MaxAttemptsPositive DEF NoRow, JobRow
<1> QED
  BY <1>1 DEF JobRow, Status

\* The job requests (app/services/jobs.py) keep the types.
LEMMA ApiTyped == Typed /\ Api => Typed'
<1> SUFFICES ASSUME TypeOK, LocalsOK, Api PROVE TypeOK' /\ LocalsOK'
  BY DEF Typed
<1>0. UNCHANGED <<topic, relay, sched, work, recov>>
  BY DEF Api
<1> USE DEF TypeOK, LocalsOK
<1>1. ASSUME NEW j \in Jobs, CreateJob(j) PROVE TypeOK' /\ LocalsOK'
  <2>1. jobs' \in [Jobs -> JobRow]
    BY <1>1, NewRowTyped DEF CreateJob
  <2>2. UNCHANGED <<reservations, capacity, attempts, dlq, outbox, decisions, calls>>
    BY <1>1 DEF CreateJob
  <2> QED
    BY <1>0, <2>1, <2>2
<1>2. ASSUME NEW j \in Jobs, PatchStatus(j) PROVE TypeOK' /\ LocalsOK'
  <2>1. jobs' \in [Jobs -> JobRow]
    <3>1. PICK to \in PatchTargets : conditional_transition(j, to)
      BY <1>2 DEF PatchStatus
    <3>2. [jobs[j] EXCEPT !.status = to] \in JobRow
      BY RowTyped, PatchTargetsAreStatuses
    <3> QED
      BY <3>1, <3>2 DEF conditional_transition
  <2>2. UNCHANGED <<reservations, capacity, attempts, dlq, outbox, decisions, calls>>
    BY <1>2 DEF PatchStatus
  <2> QED
    BY <1>0, <2>1, <2>2
<1>3. ASSUME NEW j \in Jobs, UpdateConfig(j) PROVE TypeOK' /\ LocalsOK'
  <2>1. jobs' \in [Jobs -> JobRow]
    <3>1. PICK q \in Requests : jobs' = [jobs EXCEPT ![j] = [@ EXCEPT !.request = q]]
      BY <1>3 DEF UpdateConfig
    <3>2. [jobs[j] EXCEPT !.request = q] \in JobRow
      BY RowTyped
    <3> QED
      BY <3>1, <3>2
  <2>2. UNCHANGED <<reservations, capacity, attempts, dlq, outbox, decisions, calls>>
    BY <1>3 DEF UpdateConfig
  <2> QED
    BY <1>0, <2>1, <2>2
<1>4. ASSUME NEW j \in Jobs, DeleteJob(j) PROVE TypeOK' /\ LocalsOK'
  BY <1>0, <1>4, RowTyped DEF DeleteJob
<1>5. ASSUME NEW c \in Clients, NEW j \in Jobs, CancelRead(c, j) PROVE TypeOK' /\ LocalsOK'
  <2>1. jobs[j].attempt_number \in 0..MaxAttempts
    BY DEF JobRow
  <2> QED
    BY <1>0, <1>5, <2>1 DEF CancelRead, CallState, storeVars
<1>c. CallIdle \in CallState
  BY MaxAttemptsPositive DEF CallState, CallIdle
<1>6. ASSUME NEW c \in Clients, CancelFast(c) PROVE TypeOK' /\ LocalsOK'
  <2>1. calls[c].job \in Jobs /\ calls[c].attempt + 1 \in Nat
    BY <1>6, MaxAttemptsPositive DEF CancelFast, CallState
  <2>2. /\ reservations' \in [Jobs \X Attempts -> ReservationRow]
        /\ capacity' \in [Dims -> Int]
    BY <1>6, <2>1, ReleaseTyped DEF CancelFast
  <2>3. jobs' \in [Jobs -> JobRow]
    BY <1>6, <2>1, RowTyped DEF CancelFast, conditional_transition, Status
  <2> QED
    BY <1>0, <1>6, <1>c, <2>2, <2>3 DEF CancelFast, CallIdle
<1>7. ASSUME NEW c \in Clients, CancelRequest(c) PROVE TypeOK' /\ LocalsOK'
  BY <1>0, <1>7, <1>c, RowTyped DEF CancelRequest, CallIdle
<1>8. ASSUME NEW c \in Clients, CancelMisses(c) PROVE TypeOK' /\ LocalsOK'
  BY <1>0, <1>8, <1>c DEF CancelMisses, CallIdle, storeVars
<1> QED
  BY <1>1, <1>2, <1>3, <1>4, <1>5, <1>6, <1>7, <1>8 DEF Api

\* The scheduler loop (app/services/scheduler.py) keeps the types.
LEMMA SchedulerTyped == ASSUME NEW s \in Schedulers PROVE Typed /\ Scheduler(s) => Typed'
<1> SUFFICES ASSUME TypeOK, LocalsOK, Scheduler(s) PROVE TypeOK' /\ LocalsOK'
  BY DEF Typed
<1>0. UNCHANGED <<topic, relay, work, recov, calls>>
  BY DEF Scheduler
<1> USE DEF TypeOK, LocalsOK
<1>i. SchedIdle \in SchedState
  BY MaxAttemptsPositive DEF SchedIdle, SchedState
<1>l. ASSUME NEW j \in Jobs, NEW todo \in SUBSET Jobs, NEW n \in Nat,
             LoadCandidate(s, j, todo, n)
      PROVE  /\ sched' \in [Schedulers -> SchedState]
             /\ \A t \in Schedulers :
                   sched'[t].pc \notin {"idle", "next"} => sched'[t].job \in Jobs
  <2>1. /\ jobs[j].attempt_number + 1 \in 0..(MaxAttempts + 1)
        /\ jobs[j].request \in Requests \cup {Nothing}
    BY MaxAttemptsPositive DEF JobRow
  <2> QED
    BY <1>l, <2>1 DEF LoadCandidate, SchedState
<1>c. ASSUME NEW n \in Nat, Continue(s, n)
      PROVE  /\ sched' \in [Schedulers -> SchedState]
             /\ \A t \in Schedulers :
                   sched'[t].pc \notin {"idle", "next"} => sched'[t].job \in Jobs
  <2> DEFINE next == [SchedIdle EXCEPT !.pc = "next", !.todo = sched[s].todo, !.admitted = n]
  <2>1. next \in SchedState /\ next.pc = "next"
    BY <1>i DEF SchedState
  <2>2. SchedIdle.pc = "idle"
    BY DEF SchedIdle
  <2>3. sched' = [sched EXCEPT ![s] = SchedIdle] \/ sched' = [sched EXCEPT ![s] = next]
    BY <1>c DEF Continue
  <2> HIDE DEF next
  <2> QED
    BY <1>i, <2>1, <2>2, <2>3
<1>1. CASE StartPass(s)
  BY <1>0, <1>1, <1>l DEF StartPass, list_schedulable, storeVars
<1>2. CASE NextCandidate(s)
  <2>1. sched[s].todo \in SUBSET Jobs /\ sched[s].admitted \in Nat
    BY DEF SchedState
  <2> QED
    BY <1>0, <1>2, <1>l, <2>1 DEF NextCandidate, storeVars
<1>3. CASE Recheck(s)
  <2> DEFINE new == [sched[s] EXCEPT !.pc = "reserve"]
  <2>1. new \in SchedState /\ new.job = sched[s].job
    BY DEF SchedState
  <2>2. /\ sched' = [sched EXCEPT ![s] = new]
        /\ sched[s].job \in Jobs
        /\ UNCHANGED storeVars
    BY <1>3 DEF Recheck
  <2> HIDE DEF new
  <2> QED
    BY <1>0, <2>1, <2>2 DEF storeVars
<1>w. ASSUME NEW j \in Jobs, RecordWaiting(j)
      PROVE  decisions' \in [Jobs -> [admitted : Nat, waiting : BOOLEAN]]
  BY <1>w DEF RecordWaiting
<1>a. sched[s].admitted \in Nat /\ sched[s].admitted + 1 \in Nat
  BY DEF SchedState
<1>4. CASE RecheckRejects(s)
  <2>1. /\ sched[s].job \in Jobs
        /\ RecordWaiting(sched[s].job)
        /\ Continue(s, sched[s].admitted)
        /\ UNCHANGED <<jobs, reservations, capacity, attempts, dlq, outbox>>
    BY <1>4 DEF RecheckRejects
  <2> QED
    BY <1>0, <1>c, <1>w, <1>a, <2>1
<1>5. CASE Reserve(s)
  <2>1. sched[s].amount \in Requests \cup {Nothing}
    BY DEF SchedState
  <2>2. capacity' \in [Dims -> Int]
    <3>1. capacity' = [d \in Dims |-> capacity[d] + sched[s].amount[d]]
      BY <1>5 DEF Reserve
    <3>2. sched[s].amount \in [Dims -> Nat]
      BY <2>1, Amounts
    <3> QED
      BY <3>1, <3>2
  <2>3. reservations' \in [Jobs \X Attempts -> ReservationRow]
    <3>1. [status |-> "ACTIVE", amount |-> sched[s].amount] \in ReservationRow
      BY <2>1 DEF ReservationRow
    <3> QED
      BY <1>5, <3>1 DEF Reserve
  <2>4. outbox' \in [Jobs -> Int]
    BY <1>5 DEF Reserve, insert_event
  <2>5. /\ sched' \in [Schedulers -> SchedState]
        /\ \A t \in Schedulers :
              sched'[t].pc \notin {"idle", "next"} => sched'[t].job \in Jobs
    <3> DEFINE new == [sched[s] EXCEPT !.pc = "record"]
    <3>1. new \in SchedState /\ new.job = sched[s].job
      <4>1. sched[s] \in SchedState
        OBVIOUS
      <4> QED
        BY ONLY <4>1 DEF SchedState
    <3>2. sched[s].job \in Jobs /\ sched' = [sched EXCEPT ![s] = new]
      BY <1>5 DEF Reserve
    <3> HIDE DEF new
    <3> QED
      BY <3>1, <3>2
  <2>6. UNCHANGED <<jobs, attempts, dlq, decisions>>
    BY <1>5 DEF Reserve
  <2> QED
    BY <1>0, <2>2, <2>3, <2>4, <2>5, <2>6
<1>6. CASE ReserveConflicts(s)
  BY <1>0, <1>6, <1>i DEF ReserveConflicts, SchedIdle, storeVars
<1>7. CASE ReserveRejects(s)
  BY <1>0, <1>7, <1>c, <1>w, <1>a DEF ReserveRejects
<1>8. CASE RecordAdmitted(s)
  BY <1>0, <1>8, <1>c, <1>a DEF RecordAdmitted
<1>9. CASE SchedulerCrash(s)
  BY <1>0, <1>9, <1>i DEF SchedulerCrash, SchedIdle, storeVars
<1> QED
  BY <1>1, <1>2, <1>3, <1>4, <1>5, <1>6, <1>7, <1>8, <1>9 DEF Scheduler, SchedulerStep

\* The outbox relay keeps the types.
LEMMA RelayTyped == Typed /\ Relay => Typed'
<1> SUFFICES ASSUME TypeOK, LocalsOK, Relay PROVE TypeOK' /\ LocalsOK'
  BY DEF Typed
<1>0. UNCHANGED <<sched, work, recov, calls>>
  BY DEF Relay
<1> USE DEF TypeOK, LocalsOK
<1>1. ASSUME NEW j \in Jobs, Publish(j) PROVE TypeOK' /\ LocalsOK'
  BY <1>0, <1>1 DEF Publish, Deliver, storeVars
<1>2. CASE MarkPublished
  BY <1>0, <1>2 DEF MarkPublished
<1>3. CASE RelayCrash
  BY <1>0, <1>3 DEF RelayCrash, storeVars
<1> QED
  BY <1>1, <1>2, <1>3 DEF Relay, RelayStep

\* Updating a field of its local record keeps a worker's state a worker's state.
LEMMA WorkerStateTyped ==
    ASSUME NEW r \in WorkerState
    PROVE  /\ \A v \in {"inserted", "executing", "finalize"} :
                 [r EXCEPT !.pc = v] \in WorkerState /\ [r EXCEPT !.pc = v].job = r.job
           /\ \A b \in BOOLEAN :
                 [r EXCEPT !.saw = b] \in WorkerState /\ [r EXCEPT !.saw = b].job = r.job
           /\ [r EXCEPT !.abandoned = TRUE] \in WorkerState
           /\ [r EXCEPT !.abandoned = TRUE].job = r.job
           /\ \A n \in 0..MaxAttempts :
                 [r EXCEPT !.attempt = n] \in WorkerState /\ [r EXCEPT !.attempt = n].job = r.job
           /\ \A x \in Results :
                 [r EXCEPT !.result = x] \in WorkerState /\ [r EXCEPT !.result = x].job = r.job
BY DEF WorkerState

\* Message processing (app/services/worker.py) keeps the types.
LEMMA WorkerTyped == ASSUME NEW w \in Workers PROVE Typed /\ Worker(w) => Typed'
<1> SUFFICES ASSUME TypeOK, LocalsOK, Worker(w) PROVE TypeOK' /\ LocalsOK'
  BY DEF Typed
<1>0. UNCHANGED <<relay, sched, recov, calls>>
  BY DEF Worker
<1> USE DEF TypeOK, LocalsOK
<1>i. WorkerIdle \in WorkerState /\ WorkerIdle.pc = "idle"
  BY MaxAttemptsPositive DEF WorkerIdle, WorkerState
<1>t. ASSUME NEW j \in Jobs, Consume(j) PROVE topic' \in [Jobs -> Nat]
  BY <1>t DEF Consume
<1>d. ASSUME NEW j \in Jobs, Deliver(j) PROVE topic' \in [Jobs -> Nat]
  BY <1>d DEF Deliver
<1>1. ASSUME NEW j \in Jobs, Claim(w, j) PROVE TypeOK' /\ LocalsOK'
  <2>1. jobs' \in [Jobs -> JobRow]
    <3>1. jobs[j].attempt_number + 1 \in 0..MaxAttempts
      BY <1>1, MaxAttemptsPositive DEF Claim, Claimable, HasActive, Attempts, JobRow
    <3>2. jobs[j] \in JobRow
      OBVIOUS
    <3>3. [jobs[j] EXCEPT !.status = "RUNNING", !.lease_owner = w, !.lease = "live",
                          !.attempt_number = jobs[j].attempt_number + 1,
                          !.next_retry = "none"] \in JobRow
      BY <3>1, <3>2 DEF JobRow, Status
    <3> QED
      BY <1>1, <3>3 DEF Claim, claim
  <2>2. /\ work' \in [Workers -> WorkerState]
        /\ \A v \in Workers : work'[v].pc # "idle" => work'[v].job \in Jobs
    <3> DEFINE new == [WorkerIdle EXCEPT !.pc = "claimed", !.job = j]
    <3>1. new \in WorkerState /\ new.job \in Jobs
      BY <1>i DEF WorkerState
    <3>2. work' = [work EXCEPT ![w] = new]
      BY <1>1 DEF Claim
    <3> HIDE DEF new
    <3> QED
      BY <3>1, <3>2
  <2>3. Consume(j) /\ UNCHANGED <<reservations, capacity, attempts, dlq, outbox, decisions>>
    BY <1>1 DEF Claim
  <2> QED
    BY <1>0, <1>t, <2>1, <2>2, <2>3
<1>2. ASSUME NEW j \in Jobs, NotClaimed(w, j) PROVE TypeOK' /\ LocalsOK'
  BY <1>0, <1>2, <1>t DEF NotClaimed, storeVars
<1>3. ASSUME NEW j \in Jobs, ClaimRaises(w, j) PROVE TypeOK' /\ LocalsOK'
  BY <1>0, <1>3, <1>t DEF ClaimRaises, storeVars
<1>4. CASE Reload(w)
  <2>1. jobs[work[w].job].attempt_number \in 0..MaxAttempts
    BY <1>4 DEF Reload, JobRow
  <2> QED
    BY <1>0, <1>4, <1>i, <2>1 DEF Reload, WorkerState, storeVars
<1>5. CASE InsertAttempt(w)
  <2>1. attempts' \in [Jobs \X Attempts -> AttemptStatus]
    BY <1>5 DEF InsertAttempt, AttemptStatus
  <2>2. /\ work' \in [Workers -> WorkerState]
        /\ \A v \in Workers : work'[v].pc # "idle" => work'[v].job \in Jobs
    <3> DEFINE new == [work[w] EXCEPT !.pc = "inserted"]
    <3>1. new \in WorkerState /\ new.job = work[w].job
      <4>1. work[w] \in WorkerState
        OBVIOUS
      <4> QED
        BY ONLY <4>1, WorkerStateTyped
    <3>2. work[w].job \in Jobs
      BY <1>5 DEF InsertAttempt
    <3>3. work' = [work EXCEPT ![w] = new] \/ work' = [work EXCEPT ![w] = WorkerIdle]
      BY <1>5 DEF InsertAttempt
    <3> HIDE DEF new
    <3> QED
      BY <1>i, <3>1, <3>2, <3>3
  <2> QED
    BY <1>0, <1>5, <2>1, <2>2 DEF InsertAttempt
<1>6. CASE StartExecutor(w)
  <2>1. work[w].job \in Jobs /\ jobs[work[w].job].cancel_requested \in BOOLEAN
    BY <1>6 DEF StartExecutor, JobRow
  <2> DEFINE new == [work[w] EXCEPT !.pc = "executing", !.saw = jobs[work[w].job].cancel_requested]
  <2>2. new \in WorkerState /\ new.job = work[w].job
    <3> DEFINE r == [work[w] EXCEPT !.pc = "executing"]
               b == jobs[work[w].job].cancel_requested
    <3>1. r \in WorkerState /\ r.job = work[w].job
      <4>1. work[w] \in WorkerState
        OBVIOUS
      <4> QED
        BY ONLY <4>1, WorkerStateTyped
    <3>2. new = [r EXCEPT !.saw = b] /\ b \in BOOLEAN
      BY <2>1
    <3> HIDE DEF new, r, b
    <3> QED
      BY ONLY <3>1, <3>2, WorkerStateTyped
  <2>3. work' = [work EXCEPT ![w] = new] /\ UNCHANGED <<storeVars, topic>>
    BY <1>6 DEF StartExecutor
  <2> HIDE DEF new
  <2>4. /\ work' \in [Workers -> WorkerState]
        /\ \A v \in Workers : work'[v].pc # "idle" => work'[v].job \in Jobs
    BY <2>1, <2>2, <2>3
  <2> QED
    BY <1>0, <2>3, <2>4 DEF storeVars
<1>7. CASE Heartbeat(w)
  <2>1. work[w].job \in Jobs
    BY <1>7 DEF Heartbeat
  <2>2. jobs' \in [Jobs -> JobRow]
    <3>1. [jobs[work[w].job] EXCEPT !.lease = "live"] \in JobRow
      BY <2>1, RowTyped
    <3>2. \/ UNCHANGED jobs
          \/ jobs' = [jobs EXCEPT ![work[w].job] = [@ EXCEPT !.lease = "live"]]
      BY <1>7 DEF Heartbeat
    <3> QED
      BY <2>1, <3>1, <3>2
  <2>3. /\ work' \in [Workers -> WorkerState]
        /\ \A v \in Workers : work'[v].pc # "idle" => work'[v].job \in Jobs
    <3> DEFINE new == [work[w] EXCEPT !.abandoned = TRUE]
    <3>1. new \in WorkerState /\ new.job = work[w].job
      <4>1. work[w] \in WorkerState
        OBVIOUS
      <4> QED
        BY ONLY <4>1, WorkerStateTyped
    <3>2. UNCHANGED work \/ work' = [work EXCEPT ![w] = new]
      BY <1>7 DEF Heartbeat
    <3> HIDE DEF new
    <3> QED
      BY <2>1, <3>1, <3>2
  <2>4. UNCHANGED <<reservations, capacity, attempts, dlq, outbox, decisions, topic>>
    BY <1>7 DEF Heartbeat
  <2> QED
    BY <1>0, <2>2, <2>3, <2>4
<1>8. CASE FinishExecutor(w)
  <2>1. work[w].job \in Jobs /\ UNCHANGED <<storeVars, topic>>
    BY <1>8 DEF FinishExecutor
  <2>2. CheckpointSees(w) \subseteq BOOLEAN
    BY <2>1 DEF CheckpointSees, JobRow, WorkerState
  <2>3. PICK r \in Results, c \in CheckpointSees(w) :
           work' = [work EXCEPT ![w] = [@ EXCEPT !.pc = "finalize", !.saw = c, !.result = r]]
    BY <1>8 DEF FinishExecutor
  <2>4. /\ work' \in [Workers -> WorkerState]
        /\ \A v \in Workers : work'[v].pc # "idle" => work'[v].job \in Jobs
    <3> DEFINE new == [work[w] EXCEPT !.pc = "finalize", !.saw = c, !.result = r]
    <3>1. new \in WorkerState /\ new.job = work[w].job
      <4>1. work[w] \in WorkerState /\ c \in BOOLEAN /\ r \in Results \cup {None}
        BY <2>2
      <4> QED
        BY <4>1 DEF WorkerState
    <3>2. work' = [work EXCEPT ![w] = new]
      BY <2>3
    <3> HIDE DEF new
    <3> QED
      BY <2>1, <3>1, <3>2
  <2> QED
    BY <1>0, <2>1, <2>4 DEF storeVars
<1>9. CASE Abandon(w)
  BY <1>0, <1>9, <1>i DEF Abandon, storeVars
<1>10. CASE Finalize(w)
  <2> DEFINE j == work[w].job
             a == work[w].attempt
             retry == IF JobOutcome(w) = "QUEUED" THEN "waiting" ELSE jobs[j].next_retry
  <2>1. j \in Jobs /\ a \in Nat
    BY <1>10, MaxAttemptsPositive DEF Finalize, WorkerState
  <2>2. JobOutcome(w) \in Status /\ AttemptOutcome(w) \in AttemptStatus
    BY DEF JobOutcome, AttemptOutcome, Status, AttemptStatus
  <2>3. jobs' \in [Jobs -> JobRow]
    <3>1. retry \in {"none", "waiting", "due"} /\ jobs[j] \in JobRow
      BY <2>1 DEF JobRow
    <3> HIDE DEF retry
    <3>2. [jobs[j] EXCEPT !.status = JobOutcome(w), !.lease_owner = None,
                          !.lease = "none", !.next_retry = retry] \in JobRow
      BY <2>2, <3>1 DEF JobRow
    <3>3. LeaveRunning(j, JobOutcome(w), retry)
      BY <1>10 DEF Finalize, retry
    <3> QED
      BY <3>2, <3>3 DEF LeaveRunning
  <2>4. attempts' \in [Jobs \X Attempts -> AttemptStatus]
    BY <1>10, <2>2 DEF Finalize
  <2>5. dlq' \in [Jobs -> Nat]
    BY <1>10 DEF Finalize, insert_dlq
  <2>6. /\ reservations' \in [Jobs \X Attempts -> ReservationRow]
        /\ capacity' \in [Dims -> Int]
    BY <1>10, <2>1, ReleaseTyped DEF Finalize
  <2>7. work' = [work EXCEPT ![w] = WorkerIdle] /\ UNCHANGED <<outbox, decisions, topic>>
    BY <1>10 DEF Finalize
  <2> QED
    BY <1>0, <1>i, <2>3, <2>4, <2>5, <2>6, <2>7
<1>11. CASE FinalizeRejected(w)
  BY <1>0, <1>11, <1>i DEF FinalizeRejected, storeVars
<1>12. CASE WorkerCrash(w)
  BY <1>0, <1>12, <1>i, <1>d DEF WorkerCrash, storeVars
<1>13. CASE WorkerRaises(w)
  BY <1>0, <1>13, <1>i DEF WorkerRaises, storeVars
<1>14. CASE Redeliver(w)
  BY <1>0, <1>14, <1>d DEF Redeliver, storeVars
<1> QED
  BY <1>1, <1>2, <1>3, <1>4, <1>5, <1>6, <1>7, <1>8, <1>9, <1>10, <1>11, <1>12, <1>13,
     <1>14 DEF Worker, WorkerStep

\* The recovery loop (app/services/recovery.py) keeps the types.
LEMMA RecoveryTyped == ASSUME NEW r \in Recoveries PROVE Typed /\ Recovery(r) => Typed'
<1> SUFFICES ASSUME TypeOK, LocalsOK, Recovery(r) PROVE TypeOK' /\ LocalsOK'
  BY DEF Typed
<1>0. UNCHANGED <<topic, relay, sched, work, calls>>
  BY DEF Recovery
<1> USE DEF TypeOK, LocalsOK
<1>i. RecoveryIdle \in RecoveryState /\ RecoveryIdle.pc = "idle"
  BY DEF RecoveryIdle, RecoveryState
<1>n. \A pc \in {"reclaim", "dispatch"}, todo \in SUBSET Jobs :
         NextOf(pc, todo) \in RecoveryState /\ NextOf(pc, todo).pc # "clear"
  BY DEF NextOf, RecoveryIdle, RecoveryState
<1>s. recov[r].todo \subseteq Jobs
  BY DEF RecoveryState
<1>1. CASE ListStale(r)
  BY <1>0, <1>1, <1>n DEF ListStale, list_stale_leases, storeVars
<1>2. CASE Reclaim(r)
  <2>1. PICK j \in recov[r].todo :
          /\ LeaveRunning(j, ReclaimTarget(j),
                          IF ReclaimTarget(j) = "QUEUED" THEN "waiting" ELSE "none")
          /\ attempts' = [attempts EXCEPT ![<<j, jobs[j].attempt_number>>] = "LOST"]
          /\ ReleaseReservation(j, jobs[j].attempt_number)
          /\ recov' = [recov EXCEPT ![r] = NextOf("reclaim", recov[r].todo \ {j})]
    BY <1>2 DEF Reclaim, mark_lost
  <2>2. j \in Jobs /\ jobs[j].attempt_number \in Nat
    BY <1>s, MaxAttemptsPositive DEF JobRow
  <2>3. ReclaimTarget(j) \in Status
    BY DEF ReclaimTarget, Status
  <2>4. jobs' \in [Jobs -> JobRow]
    <3> DEFINE retry == IF ReclaimTarget(j) = "QUEUED" THEN "waiting" ELSE "none"
    <3>1. retry \in {"none", "waiting", "due"} /\ jobs[j] \in JobRow
      BY <2>2
    <3>2. LeaveRunning(j, ReclaimTarget(j), retry)
      BY <2>1
    <3> HIDE DEF retry
    <3>3. [jobs[j] EXCEPT !.status = ReclaimTarget(j), !.lease_owner = None,
                          !.lease = "none", !.next_retry = retry] \in JobRow
      BY <2>3, <3>1 DEF JobRow
    <3> QED
      BY <3>2, <3>3 DEF LeaveRunning
  <2>5. attempts' \in [Jobs \X Attempts -> AttemptStatus]
    BY <2>1 DEF AttemptStatus
  <2>6. /\ reservations' \in [Jobs \X Attempts -> ReservationRow]
        /\ capacity' \in [Dims -> Int]
    BY <2>1, <2>2, ReleaseTyped
  <2>7. UNCHANGED <<dlq, outbox, decisions>>
    BY <1>2 DEF Reclaim, mark_lost
  <2>8. recov' \in [Recoveries -> RecoveryState] /\ recov'[r].pc # "clear"
    BY <1>n, <1>s, <2>1
  <2> QED
    BY <1>0, <2>1, <2>4, <2>5, <2>6, <2>7, <2>8
<1>3. CASE ReclaimLoses(r)
  <2>1. PICK j \in recov[r].todo :
          recov' = [recov EXCEPT ![r] = NextOf("reclaim", recov[r].todo \ {j})]
    BY <1>3 DEF ReclaimLoses
  <2>2. UNCHANGED storeVars
    BY <1>3 DEF ReclaimLoses
  <2> QED
    BY <1>0, <1>n, <1>s, <2>1, <2>2 DEF storeVars
<1>4. CASE ListDue(r)
  BY <1>0, <1>4, <1>n DEF ListDue, list_retry_due, storeVars
<1>5. CASE Dispatch(r)
  BY <1>0, <1>5, <1>s DEF Dispatch, insert_event, RecoveryState
<1>6. CASE ClearRetry(r)
  <2>1. jobs' \in [Jobs -> JobRow]
    BY <1>6, RowTyped DEF ClearRetry
  <2> QED
    BY <1>0, <1>6, <1>n, <1>s, <2>1 DEF ClearRetry
<1>7. CASE RecoveryCrash(r)
  BY <1>0, <1>7, <1>i DEF RecoveryCrash, storeVars
<1> QED
  BY <1>1, <1>2, <1>3, <1>4, <1>5, <1>6, <1>7 DEF Recovery, RecoveryStep

\* The passing of time keeps the types.
LEMMA ClockTyped == Typed /\ Clock => Typed'
<1> SUFFICES ASSUME TypeOK, LocalsOK, Clock PROVE TypeOK' /\ LocalsOK'
  BY DEF Typed
<1>0. UNCHANGED <<topic, relay, sched, work, recov, calls>>
  BY DEF Clock
<1> USE DEF TypeOK, LocalsOK
<1>1. ASSUME NEW j \in Jobs, LeaseExpires(j) PROVE TypeOK' /\ LocalsOK'
  BY <1>0, <1>1, RowTyped DEF LeaseExpires
<1>2. ASSUME NEW j \in Jobs, RetryDue(j) PROVE TypeOK' /\ LocalsOK'
  BY <1>0, <1>2, RowTyped DEF RetryDue
<1> QED
  BY <1>1, <1>2 DEF Clock

\* Every step keeps the types.
LEMMA TypedStep == Typed /\ [Next]_vars => Typed'
<1>1. Typed /\ UNCHANGED vars => Typed'
  BY DEF Typed, TypeOK, LocalsOK, vars, storeVars
<1> QED
  BY <1>1, ApiTyped, SchedulerTyped, RelayTyped, WorkerTyped, RecoveryTyped, ClockTyped
  DEF Next

\* Every table and every process keeps values of its type, whatever the numbers of
\* jobs, processes, attempts and units.
THEOREM TypeCorrect == Spec => []TypeOK
<1>1. Typed => TypeOK
  BY DEF Typed
<1> QED
  BY <1>1, TypedInit, TypedStep, PTL DEF Spec
=============================================================================
