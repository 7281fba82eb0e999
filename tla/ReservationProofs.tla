--------------------------- MODULE ReservationProofs ---------------------------
(***************************************************************************)
(* A job holds at most one reservation, and a running one holds it: the    *)
(* invariant ReservationInv of Platform is inductive.  The capacity        *)
(* counter is what the reservations add up to.                             *)
(***************************************************************************)
EXTENDS PlatformProofs, FiniteSetTheorems

\* Apart from types, the invariant depends on three columns of the jobs table, the
\* status of the reservations and what the schedulers remember.
LEMMA ReservationFrame ==
    ASSUME ReservationInv, TypeOK', LocalsOK', UNCHANGED <<reservations, sched>>,
           \A j \in Jobs : /\ jobs'[j].status = jobs[j].status
                           /\ jobs'[j].attempt_number = jobs[j].attempt_number
                           /\ jobs'[j].lease_owner = jobs[j].lease_owner
    PROVE  ReservationInv'
<1>1. \A j \in Jobs : ReservedAttempt(j)' = ReservedAttempt(j)
  BY DEF ReservedAttempt
<1>2. \A j \in Jobs : \A a \in Attempts : HasActive(j, a)' <=> HasActive(j, a)
  BY DEF HasActive
<1>3. ReservationFollowsLease' /\ StartedWasAdmitted'
  BY <1>1, <1>2 DEF ReservationInv, ReservationFollowsLease, StartedWasAdmitted
<1>4. WaitingIsFree'
  BY DEF ReservationInv, WaitingIsFree
<1>5. ListingIsBehind'
  BY <1>1 DEF ReservationInv, ListingIsBehind, LocalsOK
<1>6. RunningIsReserved'
  BY <1>2 DEF ReservationInv, RunningIsReserved, HasActive
<1> QED
  BY <1>3, <1>4, <1>5, <1>6 DEF ReservationInv

\* What a release does to the rows: the one it names is ACTIVE no more.
LEMMA ReleaseRows ==
    ASSUME TypeOK, NEW j \in Jobs, NEW a \in Nat, ReleaseReservation(j, a),
           NEW i \in Jobs, NEW b \in Attempts
    PROVE  /\ HasActive(i, b)' <=> HasActive(i, b) /\ ~(i = j /\ b = a)
           /\ reservations'[<<i, b>>].status = "NONE" <=> reservations[<<i, b>>].status = "NONE"
<1>1. reservations \in [Jobs \X Attempts -> ReservationRow] /\ <<i, b>> \in Jobs \X Attempts
  BY DEF TypeOK
<1>2. CASE HasActive(j, a)
  <2>1. reservations' = [reservations EXCEPT ![<<j, a>>] = [@ EXCEPT !.status = "RELEASED"]]
    BY <1>2 DEF ReleaseReservation
  <2>2. a \in Attempts /\ reservations[<<j, a>>].status = "ACTIVE"
    BY <1>2 DEF HasActive
  <2>3. CASE i = j /\ b = a
    <3>1. reservations'[<<i, b>>] = [reservations[<<i, b>>] EXCEPT !.status = "RELEASED"]
      BY <1>1, <2>1, <2>3
    <3>2. reservations'[<<i, b>>].status = "RELEASED"
      BY <1>1, <3>1 DEF ReservationRow
    <3> QED
      BY <2>2, <2>3, <3>2 DEF HasActive
  <2>4. CASE ~(i = j /\ b = a)
    <3>1. reservations'[<<i, b>>] = reservations[<<i, b>>]
      BY <1>1, <2>1, <2>4
    <3> QED
      BY <2>4, <3>1 DEF HasActive
  <2> QED
    BY <2>3, <2>4
<1>3. CASE ~HasActive(j, a)
  BY <1>3 DEF ReleaseReservation, HasActive
<1> QED
  BY <1>2, <1>3

\* What a job row's life-cycle columns become in one step.
Moved(j, status, attempt, owner) ==
    /\ \A i \in Jobs : i # j => jobs'[i] = jobs[i]
    /\ jobs'[j].status = status
    /\ jobs'[j].attempt_number = attempt
    /\ jobs'[j].lease_owner = owner

\* Rewriting one row moves that job only.
LEMMA MovedByRow ==
    ASSUME TypeOK, NEW j \in Jobs, NEW row \in JobRow, jobs' = [jobs EXCEPT ![j] = row]
    PROVE  Moved(j, row.status, row.attempt_number, row.lease_owner)
BY DEF Moved, TypeOK

\* A job leaves the states in which it needs its reservation, and rows are at most
\* released: cancel, PATCH and create.
LEMMA ReservationMoved ==
    ASSUME ReservationInv, TypeOK', LocalsOK', UNCHANGED sched,
           NEW j \in Jobs, NEW to \in Status,
           Moved(j, to, jobs[j].attempt_number, jobs[j].lease_owner),
           to # "PENDING",
           to = "QUEUED" => jobs[j].status = Absent,
           to = "RUNNING" => jobs[j].lease_owner = None,
           \A i \in Jobs : \A b \in Attempts :
              /\ HasActive(i, b)' => HasActive(i, b)
              /\ i # j => (HasActive(i, b)' <=> HasActive(i, b))
              /\ reservations'[<<i, b>>].status = "NONE" <=> reservations[<<i, b>>].status = "NONE"
    PROVE  ReservationInv'
<1>1. \A i \in Jobs : ReservedAttempt(i)' = ReservedAttempt(i)
  BY DEF ReservedAttempt, Moved
<1>2. ReservationFollowsLease'
  BY <1>1 DEF ReservationInv, ReservationFollowsLease
<1>3. StartedWasAdmitted'
  BY DEF ReservationInv, StartedWasAdmitted, Moved
<1>4. WaitingIsFree'
  BY MaxAttemptsPositive DEF ReservationInv, WaitingIsFree, Moved, Status, Absent
<1>5. ListingIsBehind'
  BY <1>1 DEF ReservationInv, ListingIsBehind, LocalsOK
<1>6. RunningIsReserved'
  <2> SUFFICES ASSUME NEW i \in Jobs, jobs'[i].status = "RUNNING", jobs'[i].lease_owner # None
               PROVE  HasActive(i, jobs[i].attempt_number)'
    BY DEF RunningIsReserved
  <2>1. i # j
    BY DEF Moved
  <2>2. jobs'[i] = jobs[i]
    BY <2>1 DEF Moved
  <2>3. HasActive(i, jobs[i].attempt_number)
    BY <2>2 DEF ReservationInv, RunningIsReserved
  <2>4. PICK n \in Attempts : n = jobs[i].attempt_number
    BY <2>3 DEF HasActive
  <2>5. HasActive(i, n)'
    BY <2>1, <2>3, <2>4
  <2> QED
    BY <2>2, <2>4, <2>5
<1> QED
  BY <1>2, <1>3, <1>4, <1>5, <1>6 DEF ReservationInv

\* The row part of finalize_attempt and reclaim_stale, seen through three columns.
LEMMA LeaveRunningMoves ==
    ASSUME TypeOK, NEW j \in Jobs, NEW to \in Status, NEW retry \in {"none", "waiting", "due"},
           LeaveRunning(j, to, retry)
    PROVE  Moved(j, to, jobs[j].attempt_number, None)
<1> DEFINE row == [jobs[j] EXCEPT !.status = to, !.lease_owner = None,
                                  !.lease = "none", !.next_retry = retry]
<1>1. jobs[j] \in JobRow
  BY DEF TypeOK
<1>2. row \in JobRow
  BY <1>1 DEF JobRow
<1>3. row.status = to /\ row.lease_owner = None /\ row.attempt_number = jobs[j].attempt_number
  BY <1>1 DEF JobRow
<1>4. jobs' = [jobs EXCEPT ![j] = row]
  BY DEF LeaveRunning
<1> HIDE DEF row
<1>5. Moved(j, row.status, row.attempt_number, row.lease_owner)
  BY <1>2, <1>4, MovedByRow
<1> QED
  BY <1>3, <1>5

\* What the transactions that change a job's status do to it.
LEMMA CreateMoves ==
    ASSUME ReservationInv, NEW j \in Jobs, CreateJob(j)
    PROVE  /\ Moved(j, "QUEUED", jobs[j].attempt_number, jobs[j].lease_owner)
           /\ jobs[j].status = Absent
<1>1. PICK q \in Requests :
         jobs' = [jobs EXCEPT ![j] = [NoRow EXCEPT !.status = "QUEUED", !.request = q]]
  BY DEF CreateJob
<1> DEFINE row == [NoRow EXCEPT !.status = "QUEUED", !.request = q]
<1>2. row \in JobRow
  BY NewRowTyped
<1>3. row.status = "QUEUED" /\ row.attempt_number = 0 /\ row.lease_owner = None
  BY DEF NoRow
<1> HIDE DEF row
<1>4. Moved(j, row.status, row.attempt_number, row.lease_owner)
  BY <1>1, <1>2, MovedByRow DEF ReservationInv, row
<1>5. jobs[j].attempt_number = 0 /\ jobs[j].lease_owner = None /\ jobs[j].status = Absent
  BY DEF CreateJob, ReservationInv, WaitingIsFree
<1> QED
  BY <1>3, <1>4, <1>5

\* conditional_transition changes a status its table allows, and neither attempt nor
\* lease.
LEMMA TransitionMoves ==
    ASSUME ReservationInv, NEW j \in Jobs, NEW to \in Status, conditional_transition(j, to)
    PROVE  /\ Moved(j, to, jobs[j].attempt_number, jobs[j].lease_owner)
           /\ jobs[j].status \in sources_for(to)
           /\ to \notin {"PENDING", "QUEUED"}
           /\ to = "RUNNING" => jobs[j].status = "QUEUED" /\ jobs[j].lease_owner = None
<1>t. TypeOK /\ jobs[j] \in JobRow
  BY DEF ReservationInv, TypeOK
<1> DEFINE row == [jobs[j] EXCEPT !.status = to]
<1>1. row \in JobRow
  BY <1>t, RowTyped
<1>2. /\ row.status = to
      /\ row.attempt_number = jobs[j].attempt_number
      /\ row.lease_owner = jobs[j].lease_owner
  BY <1>t DEF JobRow
<1>3. jobs' = [jobs EXCEPT ![j] = row] /\ jobs[j].status \in sources_for(to)
  BY DEF conditional_transition
<1>4. Moved(j, row.status, row.attempt_number, row.lease_owner)
  BY <1>t, <1>1, <1>3, MovedByRow
<1> HIDE DEF row
<1>5. jobs[j].status # "PENDING" /\ (jobs[j].status = "QUEUED" => jobs[j].lease_owner = None)
  BY DEF ReservationInv, WaitingIsFree
<1> QED
  BY <1>2, <1>3, <1>4, <1>5, Sources

\* claim starts the attempt the job holds the reservation of.
LEMMA ClaimMoves ==
    ASSUME ReservationInv, NEW w \in Workers, NEW j \in Jobs, Claim(w, j)
    PROVE  /\ Moved(j, "RUNNING", jobs[j].attempt_number + 1, w)
           /\ jobs[j].attempt_number \in Nat /\ jobs[j].attempt_number + 1 \in Attempts
           /\ HasActive(j, jobs[j].attempt_number + 1)
           /\ jobs[j].status = "QUEUED" /\ jobs[j].lease_owner = None
<1> DEFINE n == jobs[j].attempt_number
<1>t. TypeOK /\ jobs[j] \in JobRow /\ n \in Nat
  BY MaxAttemptsPositive DEF ReservationInv, TypeOK, JobRow
<1>1. /\ n + 1 \in Attempts /\ HasActive(j, n + 1)
      /\ jobs[j].status = "QUEUED" /\ jobs[j].lease_owner = None
  BY DEF Claim, Claimable, Eligible, HasActive, ReservationInv, WaitingIsFree
<1> DEFINE row == [jobs[j] EXCEPT !.status = "RUNNING", !.lease_owner = w, !.lease = "live",
                                  !.attempt_number = n + 1, !.next_retry = "none"]
<1>2. jobs' = [jobs EXCEPT ![j] = row]
  BY DEF Claim, claim
<1>3. row \in JobRow
  <2>1. n + 1 \in 0..MaxAttempts
    BY <1>t, <1>1, MaxAttemptsPositive DEF Attempts
  <2> QED
    BY <1>t, <2>1 DEF JobRow, Status
<1>4. row.status = "RUNNING" /\ row.attempt_number = n + 1 /\ row.lease_owner = w
  BY <1>t DEF JobRow
<1> HIDE DEF row
<1>5. Moved(j, row.status, row.attempt_number, row.lease_owner)
  BY <1>t, <1>2, <1>3, MovedByRow
<1> QED
  BY <1>t, <1>1, <1>4, <1>5

\* finalize_attempt ends the attempt, its lease and its reservation at once.
LEMMA FinalizeMoves ==
    ASSUME ReservationInv, NEW w \in Workers, Finalize(w)
    PROVE  \E j \in Jobs, to \in Status :
              /\ j = work[w].job /\ to = JobOutcome(w)
              /\ jobs[j].status = "RUNNING"
              /\ to \notin {"PENDING", "RUNNING"}
              /\ to = "QUEUED" => jobs[j].attempt_number < MaxAttempts
              /\ Moved(j, to, jobs[j].attempt_number, None)
              /\ ReleaseReservation(j, jobs[j].attempt_number)
<1> DEFINE j == work[w].job
           to == JobOutcome(w)
           retry == IF to = "QUEUED" THEN "waiting" ELSE jobs[j].next_retry
<1>1. /\ j \in Jobs /\ work[w].attempt = jobs[j].attempt_number /\ jobs[j].status = "RUNNING"
      /\ LeaveRunning(j, to, retry)
      /\ ReleaseReservation(j, jobs[j].attempt_number)
  BY DEF Finalize, Owns, ReservationInv, LocalsOK
<1>2. /\ to \in Status \ {"PENDING", "RUNNING"}
      /\ to = "QUEUED" => jobs[j].attempt_number < MaxAttempts
  BY <1>1 DEF JobOutcome, Status, is_retryable
<1>3. retry \in {"none", "waiting", "due"}
  BY <1>1 DEF ReservationInv, TypeOK, JobRow
<1> HIDE DEF j, to, retry
<1>4. Moved(j, to, jobs[j].attempt_number, None)
  BY <1>1, <1>2, <1>3, LeaveRunningMoves DEF ReservationInv
<1> QED
  BY <1>1, <1>2, <1>4 DEF j, to

\* reclaim_stale ends the attempt, its lease and its reservation at once.
LEMMA ReclaimMoves ==
    ASSUME ReservationInv, NEW r \in Recoveries, Reclaim(r)
    PROVE  \E j \in Jobs, to \in Status :
              /\ jobs[j].status = "RUNNING" /\ jobs[j].lease = "expired"
              /\ to \notin {"PENDING", "RUNNING"}
              /\ to = "QUEUED" => jobs[j].attempt_number < MaxAttempts
              /\ to = "FAILED" => jobs[j].attempt_number = MaxAttempts
              /\ to # "SUCCEEDED"
              /\ Moved(j, to, jobs[j].attempt_number, None)
              /\ mark_lost(j, jobs[j].attempt_number)
              /\ ReleaseReservation(j, jobs[j].attempt_number)
<1>1. PICK j \in recov[r].todo :
         /\ jobs[j].status = "RUNNING" /\ jobs[j].lease = "expired"
         /\ LeaveRunning(j, ReclaimTarget(j),
                         IF ReclaimTarget(j) = "QUEUED" THEN "waiting" ELSE "none")
         /\ mark_lost(j, jobs[j].attempt_number)
         /\ ReleaseReservation(j, jobs[j].attempt_number)
  BY DEF Reclaim
<1> DEFINE to == ReclaimTarget(j)
           retry == IF to = "QUEUED" THEN "waiting" ELSE "none"
<1>2. TypeOK /\ j \in Jobs
  BY DEF ReservationInv, TypeOK, RecoveryState
<1>3. jobs[j].attempt_number \in 0..MaxAttempts /\ MaxAttempts \in Int
  BY <1>2, MaxAttemptsPositive DEF TypeOK, JobRow
<1>4. /\ to \in Status \ {"PENDING", "RUNNING", "SUCCEEDED"}
      /\ to = "QUEUED" => jobs[j].attempt_number < MaxAttempts
      /\ to = "FAILED" => jobs[j].attempt_number = MaxAttempts
  BY <1>3 DEF ReclaimTarget, Status
<1>5. retry \in {"none", "waiting", "due"} /\ LeaveRunning(j, to, retry)
  BY <1>1
<1> HIDE DEF to, retry
<1>6. Moved(j, to, jobs[j].attempt_number, None)
  BY <1>2, <1>4, <1>5, LeaveRunningMoves
<1> QED
  BY <1>1, <1>2, <1>4, <1>6

\* The job requests keep the invariant: they move no attempt number and take no lease.
LEMMA ApiReservation == ReservationInv /\ Api => ReservationInv'
<1> SUFFICES ASSUME ReservationInv, Api PROVE ReservationInv'
  OBVIOUS
<1>0. TypeOK' /\ LocalsOK' /\ UNCHANGED sched
  BY ApiTyped DEF ReservationInv, Typed, Api
<1>t. TypeOK /\ jobs \in [Jobs -> JobRow]
  BY DEF ReservationInv, TypeOK
<1>k. UNCHANGED reservations =>
         \A i \in Jobs : \A b \in Attempts :
            /\ HasActive(i, b)' <=> HasActive(i, b)
            /\ reservations'[<<i, b>>].status = "NONE" <=> reservations[<<i, b>>].status = "NONE"
  BY DEF HasActive
<1>1. ASSUME NEW j \in Jobs, CreateJob(j) PROVE ReservationInv'
  <2>1. UNCHANGED reservations
    BY <1>1 DEF CreateJob
  <2> QED
    BY <1>0, <1>1, <1>k, <2>1, CreateMoves, ReservationMoved DEF Status
<1>2. ASSUME NEW j \in Jobs, PatchStatus(j) PROVE ReservationInv'
  <2>1. PICK to \in PatchTargets : conditional_transition(j, to)
    BY <1>2 DEF PatchStatus
  <2>2. UNCHANGED reservations /\ to \in Status
    BY <1>2, PatchTargetsAreStatuses DEF PatchStatus
  <2> QED
    BY <1>0, <1>k, <2>1, <2>2, TransitionMoves, ReservationMoved
<1>f. ASSUME NEW j \in Jobs, UNCHANGED reservations, NEW row \in JobRow,
             jobs' = [jobs EXCEPT ![j] = row],
             row.status = jobs[j].status, row.attempt_number = jobs[j].attempt_number,
             row.lease_owner = jobs[j].lease_owner
      PROVE  ReservationInv'
  BY <1>0, <1>f, <1>t, ReservationFrame
<1>3. ASSUME NEW j \in Jobs, UpdateConfig(j) PROVE ReservationInv'
  <2>1. PICK q \in Requests : jobs' = [jobs EXCEPT ![j] = [@ EXCEPT !.request = q]]
    BY <1>3 DEF UpdateConfig
  <2>2. [jobs[j] EXCEPT !.request = q] \in JobRow
    BY <1>t, RowTyped
  <2>3. UNCHANGED reservations
    BY <1>3 DEF UpdateConfig
  <2> QED
    BY <1>f, <1>t, <2>1, <2>2, <2>3 DEF JobRow
<1>4. ASSUME NEW j \in Jobs, DeleteJob(j) PROVE ReservationInv'
  <2>1. [jobs[j] EXCEPT !.deleted = TRUE] \in JobRow
    BY <1>t, RowTyped
  <2> QED
    BY <1>4, <1>f, <1>t, <2>1 DEF DeleteJob, JobRow
<1>5. ASSUME NEW c \in Clients, NEW j \in Jobs, CancelRead(c, j) PROVE ReservationInv'
  BY <1>5, <1>0, ReservationFrame DEF CancelRead, storeVars
<1>6. ASSUME NEW c \in Clients, CancelFast(c) PROVE ReservationInv'
  <2> DEFINE j == calls[c].job
  <2>1. /\ j \in Jobs /\ calls[c].attempt + 1 \in Nat
        /\ conditional_transition(j, "CANCELLED")
        /\ ReleaseReservation(j, calls[c].attempt + 1)
    BY <1>6, MaxAttemptsPositive
    DEF CancelFast, ReservationInv, LocalsOK, TypeOK, CallState
  <2> HIDE DEF j
  <2>2. \A i \in Jobs : \A b \in Attempts :
            /\ HasActive(i, b)' => HasActive(i, b)
            /\ i # j => (HasActive(i, b)' <=> HasActive(i, b))
            /\ reservations'[<<i, b>>].status = "NONE" <=> reservations[<<i, b>>].status = "NONE"
    BY <1>t, <2>1, ReleaseRows
  <2>3. Moved(j, "CANCELLED", jobs[j].attempt_number, jobs[j].lease_owner)
    <3>1. "CANCELLED" \in Status
      BY DEF Status
    <3> QED
      BY <2>1, <3>1, TransitionMoves
  <2> QED
    BY <1>0, <2>1, <2>2, <2>3, ReservationMoved DEF Status
<1>7. ASSUME NEW c \in Clients, CancelRequest(c) PROVE ReservationInv'
  <2> DEFINE j == calls[c].job
  <2>1. j \in Jobs /\ UNCHANGED reservations
        /\ jobs' = [jobs EXCEPT ![j] = [@ EXCEPT !.cancel_requested = TRUE]]
    BY <1>7 DEF CancelRequest, ReservationInv, LocalsOK
  <2> HIDE DEF j
  <2>2. [jobs[j] EXCEPT !.cancel_requested = TRUE] \in JobRow
    BY <1>t, <2>1, RowTyped
  <2> QED
    BY <1>f, <1>t, <2>1, <2>2 DEF JobRow
<1>8. ASSUME NEW c \in Clients, CancelMisses(c) PROVE ReservationInv'
  BY <1>8, <1>0, ReservationFrame DEF CancelMisses, storeVars
<1> QED
  BY <1>1, <1>2, <1>3, <1>4, <1>5, <1>6, <1>7, <1>8 DEF Api

\* The scheduler keeps the invariant: what its listing shows is never ahead of the job.
LEMMA SchedulerReservation ==
    ASSUME NEW s \in Schedulers PROVE ReservationInv /\ Scheduler(s) => ReservationInv'
<1> SUFFICES ASSUME ReservationInv, Scheduler(s) PROVE ReservationInv'
  OBVIOUS
<1>0. TypeOK' /\ LocalsOK'
  BY SchedulerTyped DEF ReservationInv, Typed
<1>t. /\ TypeOK /\ LocalsOK /\ ListingIsBehind
      /\ jobs \in [Jobs -> JobRow] /\ sched \in [Schedulers -> SchedState]
  BY DEF ReservationInv, TypeOK
<1>f. ASSUME UNCHANGED <<jobs, reservations>>, NEW new, sched' = [sched EXCEPT ![s] = new],
             new.pc = "reserve" => new.eligible,
             new.pc \in {"check", "reserve"} /\ new.eligible =>
                /\ new.attempt \in Attempts
                /\ new.attempt <= ReservedAttempt(new.job)
      PROVE  ReservationInv'
  <2>1. \A j : ReservedAttempt(j)' = ReservedAttempt(j)
    BY <1>f DEF ReservedAttempt
  <2>2. ListingIsBehind'
    BY <1>f, <1>t, <2>1 DEF ListingIsBehind
  <2>3. ReservationFollowsLease' /\ StartedWasAdmitted' /\ WaitingIsFree' /\ RunningIsReserved'
    BY <1>f, <2>1 DEF ReservationInv, ReservationFollowsLease, StartedWasAdmitted,
                      WaitingIsFree, RunningIsReserved, HasActive
  <2> QED
    BY <1>0, <2>2, <2>3 DEF ReservationInv
<1>l. ASSUME NEW j \in Jobs, NEW todo, NEW n, LoadCandidate(s, j, todo, n), UNCHANGED storeVars
      PROVE  ReservationInv'
  <2> DEFINE new == [pc |-> "check", todo |-> todo \ {j}, job |-> j,
                     attempt |-> jobs[j].attempt_number + 1, amount |-> jobs[j].request,
                     eligible |-> /\ jobs[j].status = "QUEUED"
                                  /\ ~jobs[j].cancel_requested
                                  /\ jobs[j].next_retry # "waiting",
                     admitted |-> n]
  <2>1. sched' = [sched EXCEPT ![s] = new] /\ UNCHANGED <<jobs, reservations>>
    BY <1>l DEF LoadCandidate, storeVars
  <2>2. /\ new.pc = "check" /\ new.job = j
        /\ new.attempt = jobs[j].attempt_number + 1
        /\ new.eligible => jobs[j].status = "QUEUED"
    OBVIOUS
  <2>3. jobs[j].attempt_number \in 0..MaxAttempts
    BY <1>t DEF JobRow
  <2>4. jobs[j].status = "QUEUED" =>
           jobs[j].lease_owner = None /\ jobs[j].attempt_number < MaxAttempts
    BY DEF ReservationInv, WaitingIsFree
  <2> HIDE DEF new
  <2>5. new.eligible => new.attempt \in Attempts /\ new.attempt <= ReservedAttempt(new.job)
    BY <2>2, <2>3, <2>4, MaxAttemptsPositive DEF ReservedAttempt, Attempts
  <2> QED
    BY <1>f, <2>1, <2>2, <2>5
<1>c. ASSUME NEW n, Continue(s, n), UNCHANGED <<jobs, reservations>> PROVE ReservationInv'
  <2> DEFINE next == [SchedIdle EXCEPT !.pc = "next", !.todo = sched[s].todo, !.admitted = n]
  <2>1. next.pc = "next" /\ SchedIdle.pc = "idle"
    BY DEF SchedIdle
  <2>2. sched' = [sched EXCEPT ![s] = SchedIdle] \/ sched' = [sched EXCEPT ![s] = next]
    BY <1>c DEF Continue
  <2> HIDE DEF next
  <2> QED
    BY <1>c, <1>f, <2>1, <2>2
<1>i. ASSUME sched' = [sched EXCEPT ![s] = SchedIdle], UNCHANGED storeVars PROVE ReservationInv'
  <2>1. SchedIdle.pc = "idle" /\ UNCHANGED <<jobs, reservations>>
    BY <1>i DEF SchedIdle, storeVars
  <2> QED
    BY <1>f, <1>i, <2>1
<1>1. CASE StartPass(s)
  BY <1>1, <1>l DEF StartPass, list_schedulable
<1>2. CASE NextCandidate(s)
  <2>1. sched[s].todo \subseteq Jobs
    BY <1>t DEF SchedState
  <2> QED
    BY <1>2, <1>l, <2>1 DEF NextCandidate
<1>3. CASE Recheck(s)
  <2> DEFINE new == [sched[s] EXCEPT !.pc = "reserve"]
  <2>1. sched' = [sched EXCEPT ![s] = new] /\ UNCHANGED <<jobs, reservations>>
    BY <1>3 DEF Recheck, storeVars
  <2>2. new.eligible /\ new.attempt = sched[s].attempt /\ new.job = sched[s].job
    BY <1>3, <1>t DEF Recheck, SchedState
  <2>3. sched[s].attempt \in Attempts /\ sched[s].attempt <= ReservedAttempt(sched[s].job)
    BY <1>3, <1>t DEF Recheck, ListingIsBehind
  <2> HIDE DEF new
  <2> QED
    BY <1>f, <2>1, <2>2, <2>3
<1>4. CASE RecheckRejects(s)
  BY <1>4, <1>c DEF RecheckRejects
<1>5. CASE Reserve(s)
  <2> DEFINE j == sched[s].job
             a == sched[s].attempt
             row == [status |-> "ACTIVE", amount |-> sched[s].amount]
             new == [sched[s] EXCEPT !.pc = "record"]
  <2>1. /\ j \in Jobs /\ a \in Attempts /\ a <= ReservedAttempt(j)
        /\ reservations[<<j, a>>].status = "NONE"
        /\ reservations' = [reservations EXCEPT ![<<j, a>>] = row]
        /\ sched' = [sched EXCEPT ![s] = new]
        /\ UNCHANGED jobs
    BY <1>5, <1>t DEF Reserve, KeyIsFree, LocalsOK, ListingIsBehind
  <2>2. row.status = "ACTIVE" /\ new.pc = "record"
    BY <1>t DEF SchedState
  <2> HIDE DEF j, a, row, new
  <2>3. \A i \in Jobs : \A b \in Attempts :
           reservations'[<<i, b>>] = IF i = j /\ b = a THEN row ELSE reservations[<<i, b>>]
    BY <1>t, <2>1 DEF TypeOK
  <2>4. \A i \in Jobs : \A b \in Attempts :
           HasActive(i, b)' <=> HasActive(i, b) \/ (i = j /\ b = a)
    BY <2>2, <2>3 DEF HasActive
  <2>5. \A i : ReservedAttempt(i)' = ReservedAttempt(i)
    BY <2>1 DEF ReservedAttempt
  <2>6. a = ReservedAttempt(j)
    <3>1. ~(a <= jobs[j].attempt_number)
      BY <2>1 DEF ReservationInv, StartedWasAdmitted
    <3>2. jobs[j].attempt_number \in Nat /\ a \in Nat
      BY <1>t, <2>1, MaxAttemptsPositive DEF JobRow, Attempts
    <3> QED
      BY <2>1, <3>1, <3>2 DEF ReservedAttempt
  <2>7. ReservationFollowsLease'
    BY <2>4, <2>5, <2>6 DEF ReservationInv, ReservationFollowsLease
  <2>8. StartedWasAdmitted'
    BY <2>1, <2>2, <2>3 DEF ReservationInv, StartedWasAdmitted
  <2>9. WaitingIsFree'
    BY <2>1 DEF ReservationInv, WaitingIsFree
  <2>10. ListingIsBehind'
    BY <1>t, <2>1, <2>2, <2>5 DEF ListingIsBehind
  <2>11. RunningIsReserved'
    <3> SUFFICES ASSUME NEW i \in Jobs, jobs[i].status = "RUNNING", jobs[i].lease_owner # None
                 PROVE  HasActive(i, jobs[i].attempt_number)'
      BY <2>1 DEF RunningIsReserved
    <3>1. PICK n \in Attempts : n = jobs[i].attempt_number /\ HasActive(i, n)
      BY DEF ReservationInv, RunningIsReserved, HasActive
    <3> QED
      BY <2>1, <2>4, <3>1
  <2> QED
    BY <1>0, <2>7, <2>8, <2>9, <2>10, <2>11 DEF ReservationInv
<1>6. CASE ReserveConflicts(s)
  BY <1>6, <1>i DEF ReserveConflicts
<1>7. CASE ReserveRejects(s)
  BY <1>7, <1>c DEF ReserveRejects
<1>8. CASE RecordAdmitted(s)
  BY <1>8, <1>c DEF RecordAdmitted
<1>9. CASE SchedulerCrash(s)
  BY <1>9, <1>i DEF SchedulerCrash
<1> QED
  BY <1>1, <1>2, <1>3, <1>4, <1>5, <1>6, <1>7, <1>8, <1>9 DEF Scheduler, SchedulerStep

\* The relay touches no job and no reservation.
LEMMA RelayReservation == ReservationInv /\ Relay => ReservationInv'
<1> SUFFICES ASSUME ReservationInv, Relay PROVE ReservationInv'
  OBVIOUS
<1>1. TypeOK' /\ LocalsOK'
  BY RelayTyped DEF ReservationInv, Typed
<1>2. UNCHANGED <<jobs, reservations, sched>>
  BY DEF Relay, RelayStep, Publish, MarkPublished, RelayCrash, storeVars
<1> QED
  BY <1>1, <1>2, ReservationFrame

\* Nor does the clock, beyond the lease and retry timestamps.
LEMMA ClockReservation == ReservationInv /\ Clock => ReservationInv'
<1> SUFFICES ASSUME ReservationInv, Clock PROVE ReservationInv'
  OBVIOUS
<1>1. TypeOK' /\ LocalsOK' /\ jobs \in [Jobs -> JobRow]
  BY ClockTyped DEF ReservationInv, Typed, TypeOK
<1>2. UNCHANGED <<reservations, sched>>
  BY DEF Clock, LeaseExpires, RetryDue
<1>3. \A j \in Jobs : /\ jobs'[j].status = jobs[j].status
                      /\ jobs'[j].attempt_number = jobs[j].attempt_number
                      /\ jobs'[j].lease_owner = jobs[j].lease_owner
  BY <1>1 DEF Clock, LeaseExpires, RetryDue, JobRow
<1> QED
  BY <1>1, <1>2, <1>3, ReservationFrame

\* Leaving RUNNING gives up the lease and the reservation of the current attempt.
LEMMA ReservationEnds ==
    ASSUME ReservationInv, TypeOK', LocalsOK', UNCHANGED sched, NEW j \in Jobs,
           NEW to \in Status, to \notin {"PENDING", "RUNNING"},
           to = "QUEUED" => jobs[j].attempt_number < MaxAttempts,
           Moved(j, to, jobs[j].attempt_number, None),
           ReleaseReservation(j, jobs[j].attempt_number)
    PROVE  ReservationInv'
<1>t. TypeOK /\ \A i \in Jobs : jobs[i].attempt_number \in Nat
  BY MaxAttemptsPositive DEF ReservationInv, TypeOK, JobRow
<1>r. \A i \in Jobs : \A b \in Attempts :
         /\ HasActive(i, b)' <=> HasActive(i, b) /\ ~(i = j /\ b = jobs[j].attempt_number)
         /\ reservations'[<<i, b>>].status = "NONE" <=> reservations[<<i, b>>].status = "NONE"
  BY <1>t, ReleaseRows
<1>1. /\ \A i \in Jobs : i # j => ReservedAttempt(i)' = ReservedAttempt(i)
      /\ ReservedAttempt(j)' = jobs[j].attempt_number + 1
      /\ ReservedAttempt(j) \in {jobs[j].attempt_number, jobs[j].attempt_number + 1}
  BY <1>t DEF ReservedAttempt, Moved
<1>2. ReservationFollowsLease'
  <2> SUFFICES ASSUME NEW i \in Jobs, NEW b \in Attempts, HasActive(i, b)'
               PROVE  b = ReservedAttempt(i)'
    BY DEF ReservationFollowsLease
  <2>1. HasActive(i, b) /\ ~(i = j /\ b = jobs[j].attempt_number)
    BY <1>r
  <2>2. b = ReservedAttempt(i)
    BY <2>1 DEF ReservationInv, ReservationFollowsLease
  <2>3. CASE i = j
    BY ONLY <1>1, <2>1, <2>2, <2>3
  <2>4. CASE i # j
    BY ONLY <1>1, <2>2, <2>4, i \in Jobs
  <2> QED
    BY <2>3, <2>4
<1>3. StartedWasAdmitted'
  BY <1>r DEF ReservationInv, StartedWasAdmitted, Moved
<1>4. WaitingIsFree'
  BY DEF ReservationInv, WaitingIsFree, Moved, Status, Absent
<1>5. ListingIsBehind'
  <2> SUFFICES ASSUME NEW s \in Schedulers,
                      sched[s].pc \in {"check", "reserve"}, sched[s].eligible
               PROVE  sched[s].attempt <= ReservedAttempt(sched[s].job)'
    BY DEF ListingIsBehind, ReservationInv
  <2>1. /\ sched[s].attempt \in Attempts /\ sched[s].job \in Jobs
        /\ sched[s].attempt <= ReservedAttempt(sched[s].job)
    BY DEF ListingIsBehind, ReservationInv, LocalsOK
  <2>2. PICK i \in Jobs : i = sched[s].job
    BY <2>1
  <2>3. ReservedAttempt(i) <= ReservedAttempt(i)' /\ ReservedAttempt(i)' \in Nat
        /\ ReservedAttempt(i) \in Nat
    BY <1>t, <1>1 DEF ReservedAttempt
  <2>4. sched[s].attempt <= ReservedAttempt(i)'
    BY <2>1, <2>2, <2>3 DEF Attempts
  <2> QED
    BY <2>2, <2>4
<1>6. RunningIsReserved'
  <2> SUFFICES ASSUME NEW i \in Jobs, jobs'[i].status = "RUNNING", jobs'[i].lease_owner # None
               PROVE  HasActive(i, jobs[i].attempt_number)'
    BY DEF RunningIsReserved
  <2>1. i # j /\ jobs'[i] = jobs[i]
    BY DEF Moved
  <2>2. PICK n \in Attempts : n = jobs[i].attempt_number /\ HasActive(i, n)
    BY <2>1 DEF ReservationInv, RunningIsReserved, HasActive
  <2> QED
    BY <1>r, <2>1, <2>2
<1> QED
  BY <1>2, <1>3, <1>4, <1>5, <1>6 DEF ReservationInv

\* The worker keeps the invariant: its two writes to jobs are ClaimMoves and FinalizeMoves.
LEMMA WorkerReservation ==
    ASSUME NEW w \in Workers PROVE ReservationInv /\ Worker(w) => ReservationInv'
<1> SUFFICES ASSUME ReservationInv, Worker(w) PROVE ReservationInv'
  OBVIOUS
<1>0. TypeOK' /\ LocalsOK' /\ UNCHANGED sched
  BY WorkerTyped DEF ReservationInv, Typed, Worker
<1>t. TypeOK /\ LocalsOK /\ jobs \in [Jobs -> JobRow]
  BY DEF ReservationInv, TypeOK
<1>f. ASSUME UNCHANGED <<jobs, reservations>> PROVE ReservationInv'
  BY <1>0, <1>f, ReservationFrame
<1>1. ASSUME NEW j \in Jobs, Claim(w, j) PROVE ReservationInv'
  <2> DEFINE n == jobs[j].attempt_number
  <2>1. UNCHANGED reservations
    BY <1>1 DEF Claim
  <2>2. /\ Moved(j, "RUNNING", n + 1, w)
        /\ n \in Nat /\ n + 1 \in Attempts /\ HasActive(j, n + 1)
        /\ jobs[j].status = "QUEUED" /\ jobs[j].lease_owner = None
    BY <1>1, ClaimMoves
  <2>3. \A i \in Jobs : \A b \in Attempts : HasActive(i, b)' <=> HasActive(i, b)
    BY <2>1 DEF HasActive
  <2>4. \A i \in Jobs : ReservedAttempt(i)' = ReservedAttempt(i)
    BY <2>2, WorkersAreNotNull DEF ReservedAttempt, Moved
  <2>5. ReservationFollowsLease'
    BY <2>3, <2>4 DEF ReservationInv, ReservationFollowsLease
  <2>6. StartedWasAdmitted'
    <3> SUFFICES ASSUME NEW i \in Jobs, NEW b \in Attempts, b <= jobs'[i].attempt_number
                 PROVE  reservations[<<i, b>>].status # "NONE"
      BY <2>1 DEF StartedWasAdmitted
    <3>1. CASE i # j \/ b <= n
      BY <2>2, <3>1 DEF Moved, ReservationInv, StartedWasAdmitted
    <3>2. CASE i = j /\ ~(b <= n)
      <4>1. b = n + 1
        BY <2>2, <3>2 DEF Moved, Attempts
      <4> QED
        BY <2>2, <3>2, <4>1 DEF HasActive
    <3> QED
      BY <3>1, <3>2
  <2>7. WaitingIsFree'
    BY <2>2 DEF ReservationInv, WaitingIsFree, Moved, Absent
  <2>8. ListingIsBehind'
    BY <1>0, <1>t, <2>4 DEF ReservationInv, ListingIsBehind, LocalsOK
  <2>9. RunningIsReserved'
    <3> SUFFICES ASSUME NEW i \in Jobs, jobs'[i].status = "RUNNING", jobs'[i].lease_owner # None
                 PROVE  HasActive(i, jobs[i].attempt_number)'
      BY DEF RunningIsReserved
    <3>1. PICK m \in Attempts : m = jobs'[i].attempt_number /\ HasActive(i, m)
      BY <2>2 DEF Moved, ReservationInv, RunningIsReserved, HasActive
    <3> QED
      BY <2>3, <3>1
  <2> QED
    BY <1>0, <2>5, <2>6, <2>7, <2>8, <2>9 DEF ReservationInv
<1>2. ASSUME NEW j \in Jobs, NotClaimed(w, j) \/ ClaimRaises(w, j) PROVE ReservationInv'
  BY <1>2, <1>f DEF NotClaimed, ClaimRaises, storeVars
<1>3. CASE Reload(w) \/ InsertAttempt(w) \/ StartExecutor(w) \/ FinishExecutor(w) \/ Abandon(w)
  BY <1>3, <1>f DEF Reload, InsertAttempt, StartExecutor, FinishExecutor, Abandon, storeVars
<1>4. CASE Heartbeat(w)
  <2>1. \A j \in Jobs : /\ jobs'[j].status = jobs[j].status
                        /\ jobs'[j].attempt_number = jobs[j].attempt_number
                        /\ jobs'[j].lease_owner = jobs[j].lease_owner
    BY <1>4, <1>t DEF Heartbeat, JobRow
  <2>2. UNCHANGED reservations
    BY <1>4 DEF Heartbeat
  <2> QED
    BY <1>0, <2>1, <2>2, ReservationFrame
<1>5. CASE Finalize(w)
  BY <1>0, <1>5, FinalizeMoves, ReservationEnds
<1>6. CASE FinalizeRejected(w) \/ WorkerCrash(w) \/ WorkerRaises(w) \/ Redeliver(w)
  BY <1>6, <1>f DEF FinalizeRejected, WorkerCrash, WorkerRaises, Redeliver, storeVars
<1> QED
  BY <1>1, <1>2, <1>3, <1>4, <1>5, <1>6 DEF Worker, WorkerStep

\* Recovery keeps the invariant: its write to jobs is ReclaimMoves.
LEMMA RecoveryReservation ==
    ASSUME NEW r \in Recoveries PROVE ReservationInv /\ Recovery(r) => ReservationInv'
<1> SUFFICES ASSUME ReservationInv, Recovery(r) PROVE ReservationInv'
  OBVIOUS
<1>0. TypeOK' /\ LocalsOK' /\ UNCHANGED sched
  BY RecoveryTyped DEF ReservationInv, Typed, Recovery
<1>t. TypeOK /\ jobs \in [Jobs -> JobRow] /\ recov[r].todo \subseteq Jobs
  BY DEF ReservationInv, TypeOK, RecoveryState
<1>f. ASSUME UNCHANGED <<jobs, reservations>> PROVE ReservationInv'
  BY <1>0, <1>f, ReservationFrame
<1>1. CASE ListStale(r) \/ ReclaimLoses(r) \/ ListDue(r) \/ Dispatch(r) \/ RecoveryCrash(r)
  BY <1>1, <1>f DEF ListStale, ReclaimLoses, ListDue, Dispatch, RecoveryCrash, storeVars
<1>2. CASE Reclaim(r)
  BY <1>0, <1>2, ReclaimMoves, ReservationEnds
<1>3. CASE ClearRetry(r)
  <2>1. \A j \in Jobs : /\ jobs'[j].status = jobs[j].status
                        /\ jobs'[j].attempt_number = jobs[j].attempt_number
                        /\ jobs'[j].lease_owner = jobs[j].lease_owner
    BY <1>3, <1>t DEF ClearRetry, JobRow
  <2>2. UNCHANGED reservations
    BY <1>3 DEF ClearRetry
  <2> QED
    BY <1>0, <2>1, <2>2, ReservationFrame
<1> QED
  BY <1>1, <1>2, <1>3 DEF Recovery, RecoveryStep

-----------------------------------------------------------------------------
\* Nothing runs, nothing is reserved and nothing is listed at first.
LEMMA ReservationInit == Init => ReservationInv
<1> SUFFICES ASSUME Init PROVE ReservationInv
  OBVIOUS
<1>1. TypeOK /\ LocalsOK
  BY TypedInit DEF Typed
<1>2. \A j \in Jobs : /\ jobs[j].status = Absent /\ jobs[j].attempt_number = 0
                      /\ jobs[j].lease_owner = None
  BY DEF Init, StoreInit, NoRow
<1>3. \A j \in Jobs : \A a \in Attempts : ~HasActive(j, a)
  BY DEF Init, StoreInit, HasActive
<1>4. \A s \in Schedulers : sched[s].pc = "idle"
  BY DEF Init, SchedInit, SchedIdle
<1> QED
  BY <1>1, <1>2, <1>3, <1>4
  DEF ReservationInv, ReservationFollowsLease, StartedWasAdmitted, WaitingIsFree,
      ListingIsBehind, RunningIsReserved, Absent, Attempts

\* The invariant is inductive.
LEMMA ReservationStep == ReservationInv /\ [Next]_vars => ReservationInv'
<1>1. ASSUME ReservationInv, UNCHANGED vars PROVE ReservationInv'
  <2>1. TypeOK' /\ LocalsOK'
    BY <1>1, TypedStep DEF ReservationInv, Typed
  <2>2. UNCHANGED <<jobs, reservations, sched>>
    BY <1>1 DEF vars, storeVars
  <2> QED
    BY <1>1, <2>1, <2>2, ReservationFrame
<1> QED
  BY <1>1, ApiReservation, SchedulerReservation, RelayReservation, WorkerReservation,
     RecoveryReservation, ClockReservation DEF Next

\* In every reachable state an ACTIVE reservation belongs to the attempt its job runs,
\* or is about to start (claim, finalize_attempt, reclaim_stale, try_admit).
THEOREM ReservationInvariant == Spec => []ReservationInv
BY ReservationInit, ReservationStep, PTL DEF Spec

\* A job that a worker holds the lease of runs on the reservation of its attempt.
THEOREM RunningJobIsReserved == Spec => []RunningIsReserved
<1>1. ReservationInv => RunningIsReserved
  BY DEF ReservationInv
<1> QED
  BY <1>1, ReservationInvariant, PTL

\* No job ever holds two reservations.
THEOREM NoJobReservesTwice == Spec => []NoDoubleReservation
<1>1. ReservationInv => NoDoubleReservation
  BY DEF ReservationInv, ReservationFollowsLease, NoDoubleReservation
<1> QED
  BY <1>1, ReservationInvariant, PTL

-----------------------------------------------------------------------------
(* The capacity counter is always what the ACTIVE reservations add up to. *)

\* The units of dimension d that one row stands for.
Units(k, amount, d) == {k} \X (1..amount[d])

\* Holding an amount of a dimension is holding that many units of it.
LEMMA UnitsCount ==
    ASSUME NEW k, NEW amount \in [Dims -> Nat], NEW d \in Dims
    PROVE  IsFiniteSet(Units(k, amount, d)) /\ Cardinality(Units(k, amount, d)) = amount[d]
<1>1. IsFiniteSet({k}) /\ Cardinality({k}) = 1
  BY FS_Singleton
<1>2. amount[d] \in Nat
  OBVIOUS
<1>3. IsFiniteSet(1..amount[d]) /\ Cardinality(1..amount[d]) = amount[d]
  BY <1>2, FS_Interval
<1>4. /\ IsFiniteSet({k} \X (1..amount[d]))
      /\ Cardinality({k} \X (1..amount[d])) = Cardinality({k}) * Cardinality(1..amount[d])
  BY <1>1, <1>3, FS_Product
<1>5. 1 * amount[d] = amount[d]
  BY <1>2
<1> QED
  BY <1>1, <1>3, <1>4, <1>5 DEF Units

\* Two disjoint finite sets.
LEMMA DisjointCount ==
    ASSUME NEW S, NEW T, IsFiniteSet(S), IsFiniteSet(T), S \cap T = {}
    PROVE  IsFiniteSet(S \cup T) /\ Cardinality(S \cup T) = Cardinality(S) + Cardinality(T)
<1>1. Cardinality(S) \in Nat /\ Cardinality(T) \in Nat
  BY FS_CardinalityType
<1> QED
  BY <1>1, FS_Union, FS_EmptySet

\* Accounting, with what its proof needs besides.
Balanced ==
    /\ Conservation
    /\ \A d \in Dims : IsFiniteSet(HeldUnits(d))

\* A reservation that becomes ACTIVE adds its units.
LEMMA BalancedReserve ==
    ASSUME TypeOK, Balanced, NEW k \in Jobs \X Attempts, NEW amount \in Requests \cup {Nothing},
           reservations[k].status # "ACTIVE",
           reservations' = [reservations EXCEPT ![k] = [status |-> "ACTIVE", amount |-> amount]],
           capacity' = [d \in Dims |-> capacity[d] + amount[d]],
           Fits(amount)
    PROVE  Balanced'
<1> SUFFICES ASSUME NEW d \in Dims
             PROVE  /\ capacity'[d] = Cardinality(HeldUnits(d)')
                    /\ capacity'[d] <= Total[d]
                    /\ IsFiniteSet(HeldUnits(d)')
  BY DEF Balanced, Conservation
<1>0. /\ reservations \in [Jobs \X Attempts -> ReservationRow] /\ capacity \in [Dims -> Int]
      /\ amount \in [Dims -> Nat]
  BY Amounts DEF TypeOK
<1>1. /\ reservations'[k].status = "ACTIVE" /\ reservations'[k].amount = amount
      /\ \A r \in Jobs \X Attempts : r # k => reservations'[r] = reservations[r]
  BY <1>0
<1>2. HeldUnits(d)' = HeldUnits(d) \cup Units(k, amount, d)
  BY <1>1 DEF HeldUnits, Units
<1>3. HeldUnits(d) \cap Units(k, amount, d) = {}
  BY DEF HeldUnits, Units
<1>4. /\ IsFiniteSet(HeldUnits(d)) /\ capacity[d] = Cardinality(HeldUnits(d))
      /\ IsFiniteSet(Units(k, amount, d)) /\ Cardinality(Units(k, amount, d)) = amount[d]
  BY <1>0, UnitsCount DEF Balanced, Conservation
<1>5. IsFiniteSet(HeldUnits(d)') /\ Cardinality(HeldUnits(d)') = capacity[d] + amount[d]
  BY <1>2, <1>3, <1>4, DisjointCount
<1>6. capacity'[d] = capacity[d] + amount[d] /\ capacity[d] + amount[d] <= Total[d]
  BY DEF Fits
<1> QED
  BY <1>5, <1>6

\* A release takes the units of the row away, whatever the job asks for by now.
LEMMA BalancedRelease ==
    ASSUME TypeOK, TypeOK', Balanced, NEW j \in Jobs, NEW a \in Nat, ReleaseReservation(j, a)
    PROVE  Balanced'
<1>1. CASE ~HasActive(j, a)
  BY <1>1 DEF ReleaseReservation, Balanced, Conservation, HeldUnits
<1>2. CASE HasActive(j, a)
  <2> DEFINE k == <<j, a>>
             amount == reservations[k].amount
  <2>1. /\ k \in Jobs \X Attempts /\ reservations[k].status = "ACTIVE"
        /\ reservations' = [reservations EXCEPT ![k] = [@ EXCEPT !.status = "RELEASED"]]
        /\ capacity' = [d \in Dims |-> capacity[d] - amount[d]]
    BY <1>2 DEF HasActive, ReleaseReservation
  <2>2. reservations \in [Jobs \X Attempts -> ReservationRow] /\ capacity \in [Dims -> Int]
    BY DEF TypeOK
  <2>3. amount \in [Dims -> Nat]
    BY <2>1, <2>2, Amounts DEF ReservationRow
  <2>4. /\ reservations'[k].status = "RELEASED"
        /\ \A r \in Jobs \X Attempts : r # k => reservations'[r] = reservations[r]
    BY <2>1, <2>2 DEF ReservationRow
  <2> HIDE DEF k
  <2> SUFFICES ASSUME NEW d \in Dims
               PROVE  /\ capacity'[d] = Cardinality(HeldUnits(d)')
                      /\ capacity'[d] <= Total[d]
                      /\ IsFiniteSet(HeldUnits(d)')
    BY DEF Balanced, Conservation
  <2>5. HeldUnits(d) = HeldUnits(d)' \cup Units(k, amount, d)
    BY <2>1, <2>4 DEF HeldUnits, Units
  <2>6. HeldUnits(d)' \cap Units(k, amount, d) = {}
    BY <2>4 DEF HeldUnits, Units
  <2> HIDE DEF amount
  <2>7. /\ IsFiniteSet(HeldUnits(d)) /\ capacity[d] = Cardinality(HeldUnits(d))
        /\ capacity[d] <= Total[d]
        /\ IsFiniteSet(Units(k, amount, d)) /\ Cardinality(Units(k, amount, d)) = amount[d]
    BY <2>3, UnitsCount DEF Balanced, Conservation
  <2>8. IsFiniteSet(HeldUnits(d)')
    BY <2>5, <2>7, FS_Subset
  <2>9. capacity[d] = Cardinality(HeldUnits(d)') + amount[d]
    BY <2>5, <2>6, <2>7, <2>8, DisjointCount
  <2>10. capacity'[d] = capacity[d] - amount[d] /\ amount[d] \in Nat /\ Total[d] \in Nat
    BY <2>1, <2>3, TotalIsAmount
  <2>11. Cardinality(HeldUnits(d)') \in Nat
    BY <2>8, FS_CardinalityType
  <2> QED
    BY <2>7, <2>8, <2>9, <2>10, <2>11
<1> QED
  BY <1>1, <1>2

\* No other statement touches the rows or the counter.
LEMMA BalancedFrame ==
    ASSUME Balanced, UNCHANGED <<reservations, capacity>> PROVE Balanced'
BY DEF Balanced, Conservation, HeldUnits

\* Nothing is reserved at first, and the capacity counters are zero.
LEMMA BalancedInit == Init => Balanced
<1> SUFFICES ASSUME Init PROVE Balanced
  OBVIOUS
<1>1. \A d \in Dims : HeldUnits(d) = {}
  BY DEF HeldUnits, Init, StoreInit
<1>2. \A d \in Dims : capacity[d] = 0 /\ Total[d] \in Nat
  BY TotalIsAmount DEF Init, StoreInit, Nothing
<1> QED
  BY <1>1, <1>2, FS_EmptySet DEF Balanced, Conservation

\* Every step keeps the counters equal to the units held: it reserves, releases, or
\* touches neither.
LEMMA BalancedStep == ReservationInv /\ Balanced /\ [Next]_vars => Balanced'
<1> SUFFICES ASSUME ReservationInv, Balanced, [Next]_vars PROVE Balanced'
  OBVIOUS
<1>t. TypeOK /\ LocalsOK /\ TypeOK' /\ ListingIsBehind
  BY TypedStep DEF ReservationInv, Typed
<1>f. ASSUME UNCHANGED <<reservations, capacity>> PROVE Balanced'
  BY <1>f, BalancedFrame
<1>1. CASE Api
  <2>1. ASSUME NEW c \in Clients, CancelFast(c) PROVE Balanced'
    <3>1. calls[c].job \in Jobs /\ calls[c].attempt + 1 \in Nat
      BY <1>t, <2>1, MaxAttemptsPositive DEF CancelFast, LocalsOK, TypeOK, CallState
    <3> QED
      BY <1>t, <2>1, <3>1, BalancedRelease DEF CancelFast
  <2>2. ASSUME NEW j \in Jobs, CreateJob(j) \/ PatchStatus(j) \/ UpdateConfig(j) \/ DeleteJob(j)
        PROVE  Balanced'
    BY <1>f, <2>2 DEF CreateJob, PatchStatus, UpdateConfig, DeleteJob
  <2>3. ASSUME NEW c \in Clients, NEW j \in Jobs, CancelRead(c, j) PROVE Balanced'
    BY <1>f, <2>3 DEF CancelRead, storeVars
  <2>4. ASSUME NEW c \in Clients, CancelRequest(c) \/ CancelMisses(c) PROVE Balanced'
    BY <1>f, <2>4 DEF CancelRequest, CancelMisses, storeVars
  <2> QED
    BY <1>1, <2>1, <2>2, <2>3, <2>4 DEF Api
<1>2. ASSUME NEW s \in Schedulers, Scheduler(s) PROVE Balanced'
  <2>1. CASE Reserve(s)
    <3> DEFINE k == <<sched[s].job, sched[s].attempt>>
               amount == sched[s].amount
    <3>1. k \in Jobs \X Attempts /\ amount \in Requests \cup {Nothing}
      BY <1>t, <2>1 DEF Reserve, LocalsOK, ListingIsBehind, ReservationInv, TypeOK, SchedState
    <3>2. /\ reservations[k].status = "NONE" /\ Fits(amount)
          /\ reservations' = [reservations EXCEPT ![k] = [status |-> "ACTIVE", amount |-> amount]]
          /\ capacity' = [d \in Dims |-> capacity[d] + amount[d]]
      BY <2>1 DEF Reserve, KeyIsFree
    <3> HIDE DEF k, amount
    <3> QED
      BY <1>t, <3>1, <3>2, BalancedReserve
  <2>2. CASE ~Reserve(s)
    BY <1>2, <1>f, <2>2 DEF Scheduler, SchedulerStep, SchedulerCrash, StartPass, NextCandidate,
       Recheck, RecheckRejects, ReserveConflicts, ReserveRejects, RecordAdmitted, storeVars
  <2> QED
    BY <2>1, <2>2
<1>3. CASE Relay
  BY <1>3, <1>f DEF Relay, RelayStep, Publish, MarkPublished, RelayCrash, storeVars
<1>4. ASSUME NEW w \in Workers, Worker(w) PROVE Balanced'
  <2>1. CASE Finalize(w)
    <3>1. PICK j \in Jobs : ReleaseReservation(j, jobs[j].attempt_number)
      BY <2>1, FinalizeMoves
    <3>2. jobs[j].attempt_number \in Nat
      BY <1>t, MaxAttemptsPositive DEF TypeOK, JobRow
    <3> QED
      BY <1>t, <3>1, <3>2, BalancedRelease
  <2>2. ASSUME NEW j \in Jobs, Claim(w, j) \/ NotClaimed(w, j) \/ ClaimRaises(w, j)
        PROVE  Balanced'
    BY <1>f, <2>2 DEF Claim, NotClaimed, ClaimRaises, storeVars
  <2>3. CASE Reload(w) \/ InsertAttempt(w) \/ StartExecutor(w) \/ FinishExecutor(w) \/ Abandon(w)
    BY <1>f, <2>3 DEF Reload, InsertAttempt, StartExecutor, FinishExecutor, Abandon, storeVars
  <2>4. CASE \/ Heartbeat(w) \/ FinalizeRejected(w) \/ WorkerCrash(w) \/ WorkerRaises(w)
             \/ Redeliver(w)
    BY <1>f, <2>4
    DEF Heartbeat, FinalizeRejected, WorkerCrash, WorkerRaises, Redeliver, storeVars
  <2> QED
    BY <1>4, <2>1, <2>2, <2>3, <2>4 DEF Worker, WorkerStep
<1>5. ASSUME NEW r \in Recoveries, Recovery(r) PROVE Balanced'
  <2>1. CASE Reclaim(r)
    <3>1. PICK j \in Jobs : ReleaseReservation(j, jobs[j].attempt_number)
      BY <2>1, ReclaimMoves
    <3>2. jobs[j].attempt_number \in Nat
      BY <1>t, MaxAttemptsPositive DEF TypeOK, JobRow
    <3> QED
      BY <1>t, <3>1, <3>2, BalancedRelease
  <2>2. CASE \/ ListStale(r) \/ ReclaimLoses(r) \/ ListDue(r) \/ Dispatch(r) \/ ClearRetry(r)
             \/ RecoveryCrash(r)
    BY <1>f, <2>2 DEF ListStale, ReclaimLoses, ListDue, Dispatch, ClearRetry, RecoveryCrash,
                      storeVars
  <2> QED
    BY <1>5, <2>1, <2>2 DEF Recovery, RecoveryStep
<1>6. CASE Clock
  BY <1>6, <1>f DEF Clock, LeaseExpires, RetryDue
<1>7. CASE UNCHANGED vars
  BY <1>7, <1>f DEF vars, storeVars
<1> QED
  BY <1>1, <1>2, <1>3, <1>4, <1>5, <1>6, <1>7 DEF Next

\* The counter try_reserve and release maintain is, at every moment, the sum of the
\* ACTIVE reservations, and never more than the capacity there is.
THEOREM CapacityIsConserved == Spec => []Conservation
<1>1. Balanced => Conservation
  BY DEF Balanced
<1> QED
  BY <1>1, BalancedInit, BalancedStep, ReservationInvariant, PTL DEF Spec
=============================================================================
