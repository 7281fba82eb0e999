------------------------------ MODULE HistoryProofs ------------------------------
(***************************************************************************)
(* The attempt rows tell the truth: they follow the fencing token, agree   *)
(* with the job's outcome, and are never rewritten once they ended.  And   *)
(* an attempt that was admitted is announced to the workers.               *)
(***************************************************************************)
EXTENDS RefinementProofs

\* What an attempt row says when the attempt is over.
EndedStatus == {"SUCCEEDED", "FAILED", "CANCELLED", "LOST"}

\* AttemptHistory, of one job.
HistoryOf(j) ==
    LET n == jobs[j].attempt_number IN
    /\ \A a \in Attempts :
          /\ a < n => attempts[<<j, a>>] \in {"FAILED", "LOST"}
          /\ a > n => attempts[<<j, a>>] = "NONE"
    /\ jobs[j].status = "QUEUED" =>
          /\ n < MaxAttempts
          /\ n > 0 => attempts[<<j, n>>] \in {"FAILED", "LOST"}
    /\ jobs[j].status = "RUNNING" /\ n > 0 /\ jobs[j].lease_owner # None =>
          attempts[<<j, n>>] \in {"NONE", "RUNNING"}

\* OutcomeMatchesAttempt, of one job.
OutcomeOf(j) ==
    LET n == jobs[j].attempt_number
        last == IF n = 0 THEN "NONE" ELSE attempts[<<j, n>>]
    IN
    /\ jobs[j].status = "SUCCEEDED" <=> last = "SUCCEEDED"
    /\ last = "CANCELLED" => jobs[j].status = "CANCELLED"
    /\ jobs[j].status = "FAILED" =>
          \/ last = "FAILED" /\ dlq[j] = 1
          \/ last = "LOST" /\ dlq[j] = 0
    /\ jobs[j].status # "FAILED" => dlq[j] = 0

\* What the rows of one job say of each other; a lease was taken by a claim, which
\* started an attempt.
JobOK(j) ==
    /\ HistoryOf(j)
    /\ PatchTargets = {} => OutcomeOf(j)
    /\ jobs[j].lease_owner # None => jobs[j].attempt_number > 0

\* What a worker past its claim may rely on, although the number it read back may be
\* a later attempt's: the attempt was started, and once it inserted a row there is one.
WorkerOK(w) ==
    /\ work[w].pc = "claimed" => jobs[work[w].job].attempt_number > 0
    /\ work[w].pc \in {"loaded", "inserted", "executing", "finalize"} =>
          work[w].attempt \in 1..jobs[work[w].job].attempt_number
    /\ work[w].pc \in {"inserted", "executing", "finalize"} =>
          attempts[<<work[w].job, work[w].attempt>>] # "NONE"

HistoryInv ==
    /\ HostInv
    /\ \A j \in Jobs : JobOK(j)
    /\ \A w \in Workers : WorkerOK(w)

-----------------------------------------------------------------------------
(* What a step does to the rows. *)

\* Attempt numbers grow, and an attempt row stays.
Grows ==
    \A j \in Jobs : /\ jobs'[j].attempt_number >= jobs[j].attempt_number
                    /\ \A a \in Attempts :
                          attempts[<<j, a>>] # "NONE" => attempts'[<<j, a>>] # "NONE"

\* What OverIsOver asks of a step.
Kept ==
    /\ \A j \in Jobs : jobs[j].status \in Terminal => jobs'[j].status = jobs[j].status
    /\ \A k \in Jobs \X Attempts :
          attempts[k] \notin {"NONE", "RUNNING"} => attempts'[k] = attempts[k]

RowsMove == (\A j \in Jobs : JobOK(j)') /\ Grows /\ Kept

\* The types the steps need.
LEMMA RowTypes ==
    ASSUME HistoryInv
    PROVE  /\ TypeOK /\ LocalsOK /\ ReservationInv
           /\ jobs \in [Jobs -> JobRow]
           /\ attempts \in [Jobs \X Attempts -> AttemptStatus]
           /\ dlq \in [Jobs -> Nat]
           /\ work \in [Workers -> WorkerState]
           /\ \A j \in Jobs : jobs[j].attempt_number \in 0..MaxAttempts
           /\ MaxAttempts \in Nat
BY MaxAttemptsPositive DEF HistoryInv, HostInv, ReservationInv, TypeOK, JobRow

\* Nothing is said of a job whose three columns and rows stay.
LEMMA JobFrame ==
    ASSUME NEW j \in Jobs, JobOK(j),
           jobs'[j].status = jobs[j].status,
           jobs'[j].attempt_number = jobs[j].attempt_number,
           jobs'[j].lease_owner = jobs[j].lease_owner,
           dlq'[j] = dlq[j],
           \A a \in Attempts : attempts'[<<j, a>>] = attempts[<<j, a>>],
           jobs[j].attempt_number \in 0..MaxAttempts, MaxAttempts \in Nat
    PROVE  JobOK(j)'
<1>1. jobs[j].attempt_number = 0 \/ jobs[j].attempt_number \in Attempts
  BY DEF Attempts
<1> QED
  BY <1>1 DEF JobOK, HistoryOf, OutcomeOf

\* A step that leaves them alone for every job.
LEMMA RowsFrame ==
    ASSUME HistoryInv, UNCHANGED <<attempts, dlq>>,
           \A j \in Jobs : /\ jobs'[j].status = jobs[j].status
                           /\ jobs'[j].attempt_number = jobs[j].attempt_number
                           /\ jobs'[j].lease_owner = jobs[j].lease_owner
    PROVE  RowsMove
<1>1. \A j \in Jobs : JobOK(j)'
  BY RowTypes, JobFrame DEF HistoryInv
<1>2. Grows
  BY RowTypes DEF Grows
<1> QED
  BY <1>1, <1>2 DEF RowsMove, Kept

\* A step that moves one job and writes no attempt row: creation, cancel, PATCH.
LEMMA RowsMoved ==
    ASSUME HistoryInv, UNCHANGED <<attempts, dlq>>, NEW j \in Jobs, NEW to \in Status,
           Moved(j, to, jobs[j].attempt_number, jobs[j].lease_owner),
           jobs[j].status \notin Terminal,
           to = "QUEUED" => jobs[j].status = Absent,
           to = "RUNNING" => jobs[j].lease_owner = None,
           PatchTargets = {} => to \in {"QUEUED", "CANCELLED"}
    PROVE  RowsMove
<1>t. /\ jobs[j].attempt_number \in 0..MaxAttempts /\ MaxAttempts \in Nat
      /\ JobOK(j) /\ WaitingIsFree
  BY RowTypes DEF HistoryInv, ReservationInv
<1>1. ASSUME NEW i \in Jobs, i # j PROVE JobOK(i)'
  BY <1>1, RowTypes, JobFrame DEF HistoryInv, Moved
<1>2. HistoryOf(j)'
  <2>1. to = "QUEUED" => jobs[j].attempt_number = 0 /\ 0 < MaxAttempts
    BY <1>t, MaxAttemptsPositive DEF WaitingIsFree
  <2> QED
    BY <1>t, <2>1 DEF HistoryOf, JobOK, Moved
<1>3. ASSUME PatchTargets = {} PROVE OutcomeOf(j)'
  <2>1. /\ jobs'[j].status \notin {"SUCCEEDED", "FAILED"}
        /\ jobs[j].status \notin {"SUCCEEDED", "FAILED", "CANCELLED"}
    BY <1>3, Sources DEF Moved
  <2> QED
    BY <1>3, <1>t, <2>1 DEF OutcomeOf, JobOK, Moved
<1>4. JobOK(j)'
  BY <1>t, <1>2, <1>3 DEF JobOK, Moved
<1>5. Grows /\ Kept
  BY <1>t, RowTypes DEF Grows, Kept, Moved
<1> QED
  BY <1>1, <1>4, <1>5 DEF RowsMove

\* A job's type, as the arithmetic of attempt numbers needs it.
LEMMA Numbered ==
    ASSUME HistoryInv, NEW j \in Jobs
    PROVE  /\ jobs[j].attempt_number \in 0..MaxAttempts /\ MaxAttempts \in Nat
           /\ JobOK(j)
           /\ jobs[j].attempt_number = 0 \/ jobs[j].attempt_number \in Attempts
BY RowTypes DEF HistoryInv, Attempts

\* claim starts an attempt that has no row yet.
LEMMA RowsClaim ==
    ASSUME HistoryInv, NEW w \in Workers, NEW j \in Jobs, Claim(w, j)
    PROVE  RowsMove
<1> DEFINE n == jobs[j].attempt_number
<1>1. /\ Moved(j, "RUNNING", n + 1, w) /\ n + 1 \in Attempts
      /\ jobs[j].status = "QUEUED"
      /\ UNCHANGED <<attempts, dlq>>
  BY ClaimMoves DEF HistoryInv, HostInv, Claim
<1>2. /\ n \in 0..MaxAttempts /\ MaxAttempts \in Nat /\ JobOK(j)
      /\ n = 0 \/ n \in Attempts
  BY Numbered
<1>3. attempts[<<j, n + 1>>] = "NONE" /\ (PatchTargets = {} => dlq[j] = 0)
  BY <1>1, <1>2 DEF JobOK, HistoryOf, OutcomeOf
<1>4. ASSUME NEW i \in Jobs, i # j PROVE JobOK(i)'
  BY <1>1, <1>4, RowTypes, JobFrame DEF HistoryInv, Moved
<1>5. HistoryOf(j)'
  BY <1>1, <1>2, <1>3 DEF HistoryOf, JobOK, Moved, Attempts
<1>6. PatchTargets = {} => OutcomeOf(j)'
  BY <1>1, <1>2, <1>3 DEF OutcomeOf, Moved
<1>7. JobOK(j)'
  BY <1>1, <1>2, <1>5, <1>6 DEF JobOK, Moved
<1>8. Grows /\ Kept
  BY <1>1, <1>2, RowTypes, Sources DEF Grows, Kept, Moved
<1> QED
  BY <1>4, <1>7, <1>8 DEF RowsMove

\* attempts.insert writes the row of the current attempt only: an older one has its
\* row already, although the number read back may be out of date by now.
LEMMA RowsInsert ==
    ASSUME HistoryInv, NEW w \in Workers, InsertAttempt(w)
    PROVE  RowsMove
<1>j. PICK j \in Jobs : j = work[w].job
  BY DEF HistoryInv, HostInv, ReservationInv, InsertAttempt, LocalsOK
<1> DEFINE n == jobs[j].attempt_number
<1>a. PICK a \in 1..n : a = work[w].attempt
  BY <1>j DEF HistoryInv, WorkerOK, InsertAttempt
<1>1. /\ UNCHANGED <<jobs, dlq>>
      /\ \/ UNCHANGED attempts
         \/ /\ attempts[<<j, a>>] = "NONE"
            /\ attempts' = [attempts EXCEPT ![<<j, a>>] = "RUNNING"]
  BY <1>j, <1>a DEF InsertAttempt
<1>2. CASE UNCHANGED attempts
  BY <1>1, <1>2, RowsFrame
<1>3. CASE /\ attempts[<<j, a>>] = "NONE"
           /\ attempts' = [attempts EXCEPT ![<<j, a>>] = "RUNNING"]
  <2>t. /\ n \in 0..MaxAttempts /\ MaxAttempts \in Nat /\ JobOK(j)
        /\ attempts \in [Jobs \X Attempts -> AttemptStatus]
        /\ a \in Attempts
    BY <1>1, Numbered, RowTypes DEF Attempts
  <2>1. a = n
    BY <1>1, <1>3, <2>t DEF JobOK, HistoryOf
  <2>2. /\ attempts'[<<j, a>>] = "RUNNING"
        /\ \A k \in Jobs \X Attempts : k # <<j, a>> => attempts'[k] = attempts[k]
    BY <1>1, <1>3, <2>t
  <2>3. ASSUME NEW i \in Jobs, i # j PROVE JobOK(i)'
    <3>1. \A b \in Attempts : attempts'[<<i, b>>] = attempts[<<i, b>>]
      BY <1>1, <2>2, <2>3
    <3> QED
      BY <1>1, <3>1, RowTypes, JobFrame DEF HistoryInv
  <2>4. HistoryOf(j)'
    <3>1. \A b \in Attempts : b # n => attempts'[<<j, b>>] = attempts[<<j, b>>]
      BY <1>1, <2>1, <2>2
    <3> QED
      BY <1>1, <1>3, <2>t, <2>1, <2>2, <3>1 DEF JobOK, HistoryOf
  <2>5. PatchTargets = {} => OutcomeOf(j)'
    BY <1>1, <1>3, <2>t, <2>1, <2>2 DEF JobOK, OutcomeOf
  <2>6. JobOK(j)'
    BY <1>1, <2>t, <2>4, <2>5 DEF JobOK
  <2>7. Grows /\ Kept
    BY <1>1, <1>3, <2>2, RowTypes DEF Grows, Kept
  <2> QED
    BY <2>3, <2>6, <2>7 DEF RowsMove
<1> QED
  BY <1>1, <1>2, <1>3

\* finalize_attempt and reclaim_stale end the current attempt and move the job together.
LEMMA RowsClose ==
    ASSUME HistoryInv, NEW j \in Jobs, NEW to \in Status, NEW v \in EndedStatus,
           jobs[j].status = "RUNNING", jobs[j].lease_owner # None,
           Moved(j, to, jobs[j].attempt_number, None),
           attempts' = [attempts EXCEPT ![<<j, jobs[j].attempt_number>>] = v],
           \A i \in Jobs : i # j => dlq'[i] = dlq[i],
           to \notin {"PENDING", "RUNNING"},
           to = "QUEUED" => jobs[j].attempt_number < MaxAttempts /\ v \in {"FAILED", "LOST"},
           to = "SUCCEEDED" <=> v = "SUCCEEDED",
           v = "CANCELLED" => to = "CANCELLED",
           to = "FAILED" => \/ v = "FAILED" /\ dlq'[j] = dlq[j] + 1
                            \/ v = "LOST" /\ dlq'[j] = dlq[j],
           to # "FAILED" => dlq'[j] = dlq[j]
    PROVE  RowsMove
<1> DEFINE n == jobs[j].attempt_number
<1>t. /\ n \in 1..MaxAttempts /\ MaxAttempts \in Nat /\ JobOK(j) /\ n \in Attempts
      /\ attempts \in [Jobs \X Attempts -> AttemptStatus]
  <2>1. n # 0
    BY Numbered DEF JobOK
  <2> QED
    BY <2>1, Numbered, RowTypes DEF Attempts
<1>1. attempts[<<j, n>>] \in {"NONE", "RUNNING"}
  BY <1>t DEF JobOK, HistoryOf
<1>2. /\ attempts'[<<j, n>>] = v
      /\ \A k \in Jobs \X Attempts : k # <<j, n>> => attempts'[k] = attempts[k]
  BY <1>t
<1>3. ASSUME NEW i \in Jobs, i # j PROVE JobOK(i)'
  <2>1. \A b \in Attempts : attempts'[<<i, b>>] = attempts[<<i, b>>]
    BY <1>2, <1>3
  <2> QED
    BY <1>3, <2>1, RowTypes, JobFrame DEF HistoryInv, Moved
<1>m. jobs'[j].status = to /\ jobs'[j].attempt_number = n /\ jobs'[j].lease_owner = None
  BY DEF Moved
<1>4. HistoryOf(j)'
  <2>1. \A b \in Attempts : b # n => attempts'[<<j, b>>] = attempts[<<j, b>>]
    BY <1>2
  <2> QED
    BY <1>t, <1>m, <1>2, <2>1 DEF JobOK, HistoryOf
<1>5. ASSUME PatchTargets = {} PROVE OutcomeOf(j)'
  <2>1. dlq[j] = 0
    BY <1>5, <1>t DEF JobOK, OutcomeOf
  <2> QED
    BY <1>t, <1>m, <1>2, <2>1 DEF OutcomeOf
<1>6. JobOK(j)'
  BY <1>m, <1>4, <1>5 DEF JobOK
<1>7. Grows
  <2>1. v # "NONE"
    BY DEF EndedStatus
  <2>2. \A k \in Jobs \X Attempts : attempts[k] # "NONE" => attempts'[k] # "NONE"
    BY <1>2, <2>1
  <2>3. \A i \in Jobs : jobs'[i].attempt_number = jobs[i].attempt_number
    BY <1>m DEF Moved
  <2> QED
    BY <2>2, <2>3, RowTypes DEF Grows
<1>8. Kept
  BY <1>1, <1>2, Sources DEF Kept, Moved
<1> QED
  BY <1>3, <1>6, <1>7, <1>8 DEF RowsMove

LEMMA RowsFinalize ==
    ASSUME HistoryInv, NEW w \in Workers, Finalize(w)
    PROVE  RowsMove
<1>1. PICK j \in Jobs, to \in Status :
         /\ j = work[w].job /\ to = JobOutcome(w)
         /\ jobs[j].status = "RUNNING"
         /\ to \notin {"PENDING", "RUNNING"}
         /\ to = "QUEUED" => jobs[j].attempt_number < MaxAttempts
         /\ Moved(j, to, jobs[j].attempt_number, None)
  BY FinalizeMoves DEF HistoryInv, HostInv
<1>2. /\ work[w].pc = "finalize" /\ work[w].attempt = jobs[j].attempt_number
      /\ jobs[j].lease_owner # None
      /\ attempts' = [attempts EXCEPT ![<<j, jobs[j].attempt_number>>] = AttemptOutcome(w)]
      /\ IF to = "FAILED" THEN dlq' = [dlq EXCEPT ![j] = dlq[j] + 1] ELSE UNCHANGED dlq
  BY <1>1, WorkersAreNotNull DEF Finalize, Owns, insert_dlq
<1>3. \/ to = "CANCELLED" /\ AttemptOutcome(w) = "CANCELLED"
      \/ to = "SUCCEEDED" /\ AttemptOutcome(w) = "SUCCEEDED"
      \/ to \in {"QUEUED", "FAILED"} /\ AttemptOutcome(w) = "FAILED"
  BY <1>1 DEF AttemptOutcome, JobOutcome
<1>4. /\ \A i \in Jobs : i # j => dlq'[i] = dlq[i]
      /\ dlq'[j] = IF to = "FAILED" THEN dlq[j] + 1 ELSE dlq[j]
  BY <1>2, RowTypes
<1>5. AttemptOutcome(w) \in EndedStatus
  BY <1>3 DEF EndedStatus
<1> QED
  BY <1>1, <1>2, <1>3, <1>4, <1>5, RowsClose

LEMMA RowsReclaim ==
    ASSUME HistoryInv, NEW r \in Recoveries, Reclaim(r)
    PROVE  RowsMove
<1>1. PICK j \in Jobs, to \in Status :
         /\ jobs[j].status = "RUNNING" /\ jobs[j].lease = "expired"
         /\ to \notin {"PENDING", "RUNNING"}
         /\ to = "QUEUED" => jobs[j].attempt_number < MaxAttempts
         /\ to # "SUCCEEDED"
         /\ Moved(j, to, jobs[j].attempt_number, None)
         /\ mark_lost(j, jobs[j].attempt_number)
  BY ReclaimMoves DEF HistoryInv, HostInv
<1>2. jobs[j].lease_owner # None
  BY <1>1 DEF HistoryInv, HostInv, LeaseIsOwned
<1>3. UNCHANGED dlq /\ "LOST" \in EndedStatus
  BY DEF Reclaim, EndedStatus
<1>4. attempts' = [attempts EXCEPT ![<<j, jobs[j].attempt_number>>] = "LOST"]
  BY <1>1 DEF mark_lost
<1> QED
  BY <1>1, <1>2, <1>3, <1>4, RowsClose

LEMMA RowsApi ==
    ASSUME HistoryInv, Api
    PROVE  RowsMove
<1>t. /\ ReservationInv /\ WaitingIsFree /\ LocalsOK /\ jobs \in [Jobs -> JobRow]
      /\ UNCHANGED <<attempts, dlq>>
  BY RowTypes DEF ReservationInv, Api, CreateJob, PatchStatus, UpdateConfig, DeleteJob, CancelRead,
     CancelFast, CancelRequest, CancelMisses, storeVars
<1>f. ASSUME UNCHANGED jobs PROVE RowsMove
  BY <1>t, <1>f, RowsFrame
<1>1. ASSUME NEW j \in Jobs, CreateJob(j) PROVE RowsMove
  <2>1. /\ Moved(j, "QUEUED", jobs[j].attempt_number, jobs[j].lease_owner)
        /\ jobs[j].status = Absent
    BY <1>t, <1>1, CreateMoves
  <2>2. "QUEUED" \in Status /\ Absent \notin Terminal
    BY Sources DEF Status, Absent
  <2> QED
    BY <1>t, <2>1, <2>2, RowsMoved
<1>m. ASSUME NEW j \in Jobs, NEW to \in Status, conditional_transition(j, to),
             PatchTargets = {} => to = "CANCELLED"
      PROVE  RowsMove
  <2>1. /\ Moved(j, to, jobs[j].attempt_number, jobs[j].lease_owner)
        /\ jobs[j].status \in sources_for(to)
        /\ to \notin {"PENDING", "QUEUED"}
        /\ to = "RUNNING" => jobs[j].lease_owner = None
    BY <1>t, <1>m, TransitionMoves
  <2>2. jobs[j].status \notin Terminal
    BY <2>1, Sources DEF Status
  <2> QED
    BY <1>t, <1>m, <2>1, <2>2, RowsMoved
<1>2. ASSUME NEW j \in Jobs, PatchStatus(j) PROVE RowsMove
  BY <1>2, <1>m, PatchTargetsAreStatuses DEF PatchStatus
<1>3. ASSUME NEW j \in Jobs, UpdateConfig(j) PROVE RowsMove
  BY <1>t, <1>3, RowsFrame DEF UpdateConfig, JobRow
<1>4. ASSUME NEW j \in Jobs, DeleteJob(j) PROVE RowsMove
  BY <1>t, <1>4, RowsFrame DEF DeleteJob, JobRow
<1>5. ASSUME NEW c \in Clients, NEW j \in Jobs, CancelRead(c, j) PROVE RowsMove
  BY <1>5, <1>f DEF CancelRead, storeVars
<1>6. ASSUME NEW c \in Clients, CancelFast(c) PROVE RowsMove
  BY <1>t, <1>6, <1>m DEF CancelFast, LocalsOK, Status
<1>7. ASSUME NEW c \in Clients, CancelRequest(c) PROVE RowsMove
  BY <1>t, <1>7, RowsFrame DEF CancelRequest, LocalsOK, JobRow
<1>8. ASSUME NEW c \in Clients, CancelMisses(c) PROVE RowsMove
  BY <1>8, <1>f DEF CancelMisses, storeVars
<1> QED
  BY <1>1, <1>2, <1>3, <1>4, <1>5, <1>6, <1>7, <1>8 DEF Api

\* Every step of the platform keeps the rows true, and moves them only on.
LEMMA RowsStep == HistoryInv /\ [Next]_vars => RowsMove
<1> SUFFICES ASSUME HistoryInv, [Next]_vars PROVE RowsMove
  OBVIOUS
<1>t. LocalsOK /\ jobs \in [Jobs -> JobRow]
  BY RowTypes
<1>f. ASSUME UNCHANGED <<jobs, attempts, dlq>> PROVE RowsMove
  BY <1>f, RowsFrame
<1>1. ASSUME NEW s \in Schedulers, Scheduler(s) PROVE RowsMove
  BY <1>1, <1>f DEF Scheduler, SchedulerStep, SchedulerCrash, StartPass, NextCandidate, Recheck,
     RecheckRejects, Reserve, ReserveConflicts, ReserveRejects, RecordAdmitted, storeVars
<1>2. CASE Relay
  BY <1>2, <1>f DEF Relay, RelayStep, Publish, MarkPublished, RelayCrash, storeVars
<1>3. ASSUME NEW w \in Workers, Worker(w) PROVE RowsMove
  <2>1. CASE Heartbeat(w)
    BY <2>1, <1>t, RowsFrame DEF Heartbeat, JobRow
  <2>2. ASSUME NEW j \in Jobs, NotClaimed(w, j) \/ ClaimRaises(w, j) PROVE RowsMove
    BY <2>2, <1>f DEF NotClaimed, ClaimRaises, storeVars
  <2>3. CASE Reload(w) \/ StartExecutor(w) \/ FinishExecutor(w) \/ Abandon(w)
    BY <2>3, <1>f DEF Reload, StartExecutor, FinishExecutor, Abandon, storeVars
  <2>4. CASE FinalizeRejected(w) \/ WorkerCrash(w) \/ WorkerRaises(w) \/ Redeliver(w)
    BY <2>4, <1>f DEF FinalizeRejected, WorkerCrash, WorkerRaises, Redeliver, storeVars
  <2> QED
    BY <1>3, <2>1, <2>2, <2>3, <2>4, RowsClaim, RowsInsert, RowsFinalize DEF Worker, WorkerStep
<1>4. ASSUME NEW r \in Recoveries, Recovery(r) PROVE RowsMove
  <2>1. CASE ClearRetry(r)
    BY <2>1, <1>t, RowsFrame DEF ClearRetry, JobRow
  <2>2. CASE ListStale(r) \/ ReclaimLoses(r) \/ ListDue(r) \/ Dispatch(r) \/ RecoveryCrash(r)
    BY <2>2, <1>f DEF ListStale, ReclaimLoses, ListDue, Dispatch, RecoveryCrash, storeVars
  <2> QED
    BY <1>4, <2>1, <2>2, RowsReclaim DEF Recovery, RecoveryStep
<1>5. CASE Clock
  BY <1>5, <1>t, RowsFrame DEF Clock, LeaseExpires, RetryDue, JobRow
<1>6. CASE UNCHANGED vars
  BY <1>6, <1>f DEF vars, storeVars
<1> QED
  BY <1>1, <1>2, <1>3, <1>4, <1>5, <1>6, RowsApi DEF Next

-----------------------------------------------------------------------------
(* What a worker may rely on. *)

\* A worker that takes no step: numbers only grow and rows stay.
LEMMA WorkerFrame ==
    ASSUME HistoryInv, TypeOK', Grows, NEW w \in Workers, work'[w] = work[w]
    PROVE  WorkerOK(w)'
<1>1. CASE work[w].pc = "idle"
  BY <1>1 DEF WorkerOK
<1>2. CASE work[w].pc # "idle"
  <2>1. PICK j \in Jobs : j = work[w].job
    BY <1>2, RowTypes DEF LocalsOK
  <2>2. /\ jobs[j].attempt_number \in 0..MaxAttempts /\ MaxAttempts \in Nat
        /\ jobs'[j].attempt_number \in 0..MaxAttempts
        /\ jobs'[j].attempt_number >= jobs[j].attempt_number
    BY RowTypes, Numbered DEF Grows, TypeOK, JobRow
  <2>3. work[w].attempt \in 1..jobs[j].attempt_number =>
           /\ work[w].attempt \in 1..jobs'[j].attempt_number
           /\ work[w].attempt \in Attempts
    BY <2>2 DEF Attempts
  <2>4. WorkerOK(w)
    BY DEF HistoryInv
  <2>5. work[w].pc = "claimed" => jobs'[j].attempt_number > 0
    BY <2>1, <2>2, <2>4 DEF WorkerOK
  <2>6. work[w].pc \in {"inserted", "executing", "finalize"} =>
           attempts'[<<j, work[w].attempt>>] # "NONE"
    BY <2>1, <2>3, <2>4 DEF WorkerOK, Grows
  <2> QED
    BY <2>1, <2>3, <2>4, <2>5, <2>6 DEF WorkerOK
<1> QED
  BY <1>1, <1>2

\* A worker that goes on with the attempt whose row it inserted.
LEMMA WorkerGoesOn ==
    ASSUME HistoryInv, TypeOK', Grows, NEW w \in Workers,
           work[w].pc \in {"inserted", "executing"},
           work'[w].pc \in {"inserted", "executing", "finalize"},
           work'[w].job = work[w].job, work'[w].attempt = work[w].attempt
    PROVE  WorkerOK(w)'
<1>1. PICK j \in Jobs : j = work[w].job
  BY RowTypes DEF LocalsOK
<1>2. /\ jobs[j].attempt_number \in 0..MaxAttempts /\ MaxAttempts \in Nat
      /\ jobs'[j].attempt_number \in 0..MaxAttempts
      /\ jobs'[j].attempt_number >= jobs[j].attempt_number
  BY RowTypes, Numbered DEF Grows, TypeOK, JobRow
<1>3. /\ work[w].attempt \in 1..jobs[j].attempt_number
      /\ attempts[<<j, work[w].attempt>>] # "NONE"
  BY <1>1 DEF HistoryInv, WorkerOK
<1>4. /\ work[w].attempt \in 1..jobs'[j].attempt_number
      /\ work[w].attempt \in Attempts
  BY <1>2, <1>3 DEF Attempts
<1>5. attempts'[<<j, work[w].attempt>>] # "NONE"
  BY <1>3, <1>4 DEF Grows
<1> QED
  BY <1>1, <1>4, <1>5 DEF WorkerOK

\* A worker that takes a step.
LEMMA WorkerSteps ==
    ASSUME HistoryInv, TypeOK', RowsMove, NEW w \in Workers, Worker(w)
    PROVE  WorkerOK(w)'
<1>t. /\ work \in [Workers -> WorkerState] /\ LocalsOK /\ WorkerOK(w) /\ Grows
  BY RowTypes DEF HistoryInv, RowsMove
<1>i. ASSUME work' = [work EXCEPT ![w] = WorkerIdle] PROVE WorkerOK(w)'
  BY <1>t, <1>i DEF WorkerOK, WorkerIdle
<1>f. ASSUME UNCHANGED work PROVE WorkerOK(w)'
  BY <1>t, <1>f, WorkerFrame
<1>1. ASSUME NEW j \in Jobs, Claim(w, j) PROVE WorkerOK(w)'
  <2>1. /\ jobs'[j].attempt_number = jobs[j].attempt_number + 1
        /\ jobs[j].attempt_number \in Nat
    BY <1>1, ClaimMoves DEF HistoryInv, HostInv, Moved
  <2>2. work'[w].pc = "claimed" /\ work'[w].job = j
    BY <1>t, <1>1 DEF Claim, WorkerIdle
  <2> QED
    BY <2>1, <2>2 DEF WorkerOK
<1>2. ASSUME NEW j \in Jobs, NotClaimed(w, j) \/ ClaimRaises(w, j) PROVE WorkerOK(w)'
  BY <1>2, <1>f DEF NotClaimed, ClaimRaises
<1>3. CASE Reload(w)
  <2>1. PICK j \in Jobs : j = work[w].job
    BY <1>t, <1>3 DEF Reload, LocalsOK
  <2>2. CASE jobs[j].deleted
    BY <1>3, <1>i, <2>1, <2>2 DEF Reload
  <2>3. CASE ~jobs[j].deleted
    <3>1. /\ work'[w].pc = "loaded" /\ work'[w].job = j
          /\ work'[w].attempt = jobs[j].attempt_number
          /\ UNCHANGED jobs
      BY <1>t, <1>3, <2>1, <2>3 DEF Reload, WorkerState, storeVars
    <3>2. jobs[j].attempt_number \in 1..jobs[j].attempt_number
      BY <1>t, <1>3, <2>1, Numbered DEF Reload, WorkerOK
    <3> QED
      BY <3>1, <3>2 DEF WorkerOK
  <2> QED
    BY <2>2, <2>3
<1>4. CASE InsertAttempt(w)
  <2>1. PICK j \in Jobs : j = work[w].job
    BY <1>t, <1>4 DEF InsertAttempt, LocalsOK
  <2>2. CASE attempts[<<j, work[w].attempt>>] # "NONE"
    BY <1>4, <1>i, <2>1, <2>2 DEF InsertAttempt
  <2>3. CASE attempts[<<j, work[w].attempt>>] = "NONE"
    <3>1. /\ work'[w].pc = "inserted" /\ work'[w].job = j
          /\ work'[w].attempt = work[w].attempt
          /\ UNCHANGED jobs
      BY <1>t, <1>4, <2>1, <2>3 DEF InsertAttempt, WorkerState
    <3>2. work[w].attempt \in 1..jobs[j].attempt_number
      BY <1>t, <1>4, <2>1 DEF InsertAttempt, WorkerOK
    <3>3. attempts'[<<j, work[w].attempt>>] = "RUNNING"
      <4>1. work[w].attempt \in Attempts
        BY <3>2, Numbered DEF Attempts
      <4> QED
        BY <1>4, <2>1, <2>3, <4>1, RowTypes DEF InsertAttempt
    <3> QED
      BY <3>1, <3>2, <3>3 DEF WorkerOK
  <2> QED
    BY <2>2, <2>3
<1>5. CASE StartExecutor(w)
  <2>1. /\ work[w].pc = "inserted" /\ work'[w].pc = "executing"
        /\ work'[w].job = work[w].job /\ work'[w].attempt = work[w].attempt
    BY <1>t, <1>5 DEF StartExecutor, WorkerState
  <2> QED
    BY <1>t, <2>1, WorkerGoesOn
<1>6. CASE FinishExecutor(w)
  <2>1. /\ work[w].pc = "executing" /\ work'[w].pc = "finalize"
        /\ work'[w].job = work[w].job /\ work'[w].attempt = work[w].attempt
    BY <1>t, <1>6 DEF FinishExecutor, WorkerState
  <2> QED
    BY <1>t, <2>1, WorkerGoesOn
<1>7. CASE Heartbeat(w)
  <2>1. /\ work[w].pc \in {"inserted", "executing"} /\ work'[w].pc = work[w].pc
        /\ work'[w].job = work[w].job /\ work'[w].attempt = work[w].attempt
    BY <1>t, <1>7 DEF Heartbeat, WorkerState
  <2> QED
    BY <1>t, <2>1, WorkerGoesOn
<1>8. CASE \/ Abandon(w) \/ Finalize(w) \/ FinalizeRejected(w)
           \/ WorkerCrash(w) \/ WorkerRaises(w)
  BY <1>8, <1>i DEF Abandon, Finalize, FinalizeRejected, WorkerCrash, WorkerRaises
<1>9. CASE Redeliver(w)
  BY <1>9, <1>f DEF Redeliver
<1> QED
  BY <1>1, <1>2, <1>3, <1>4, <1>5, <1>6, <1>7, <1>8, <1>9 DEF Worker, WorkerStep

\* The other workers stay where they are.
LEMMA WorkersElsewhere ==
    ASSUME HistoryInv, NEW w \in Workers, Worker(w), NEW v \in Workers, v # w
    PROVE  work'[v] = work[v]
<1>1. /\ work \in [Workers -> WorkerState]
      /\ work' = work \/ \E row : work' = [work EXCEPT ![w] = row]
  BY RowTypes DEF Worker, WorkerStep, Claim, NotClaimed, ClaimRaises, Reload, InsertAttempt,
     StartExecutor, FinishExecutor, Heartbeat, Abandon, Finalize, FinalizeRejected, WorkerCrash,
     WorkerRaises, Redeliver
<1> QED
  BY <1>1

-----------------------------------------------------------------------------
(* The invariant, and the properties it gives. *)

LEMMA HistoryInvInit == Init => HistoryInv
<1> SUFFICES ASSUME Init PROVE HistoryInv
  OBVIOUS
<1>1. HostInv
  BY HostInvInit
<1>2. ASSUME NEW j \in Jobs PROVE JobOK(j)
  BY MaxAttemptsPositive
  DEF Init, StoreInit, NoRow, Absent, JobOK, HistoryOf, OutcomeOf, Attempts
<1>3. ASSUME NEW w \in Workers PROVE WorkerOK(w)
  BY DEF Init, WorkerInit, WorkerIdle, WorkerOK
<1> QED
  BY <1>1, <1>2, <1>3 DEF HistoryInv

LEMMA HistoryInvStep == HistoryInv /\ [Next]_vars => HistoryInv'
<1> SUFFICES ASSUME HistoryInv, [Next]_vars PROVE HistoryInv'
  OBVIOUS
<1>1. HostInv' /\ TypeOK'
  BY HostInvStep DEF HistoryInv, HostInv, ReservationInv
<1>2. RowsMove
  BY RowsStep
<1>3. ASSUME NEW v \in Workers PROVE WorkerOK(v)'
  <2>1. CASE work'[v] = work[v]
    BY <1>1, <1>2, <1>3, <2>1, WorkerFrame DEF RowsMove
  <2>2. ASSUME NEW w \in Workers, Worker(w) PROVE WorkerOK(v)'
    <3>1. CASE v = w
      BY <1>1, <1>2, <2>2, <3>1, WorkerSteps
    <3>2. CASE v # w
      BY <2>1, <2>2, <3>2, WorkersElsewhere
    <3> QED
      BY <3>1, <3>2
  <2>3. (\E w \in Workers : Worker(w)) \/ UNCHANGED work
    BY DEF Next, Api, Scheduler, Relay, Recovery, Clock, vars
  <2> QED
    BY <2>1, <2>2, <2>3
<1> QED
  BY <1>1, <1>2, <1>3 DEF HistoryInv, RowsMove

\* Attempt rows follow the fencing token: attempts before the current one ended FAILED
\* or LOST without a gap and none exists beyond it, whatever claim, attempts.insert,
\* mark_lost and finalize_attempt race.
THEOREM AttemptsFollowTheToken == Spec => []AttemptHistory
<1>1. HistoryInv => AttemptHistory
  BY DEF HistoryInv, JobOK, HistoryOf, AttemptHistory
<1> QED
  BY <1>1, HistoryInvInit, HistoryInvStep, PTL DEF Spec

\* Without PATCH the outcome of a job is the one its current attempt recorded, with one
\* DLQ entry for a FAILED attempt and none for a LOST one (finalize_attempt and
\* reclaim_stale write both rows in one transaction, under the fence).
THEOREM OutcomesAgree == Spec => []OutcomeMatchesAttempt
<1>1. HistoryInv => OutcomeMatchesAttempt
  BY DEF HistoryInv, JobOK, OutcomeOf, OutcomeMatchesAttempt
<1> QED
  BY <1>1, HistoryInvInit, HistoryInvStep, PTL DEF Spec

\* No step, however late, rewrites a terminal job status or the outcome of an attempt
\* that ended.
THEOREM OverStaysOver == Spec => OverIsOver
<1>1. HistoryInv /\ [Next]_vars =>
         [/\ \A j \in Jobs : jobs[j].status \in Terminal => jobs'[j].status = jobs[j].status
          /\ \A k \in Jobs \X Attempts :
                attempts[k] \notin {"NONE", "RUNNING"} => attempts'[k] = attempts[k]]_vars
  BY RowsStep DEF RowsMove, Kept
<1> QED
  BY <1>1, HistoryInvInit, HistoryInvStep, PTL DEF Spec, OverIsOver

-----------------------------------------------------------------------------
(* Delivery: an admitted job a worker could claim has a message on its way. *)

\* A reserved job was created, and a waiting one with its next attempt reserved is not
\* backing off; if it can be claimed, its message is on its way.
SentOK(j) ==
    /\ \A a \in Attempts : HasActive(j, a) => jobs[j].status # Absent
    /\ jobs[j].status = "QUEUED" /\ HasActive(j, jobs[j].attempt_number + 1)
          => jobs[j].next_retry # "waiting"
    /\ ~LoseMessages /\ Claimable(j) => Announced(j)
    /\ outbox[j] >= (IF relay = j THEN 1 ELSE 0)

\* A scheduler that looks at job j and will admit it.
LooksAt(s, j) ==
    sched[s].pc \in {"check", "reserve"} /\ sched[s].eligible /\ sched[s].job = j

\* A listing that can still admit the next attempt was read after the last attempt was
\* given up, when the backoff had elapsed.
FreshOK(s, j) ==
    LooksAt(s, j) =>
        /\ jobs[j].status # Absent
        /\ jobs[j].status = "QUEUED" /\ sched[s].attempt = jobs[j].attempt_number + 1
              => jobs[j].next_retry # "waiting"

DispatchOK ==
    \A j \in Jobs : SentOK(j) /\ \A s \in Schedulers : FreshOK(s, j)

DispatchInv == HostInv /\ DispatchOK

\* A step that makes job j no more claimable than it was.
Calm(j) ==
    /\ \A a \in Attempts : HasActive(j, a)' => HasActive(j, a)
    /\ jobs'[j].status = Absent => jobs[j].status = Absent
    /\ jobs'[j].status = "QUEUED" =>
          /\ jobs[j].status = "QUEUED"
          /\ jobs'[j].attempt_number = jobs[j].attempt_number
          /\ jobs'[j].next_retry = "waiting" => jobs[j].next_retry = "waiting"
          /\ jobs[j].cancel_requested => jobs'[j].cancel_requested
          /\ jobs[j].deleted => jobs'[j].deleted

\* A step after which nobody has reserved the next attempt of job j, or is about to.
Parked(j) ==
    /\ jobs'[j].status # Absent
    /\ ~HasActive(j, jobs[j].attempt_number + 1)'
    /\ \A s \in Schedulers :
          LooksAt(s, j) => sched[s].attempt # jobs'[j].attempt_number + 1

\* Every step but the relay's and the scheduler's.
LEMMA DispatchFrame ==
    ASSUME DispatchInv, TypeOK', UNCHANGED <<sched, relay>>,
           \A j \in Jobs : /\ Calm(j) \/ Parked(j)
                           /\ outbox'[j] >= outbox[j]
                           /\ ~LoseMessages /\ Claimable(j) /\ Claimable(j)'
                                 => topic'[j] >= topic[j]
    PROVE  DispatchOK'
<1> SUFFICES ASSUME NEW j \in Jobs PROVE SentOK(j)' /\ \A s \in Schedulers : FreshOK(s, j)'
  BY DEF DispatchOK
<1>t. /\ outbox[j] \in Int /\ outbox'[j] \in Int /\ topic[j] \in Nat /\ topic'[j] \in Nat
      /\ jobs'[j].next_retry \in {"none", "waiting", "due"}
      /\ SentOK(j) /\ \A s \in Schedulers : FreshOK(s, j)
  BY DEF DispatchInv, HostInv, ReservationInv, TypeOK, JobRow, DispatchOK
<1>1. outbox'[j] >= (IF relay' = j THEN 1 ELSE 0)
  BY <1>t DEF SentOK
<1>2. CASE Calm(j)
  <2>1. Claimable(j)' => Claimable(j)
    BY <1>2, <1>t DEF Calm, Claimable, Eligible, SentOK, HasActive
  <2>2. ~LoseMessages /\ Claimable(j)' => Announced(j)'
    BY <1>t, <2>1 DEF SentOK, Announced
  <2>3. SentOK(j)'
    BY <1>1, <1>2, <1>t, <2>2 DEF SentOK, Calm, HasActive
  <2>4. \A s \in Schedulers : FreshOK(s, j)'
    BY <1>2, <1>t DEF FreshOK, LooksAt, Calm
  <2> QED
    BY <2>3, <2>4
<1>3. CASE Parked(j)
  <2>1. SentOK(j)'
    BY <1>1, <1>3 DEF SentOK, Parked, Claimable
  <2>2. \A s \in Schedulers : FreshOK(s, j)'
    BY <1>3 DEF FreshOK, LooksAt, Parked
  <2> QED
    BY <2>1, <2>2
<1> QED
  BY <1>2, <1>3

\* A job whose row and reservations stay.
LEMMA CalmFrame ==
    ASSUME NEW j \in Jobs, jobs'[j] = jobs[j],
           \A a \in Attempts : HasActive(j, a)' => HasActive(j, a)
    PROVE  Calm(j)
BY DEF Calm

\* A job whose row moves on, at most giving up a reservation.
LEMMA CalmMove ==
    ASSUME NEW j \in Jobs, NEW to, NEW n, NEW owner, Moved(j, to, n, owner),
           to \notin {"QUEUED", Absent},
           \A i \in Jobs : \A a \in Attempts : HasActive(i, a)' => HasActive(i, a)
    PROVE  \A i \in Jobs : Calm(i)
<1>1. Calm(j)
  BY DEF Calm, Moved
<1> QED
  BY <1>1, CalmFrame DEF Moved

\* The relay sends a message before it marks the row, and never marks another one.
LEMMA DispatchRelay ==
    ASSUME DispatchInv, TypeOK', Relay
    PROVE  DispatchOK'
<1> SUFFICES ASSUME NEW j \in Jobs PROVE SentOK(j)' /\ \A s \in Schedulers : FreshOK(s, j)'
  BY DEF DispatchOK
<1>t. /\ outbox \in [Jobs -> Int] /\ topic \in [Jobs -> Nat]
      /\ SentOK(j) /\ \A s \in Schedulers : FreshOK(s, j)
      /\ relay \in Jobs \cup {None}
  BY DEF DispatchInv, HostInv, ReservationInv, TypeOK, DispatchOK
<1>1. UNCHANGED <<jobs, reservations, sched>>
  BY DEF Relay, RelayStep, Publish, MarkPublished, RelayCrash, storeVars
<1> DEFINE StillSent ==
              /\ outbox'[j] >= (IF relay' = j THEN 1 ELSE 0)
              /\ Announced(j) => Announced(j)'
<1>2. StillSent
  <2>1. ASSUME NEW i \in Jobs, Publish(i) PROVE StillSent
    BY <1>t, <2>1, WorkersAreNotNull DEF Publish, Deliver, Announced, SentOK, storeVars
  <2>2. CASE MarkPublished
    BY <1>t, <2>2, WorkersAreNotNull DEF MarkPublished, Announced, SentOK
  <2>3. CASE RelayCrash
    BY <1>t, <2>3, WorkersAreNotNull DEF RelayCrash, Announced, SentOK, storeVars
  <2> QED
    BY <2>1, <2>2, <2>3 DEF Relay, RelayStep
<1>3. Claimable(j)' <=> Claimable(j)
  BY <1>1 DEF HasActive, Claimable, Eligible
<1>4. SentOK(j)'
  <2>1. /\ \A a \in Attempts : HasActive(j, a)' => jobs'[j].status # Absent
        /\ jobs'[j].status = "QUEUED" /\ HasActive(j, jobs[j].attempt_number + 1)'
              => jobs'[j].next_retry # "waiting"
    BY <1>t, <1>1 DEF SentOK, HasActive
  <2>2. ~LoseMessages /\ Claimable(j)' => Announced(j)'
    BY <1>t, <1>2, <1>3 DEF SentOK
  <2> QED
    BY <1>2, <2>1, <2>2 DEF SentOK
<1>5. \A s \in Schedulers : FreshOK(s, j)'
  BY <1>t, <1>1 DEF FreshOK, LooksAt
<1> QED
  BY <1>4, <1>5

\* create_and_enqueue: nobody has reserved anything for a job that did not exist.
LEMMA DispatchCreate ==
    ASSUME DispatchInv, TypeOK', NEW j \in Jobs, CreateJob(j), UNCHANGED <<sched, relay, topic>>
    PROVE  DispatchOK'
<1>1. /\ Moved(j, "QUEUED", jobs[j].attempt_number, jobs[j].lease_owner)
      /\ jobs[j].status = Absent
  BY CreateMoves DEF DispatchInv, HostInv
<1>2. /\ UNCHANGED <<reservations, outbox>> /\ SentOK(j)
      /\ \A s \in Schedulers : FreshOK(s, j)
      /\ outbox \in [Jobs -> Int] /\ topic \in [Jobs -> Nat]
  BY DEF CreateJob, DispatchInv, DispatchOK, HostInv, ReservationInv, TypeOK
<1>3. \A i \in Jobs : \A a \in Attempts : HasActive(i, a)' <=> HasActive(i, a)
  BY <1>2 DEF HasActive
<1>4. Parked(j)
  <2>1. ~HasActive(j, jobs[j].attempt_number + 1)'
    BY <1>1, <1>2 DEF SentOK, HasActive, Moved
  <2>2. \A s \in Schedulers : ~LooksAt(s, j)
    BY <1>1, <1>2 DEF FreshOK
  <2> QED
    BY <1>1, <2>1, <2>2 DEF Parked, Moved, Absent
<1>5. \A i \in Jobs : i # j => Calm(i)
  BY <1>1, <1>3, CalmFrame DEF Moved
<1>6. \A i \in Jobs : outbox'[i] >= outbox[i] /\ topic'[i] >= topic[i]
  BY <1>2
<1> QED
  BY <1>4, <1>5, <1>6, DispatchFrame

\* finalize_attempt and reclaim_stale: the attempt that ends had the only reservation,
\* and listings are not ahead of it.
LEMMA DispatchLeaves ==
    ASSUME DispatchInv, TypeOK', UNCHANGED <<sched, relay, topic, outbox>>,
           NEW j \in Jobs, NEW to \in Status, jobs[j].lease_owner # None,
           Moved(j, to, jobs[j].attempt_number, None),
           ReleaseReservation(j, jobs[j].attempt_number)
    PROVE  DispatchOK'
<1> DEFINE n == jobs[j].attempt_number
<1>t. /\ n \in 0..MaxAttempts /\ MaxAttempts \in Nat /\ TypeOK
      /\ outbox \in [Jobs -> Int] /\ topic \in [Jobs -> Nat]
      /\ sched \in [Schedulers -> SchedState]
      /\ ReservationFollowsLease /\ ListingIsBehind
  BY MaxAttemptsPositive DEF DispatchInv, HostInv, ReservationInv, TypeOK, JobRow
<1>1. ASSUME NEW i \in Jobs, NEW a \in Attempts PROVE HasActive(i, a)' => HasActive(i, a)
  <2>1. n \in Nat
    BY <1>t
  <2> QED
    BY <1>t, <2>1, ReleaseRows
<1>2. ReservedAttempt(j) = n
  BY <1>t DEF ReservedAttempt
<1>3. Parked(j)
  <2>1. ~HasActive(j, n + 1)
    BY <1>t, <1>2 DEF ReservationFollowsLease, HasActive
  <2>2. ~HasActive(j, jobs[j].attempt_number + 1)'
    BY <1>1, <2>1 DEF HasActive, Moved
  <2>3. ASSUME NEW s \in Schedulers, LooksAt(s, j) PROVE sched[s].attempt # n + 1
    BY <1>t, <1>2, <2>3 DEF ListingIsBehind, LooksAt, Attempts
  <2> QED
    BY <2>2, <2>3 DEF Parked, Moved, Status, Absent
<1>4. \A i \in Jobs : i # j => Calm(i)
  BY <1>1, CalmFrame DEF Moved
<1>5. \A i \in Jobs : outbox'[i] >= outbox[i] /\ topic'[i] >= topic[i]
  BY <1>t
<1> QED
  BY <1>3, <1>4, <1>5, DispatchFrame

\* Requests.
LEMMA DispatchApi ==
    ASSUME DispatchInv, TypeOK', Api
    PROVE  DispatchOK'
<1>t. /\ ReservationInv /\ TypeOK /\ LocalsOK /\ jobs \in [Jobs -> JobRow]
      /\ outbox \in [Jobs -> Int] /\ topic \in [Jobs -> Nat]
  BY DEF DispatchInv, HostInv, ReservationInv, TypeOK
<1>u. UNCHANGED <<sched, relay, topic, outbox>>
  BY DEF Api, CreateJob, PatchStatus, UpdateConfig, DeleteJob, CancelRead, CancelFast,
     CancelRequest, CancelMisses, storeVars
<1>c. ASSUME \A j \in Jobs : Calm(j) PROVE DispatchOK'
  <2>1. \A j \in Jobs : outbox'[j] >= outbox[j] /\ topic'[j] >= topic[j]
    BY <1>t, <1>u
  <2> QED
    BY <1>c, <1>u, <2>1, DispatchFrame
<1>f. ASSUME UNCHANGED <<jobs, reservations>> PROVE DispatchOK'
  BY <1>c, <1>f, CalmFrame DEF HasActive
<1>1. ASSUME NEW j \in Jobs, CreateJob(j) PROVE DispatchOK'
  BY <1>u, <1>1, DispatchCreate
<1>m. ASSUME NEW j \in Jobs, NEW to \in Status, conditional_transition(j, to),
             \A i \in Jobs : \A a \in Attempts : HasActive(i, a)' => HasActive(i, a)
      PROVE  DispatchOK'
  <2>1. /\ Moved(j, to, jobs[j].attempt_number, jobs[j].lease_owner)
        /\ to \notin {"QUEUED", Absent}
    BY <1>t, <1>m, TransitionMoves DEF Status, Absent
  <2> QED
    BY <1>c, <1>m, <2>1, CalmMove
<1>2. ASSUME NEW j \in Jobs, PatchStatus(j) PROVE DispatchOK'
  BY <1>2, <1>m, PatchTargetsAreStatuses DEF PatchStatus, HasActive
<1>3. ASSUME NEW j \in Jobs, UpdateConfig(j) PROVE DispatchOK'
  BY <1>t, <1>3, <1>c DEF UpdateConfig, JobRow, Calm, HasActive
<1>4. ASSUME NEW j \in Jobs, DeleteJob(j) PROVE DispatchOK'
  BY <1>t, <1>4, <1>c DEF DeleteJob, JobRow, Calm, HasActive
<1>5. ASSUME NEW c \in Clients, NEW j \in Jobs, CancelRead(c, j) PROVE DispatchOK'
  BY <1>5, <1>f DEF CancelRead, storeVars
<1>6. ASSUME NEW c \in Clients, CancelFast(c) PROVE DispatchOK'
  <2>1. PICK j \in Jobs : j = calls[c].job
    BY <1>t, <1>6 DEF CancelFast, LocalsOK
  <2>2. calls[c].attempt + 1 \in Nat
    BY <1>t, MaxAttemptsPositive DEF TypeOK, CallState
  <2>3. /\ conditional_transition(j, "CANCELLED")
        /\ ReleaseReservation(j, calls[c].attempt + 1)
    BY <1>6, <2>1 DEF CancelFast
  <2>4. \A i \in Jobs : \A a \in Attempts : HasActive(i, a)' => HasActive(i, a)
    BY <1>t, <2>2, <2>3, ReleaseRows
  <2> QED
    BY <1>m, <2>3, <2>4 DEF Status
<1>7. ASSUME NEW c \in Clients, CancelRequest(c) PROVE DispatchOK'
  BY <1>t, <1>7, <1>c DEF CancelRequest, LocalsOK, JobRow, Calm, HasActive
<1>8. ASSUME NEW c \in Clients, CancelMisses(c) PROVE DispatchOK'
  BY <1>8, <1>f DEF CancelMisses, storeVars
<1> QED
  BY <1>1, <1>2, <1>3, <1>4, <1>5, <1>6, <1>7, <1>8 DEF Api

\* The types a step of the queue needs.
LEMMA QueueTypes ==
    ASSUME DispatchInv
    PROVE  /\ ReservationInv /\ TypeOK /\ LocalsOK /\ LeaseIsOwned
           /\ jobs \in [Jobs -> JobRow]
           /\ outbox \in [Jobs -> Int] /\ topic \in [Jobs -> Nat]
           /\ sched \in [Schedulers -> SchedState]
           /\ ListingIsBehind
           /\ \A j \in Jobs : SentOK(j) /\ \A s \in Schedulers : FreshOK(s, j)
BY DEF DispatchInv, HostInv, ReservationInv, TypeOK, DispatchOK

\* A step that changes no job and no reservation, and consumes no message a worker
\* could claim a job with.
LEMMA DispatchKeeps ==
    ASSUME DispatchInv, TypeOK', UNCHANGED <<jobs, reservations, sched, relay>>,
           \A j \in Jobs : /\ outbox'[j] >= outbox[j]
                           /\ ~LoseMessages /\ Claimable(j) => topic'[j] >= topic[j]
    PROVE  DispatchOK'
<1>1. \A j \in Jobs : Calm(j)
  BY CalmFrame DEF HasActive
<1> QED
  BY <1>1, DispatchFrame

\* Messages: a consumed one was claimed with or could not be.
LEMMA DispatchWorker ==
    ASSUME DispatchInv, TypeOK', NEW w \in Workers, Worker(w)
    PROVE  DispatchOK'
<1>t. /\ ReservationInv /\ LocalsOK /\ jobs \in [Jobs -> JobRow]
      /\ outbox \in [Jobs -> Int] /\ topic \in [Jobs -> Nat]
  BY QueueTypes
<1>u. UNCHANGED <<sched, relay>>
  BY DEF Worker
<1>f. ASSUME UNCHANGED <<storeVars, topic>> PROVE DispatchOK'
  <2>1. \A j \in Jobs : outbox'[j] >= outbox[j] /\ topic'[j] >= topic[j]
    BY <1>t, <1>f DEF storeVars
  <2> QED
    BY <1>u, <1>f, <2>1, DispatchKeeps DEF storeVars
<1>d. ASSUME NEW j \in Jobs, Deliver(j), UNCHANGED storeVars PROVE DispatchOK'
  <2>1. \A i \in Jobs : outbox'[i] >= outbox[i] /\ topic'[i] >= topic[i]
    BY <1>t, <1>d DEF storeVars, Deliver
  <2> QED
    BY <1>u, <1>d, <2>1, DispatchKeeps DEF storeVars
<1>1. ASSUME NEW j \in Jobs, Claim(w, j) PROVE DispatchOK'
  <2>1. Moved(j, "RUNNING", jobs[j].attempt_number + 1, w)
    BY <1>t, <1>1, ClaimMoves
  <2>2. UNCHANGED <<reservations, outbox>> /\ topic' = [topic EXCEPT ![j] = topic[j] - 1]
    BY <1>1 DEF Claim, Consume
  <2>3. \A i \in Jobs : Calm(i)
    BY <2>1, <2>2, CalmMove DEF HasActive, Absent
  <2>4. ~Claimable(j)'
    BY <2>1 DEF Claimable, Eligible, Moved
  <2>5. \A i \in Jobs : outbox'[i] >= outbox[i] /\ (i # j => topic'[i] >= topic[i])
    BY <1>t, <2>2
  <2> QED
    BY <1>u, <2>3, <2>4, <2>5, DispatchFrame
<1>2. ASSUME NEW j \in Jobs, NotClaimed(w, j) PROVE DispatchOK'
  <2>1. \A i \in Jobs : outbox'[i] >= outbox[i] /\ (i # j => topic'[i] >= topic[i])
    BY <1>t, <1>2 DEF NotClaimed, Consume, storeVars
  <2> QED
    BY <1>u, <1>2, <2>1, DispatchKeeps DEF NotClaimed, storeVars
<1>3. CASE InsertAttempt(w)
  <2>1. \A j \in Jobs : outbox'[j] >= outbox[j] /\ topic'[j] >= topic[j]
    BY <1>t, <1>3 DEF InsertAttempt
  <2> QED
    BY <1>u, <1>3, <2>1, DispatchKeeps DEF InsertAttempt
<1>4. CASE Heartbeat(w)
  <2>1. \A j \in Jobs : outbox'[j] >= outbox[j] /\ topic'[j] >= topic[j]
    BY <1>t, <1>4 DEF Heartbeat
  <2>2. \A j \in Jobs : Calm(j)
    BY <1>t, <1>4 DEF Heartbeat, Calm, HasActive, JobRow
  <2> QED
    BY <1>u, <2>1, <2>2, DispatchFrame
<1>5. CASE Finalize(w)
  <2>1. PICK j \in Jobs, to \in Status :
           /\ j = work[w].job
           /\ Moved(j, to, jobs[j].attempt_number, None)
           /\ ReleaseReservation(j, jobs[j].attempt_number)
    BY <1>t, <1>5, FinalizeMoves
  <2>2. jobs[j].lease_owner # None /\ UNCHANGED <<outbox, topic>>
    BY <1>5, <2>1, WorkersAreNotNull DEF Finalize, Owns
  <2> QED
    BY <1>u, <2>1, <2>2, DispatchLeaves
<1>6. CASE \/ Reload(w) \/ StartExecutor(w) \/ FinishExecutor(w) \/ Abandon(w)
           \/ FinalizeRejected(w) \/ WorkerRaises(w)
  BY <1>6, <1>f DEF Reload, StartExecutor, FinishExecutor, Abandon, FinalizeRejected, WorkerRaises
<1>7. CASE WorkerCrash(w) \/ Redeliver(w)
  BY <1>7, <1>t, <1>d DEF WorkerCrash, Redeliver, LocalsOK
<1>8. ASSUME NEW j \in Jobs, ClaimRaises(w, j) PROVE DispatchOK'
  <2>1. LoseMessages /\ \A i \in Jobs : outbox'[i] >= outbox[i]
    BY <1>t, <1>8 DEF ClaimRaises, storeVars
  <2> QED
    BY <1>u, <1>8, <2>1, DispatchKeeps DEF ClaimRaises, storeVars
<1> QED
  BY <1>1, <1>2, <1>3, <1>4, <1>5, <1>6, <1>7, <1>8 DEF Worker, WorkerStep

\* Recovery: the rows it adds only help, and what it reclaims is parked.
LEMMA DispatchRecovery ==
    ASSUME DispatchInv, TypeOK', NEW r \in Recoveries, Recovery(r)
    PROVE  DispatchOK'
<1>t. /\ ReservationInv /\ LocalsOK /\ LeaseIsOwned /\ jobs \in [Jobs -> JobRow]
      /\ outbox \in [Jobs -> Int] /\ topic \in [Jobs -> Nat]
  BY QueueTypes
<1>u. UNCHANGED <<sched, relay, topic>>
  BY DEF Recovery
<1>1. CASE Reclaim(r)
  <2>1. PICK j \in Jobs, to \in Status :
           /\ jobs[j].lease = "expired"
           /\ Moved(j, to, jobs[j].attempt_number, None)
           /\ ReleaseReservation(j, jobs[j].attempt_number)
    BY <1>t, <1>1, ReclaimMoves
  <2>2. jobs[j].lease_owner # None /\ UNCHANGED outbox
    BY <1>1, <1>t, <2>1 DEF Reclaim, LeaseIsOwned
  <2> QED
    BY <1>u, <2>1, <2>2, DispatchLeaves
<1>2. CASE Dispatch(r)
  <2>1. \A j \in Jobs : outbox'[j] >= outbox[j] /\ topic'[j] >= topic[j]
    BY <1>t, <1>u, <1>2 DEF Dispatch, insert_event
  <2> QED
    BY <1>u, <1>2, <2>1, DispatchKeeps DEF Dispatch
<1>3. CASE ClearRetry(r)
  <2>1. \A j \in Jobs : outbox'[j] >= outbox[j] /\ topic'[j] >= topic[j]
    BY <1>t, <1>u, <1>3 DEF ClearRetry
  <2>2. \A j \in Jobs : Calm(j)
    BY <1>t, <1>3 DEF ClearRetry, Calm, HasActive, JobRow
  <2> QED
    BY <1>u, <2>1, <2>2, DispatchFrame
<1>4. CASE ListStale(r) \/ ReclaimLoses(r) \/ ListDue(r) \/ RecoveryCrash(r)
  <2>1. UNCHANGED storeVars
    BY <1>4 DEF ListStale, ReclaimLoses, ListDue, RecoveryCrash
  <2>2. \A j \in Jobs : outbox'[j] >= outbox[j] /\ topic'[j] >= topic[j]
    BY <1>t, <1>u, <2>1 DEF storeVars
  <2> QED
    BY <1>u, <2>1, <2>2, DispatchKeeps DEF storeVars
<1> QED
  BY <1>1, <1>2, <1>3, <1>4 DEF Recovery, RecoveryStep

\* The clock ends backoffs and leases.
LEMMA DispatchClock ==
    ASSUME DispatchInv, TypeOK', Clock
    PROVE  DispatchOK'
<1>1. UNCHANGED <<sched, relay, topic, outbox, reservations>>
  BY DEF Clock, LeaseExpires, RetryDue
<1>2. \A j \in Jobs : outbox'[j] >= outbox[j] /\ topic'[j] >= topic[j]
  BY <1>1, QueueTypes
<1>3. PICK j \in Jobs : LeaseExpires(j) \/ RetryDue(j)
  BY DEF Clock
<1>4. \A i \in Jobs : i # j => Calm(i)
  BY <1>1, <1>3, QueueTypes, CalmFrame DEF LeaseExpires, RetryDue, HasActive
<1>5. jobs[j] \in JobRow
  BY QueueTypes
<1>6. CASE LeaseExpires(j)
  <2>1. jobs'[j] = [jobs[j] EXCEPT !.lease = "expired"]
    BY <1>6, QueueTypes DEF LeaseExpires
  <2>2. Calm(j)
    BY <1>1, <1>5, <2>1 DEF Calm, HasActive, JobRow
  <2> QED
    BY <1>1, <1>2, <1>4, <2>2, DispatchFrame
<1>7. CASE RetryDue(j)
  <2>1. jobs'[j] = [jobs[j] EXCEPT !.next_retry = "due"]
    BY <1>7, QueueTypes DEF RetryDue
  <2>2. Calm(j)
    BY <1>1, <1>5, <2>1 DEF Calm, HasActive, JobRow
  <2> QED
    BY <1>1, <1>2, <1>4, <2>2, DispatchFrame
<1> QED
  BY <1>3, <1>6, <1>7

\* A scheduler that takes a step without admitting.
LEMMA DispatchScans ==
    ASSUME DispatchInv, TypeOK', UNCHANGED <<jobs, reservations, outbox, topic, relay>>,
           \A j \in Jobs : \A s \in Schedulers : FreshOK(s, j)'
    PROVE  DispatchOK'
<1>1. ASSUME NEW j \in Jobs PROVE SentOK(j)'
  <2>1. SentOK(j)
    BY QueueTypes
  <2>2. Claimable(j)' <=> Claimable(j)
    BY DEF HasActive, Claimable, Eligible
  <2> QED
    BY <2>1, <2>2 DEF SentOK, Announced, HasActive
<1> QED
  BY <1>1 DEF DispatchOK

\* Admission: the listing that made the job eligible is still fresh if the attempt it
\* reserves is the next one, and the event is inserted in the same transaction.
LEMMA DispatchScheduler ==
    ASSUME DispatchInv, TypeOK', NEW s \in Schedulers, Scheduler(s)
    PROVE  DispatchOK'
<1>t. /\ TypeOK /\ LocalsOK /\ ListingIsBehind /\ jobs \in [Jobs -> JobRow]
      /\ outbox \in [Jobs -> Int] /\ topic \in [Jobs -> Nat]
      /\ sched \in [Schedulers -> SchedState]
  BY QueueTypes
<1>u. UNCHANGED <<relay, topic>> /\ UNCHANGED jobs
  BY DEF Scheduler, SchedulerStep, SchedulerCrash, StartPass, NextCandidate, Recheck,
     RecheckRejects, Reserve, ReserveConflicts, ReserveRejects, RecordAdmitted, storeVars
<1>f. ASSUME NEW v \in Schedulers, NEW j \in Jobs, sched'[v] = sched[v] PROVE FreshOK(v, j)'
  <2>1. FreshOK(v, j)
    BY QueueTypes
  <2> QED
    BY <1>u, <1>f, <2>1 DEF FreshOK, LooksAt
<1>s. \A v \in Schedulers : v # s => sched'[v] = sched[v]
  <2>1. \E row : sched' = [sched EXCEPT ![s] = row]
    BY DEF Scheduler, SchedulerStep, SchedulerCrash, StartPass, NextCandidate, Recheck,
       RecheckRejects, Reserve, ReserveConflicts, ReserveRejects, RecordAdmitted, LoadCandidate,
       Continue
  <2> QED
    BY <1>t, <2>1
<1>n. ASSUME sched'[s].pc \notin {"check", "reserve"}
      PROVE  \A j \in Jobs : \A v \in Schedulers : FreshOK(v, j)'
  BY <1>f, <1>n, <1>s DEF FreshOK, LooksAt
<1>c. ASSUME NEW n \in Nat, Continue(s, n) PROVE sched'[s].pc \notin {"check", "reserve"}
  BY <1>t, <1>c DEF Continue, SchedIdle
<1>a. sched[s].admitted \in Nat
  BY <1>t DEF SchedState
<1>1. ASSUME NEW j \in Jobs, NEW todo, NEW n, LoadCandidate(s, j, todo, n), UNCHANGED storeVars
      PROVE  DispatchOK'
  <2>1. /\ sched'[s].job = j
        /\ sched'[s].eligible => jobs[j].status = "QUEUED" /\ jobs[j].next_retry # "waiting"
    BY <1>t, <1>1 DEF LoadCandidate
  <2>2. ASSUME NEW i \in Jobs PROVE FreshOK(s, i)'
    BY <1>u, <2>1, <2>2 DEF FreshOK, LooksAt, Absent
  <2>3. \A i \in Jobs : \A v \in Schedulers : FreshOK(v, i)'
    BY <1>f, <1>s, <2>2
  <2> QED
    BY <1>u, <1>1, <2>3, DispatchScans DEF storeVars
<1>2. CASE StartPass(s) \/ NextCandidate(s)
  <2>1. sched[s].todo \subseteq Jobs /\ list_schedulable \subseteq Jobs
    BY <1>t DEF SchedState, list_schedulable
  <2> QED
    BY <1>1, <1>2, <2>1 DEF StartPass, NextCandidate
<1>3. CASE Recheck(s)
  <2>1. /\ sched[s].pc = "check" /\ sched'[s].eligible = sched[s].eligible
        /\ sched'[s].job = sched[s].job /\ sched'[s].attempt = sched[s].attempt
    BY <1>t, <1>3 DEF Recheck, SchedState
  <2>2. ASSUME NEW j \in Jobs PROVE FreshOK(s, j)'
    <3>1. FreshOK(s, j)
      BY QueueTypes
    <3> QED
      BY <1>u, <2>1, <3>1 DEF FreshOK, LooksAt
  <2>3. \A i \in Jobs : \A v \in Schedulers : FreshOK(v, i)'
    BY <1>f, <1>s, <2>2
  <2> QED
    BY <1>u, <1>3, <2>3, DispatchScans DEF Recheck, storeVars
<1>4. CASE RecheckRejects(s) \/ ReserveRejects(s) \/ RecordAdmitted(s)
  <2>1. sched[s].admitted + 1 \in Nat
    BY <1>a
  <2>2. sched'[s].pc \notin {"check", "reserve"}
    BY <1>4, <1>a, <1>c, <2>1 DEF RecheckRejects, ReserveRejects, RecordAdmitted
  <2>3. UNCHANGED <<reservations, outbox>>
    BY <1>4 DEF RecheckRejects, ReserveRejects, RecordAdmitted
  <2> QED
    BY <1>u, <1>n, <2>2, <2>3, DispatchScans
<1>5. CASE ReserveConflicts(s) \/ SchedulerCrash(s)
  <2>1. sched'[s].pc = "idle" /\ UNCHANGED <<reservations, outbox>>
    BY <1>t, <1>5 DEF ReserveConflicts, SchedulerCrash, SchedIdle, storeVars
  <2> QED
    BY <1>u, <1>n, <2>1, DispatchScans
<1>6. CASE Reserve(s)
  <2>1. PICK j \in Jobs : j = sched[s].job
    BY <1>t, <1>6 DEF Reserve, LocalsOK
  <2>2. PICK a \in Attempts : a = sched[s].attempt
    BY <1>t, <1>6, <2>1 DEF Reserve, ListingIsBehind
  <2>3. LooksAt(s, j)
    BY <1>t, <1>6, <2>1 DEF Reserve, ListingIsBehind, LooksAt
  <2>4. /\ jobs[j].status # Absent
        /\ jobs[j].status = "QUEUED" /\ a = jobs[j].attempt_number + 1
              => jobs[j].next_retry # "waiting"
    BY <2>2, <2>3, QueueTypes DEF FreshOK
  <2>5. /\ outbox'[j] = outbox[j] + 1
        /\ \A i \in Jobs : i # j => outbox'[i] = outbox[i]
    BY <1>t, <1>6, <2>1 DEF Reserve, insert_event
  <2>6. \A i \in Jobs : \A b \in Attempts :
           HasActive(i, b)' => HasActive(i, b) \/ (i = j /\ b = a)
    BY <1>t, <1>6, <2>1, <2>2 DEF Reserve, HasActive, TypeOK
  <2>7. ASSUME NEW i \in Jobs, i # j PROVE SentOK(i)'
    <3>1. SentOK(i)
      BY QueueTypes
    <3>2. \A b : HasActive(i, b)' => HasActive(i, b)
      BY <2>6, <2>7 DEF HasActive
    <3>3. Claimable(i)' => Claimable(i)
      BY <1>u, <3>2 DEF Claimable, Eligible, HasActive
    <3> QED
      BY <1>u, <2>5, <2>7, <3>1, <3>2, <3>3 DEF SentOK, Announced, HasActive
  <2>8. SentOK(j)'
    <3>1. SentOK(j) /\ outbox[j] \in Int
      BY <1>t, QueueTypes
    <3>2. /\ outbox'[j] > (IF relay' = j THEN 1 ELSE 0)
          /\ outbox'[j] >= (IF relay' = j THEN 1 ELSE 0)
      BY <1>u, <2>5, <3>1 DEF SentOK
    <3>3. /\ \A b \in Attempts : HasActive(j, b)' => jobs'[j].status # Absent
          /\ jobs'[j].status = "QUEUED" /\ HasActive(j, jobs[j].attempt_number + 1)'
                => jobs'[j].next_retry # "waiting"
      BY <1>u, <2>4, <2>6, <3>1 DEF SentOK, HasActive
    <3> QED
      BY <3>2, <3>3 DEF SentOK, Announced
  <2>9. sched'[s].pc = "record"
    BY <1>t, <1>6 DEF Reserve, SchedState
  <2> QED
    BY <1>n, <2>7, <2>8, <2>9 DEF DispatchOK
<1> QED
  BY <1>2, <1>3, <1>4, <1>5, <1>6 DEF Scheduler, SchedulerStep

LEMMA DispatchInvInit == Init => DispatchInv
<1> SUFFICES ASSUME Init PROVE DispatchInv
  OBVIOUS
<1>1. HostInv
  BY HostInvInit
<1>2. ASSUME NEW j \in Jobs PROVE SentOK(j)
  BY WorkersAreNotNull
  DEF Init, StoreInit, RelayInit, NoRow, Absent, SentOK, HasActive, Claimable, Eligible
<1>3. ASSUME NEW s \in Schedulers, NEW j \in Jobs PROVE FreshOK(s, j)
  BY DEF Init, SchedInit, SchedIdle, FreshOK, LooksAt
<1> QED
  BY <1>1, <1>2, <1>3 DEF DispatchInv, DispatchOK

LEMMA DispatchInvStep == DispatchInv /\ [Next]_vars => DispatchInv'
<1> SUFFICES ASSUME DispatchInv, [Next]_vars PROVE DispatchInv'
  OBVIOUS
<1>1. HostInv' /\ TypeOK'
  BY HostInvStep DEF DispatchInv, HostInv, ReservationInv
<1>2. CASE UNCHANGED vars
  <2>1. \A j \in Jobs : outbox'[j] >= outbox[j] /\ topic'[j] >= topic[j]
    BY <1>2, QueueTypes DEF vars, storeVars
  <2> QED
    BY <1>1, <1>2, <2>1, DispatchKeeps DEF DispatchInv, vars, storeVars
<1>3. CASE Next
  BY <1>1, <1>3, DispatchApi, DispatchScheduler, DispatchRelay, DispatchWorker, DispatchRecovery,
     DispatchClock DEF DispatchInv, Next
<1> QED
  BY <1>2, <1>3

\* An admitted job that a worker could claim always has a message on its way, whatever
\* crashes, duplicates and retries do (insert_event in try_admit's transaction, the
\* relay's publish-then-mark, the worker's commit of the offset).
THEOREM ClaimableJobIsDispatched == Spec => []ClaimableIsDispatched
<1>1. DispatchInv => ClaimableIsDispatched
  BY DEF DispatchInv, DispatchOK, SentOK, ClaimableIsDispatched
<1> QED
  BY <1>1, DispatchInvInit, DispatchInvStep, PTL DEF Spec

-----------------------------------------------------------------------------
(* Nobody is forgotten. *)

\* A reservation is released when its attempt ends, or with its job: a primary key
\* that a later attempt needs is never used up.
ReleasedIsPast ==
    \A j \in Jobs : \A a \in Attempts :
        reservations[<<j, a>>].status = "RELEASED" =>
            a <= jobs[j].attempt_number \/ jobs[j].status \in Terminal

\* An owner's lease has an expiry (the converse of LeaseIsOwned), and but for a PATCH a job
\* runs under an owner.
OwnedHasLease ==
    \A j \in Jobs :
        /\ jobs[j].lease_owner # None => jobs[j].lease # "none"
        /\ PatchTargets = {} /\ jobs[j].status = "RUNNING" => jobs[j].lease_owner # None

FoundInv == HistoryInv /\ DispatchInv /\ ReleasedIsPast /\ OwnedHasLease

\* A step that releases nothing but what is over by then.
LEMMA ReleasedFrame ==
    ASSUME FoundInv, RowsMove, TypeOK',
           \A j \in Jobs : \A a \in Attempts :
              reservations'[<<j, a>>].status = "RELEASED" =>
                 \/ reservations[<<j, a>>].status = "RELEASED"
                 \/ a <= jobs'[j].attempt_number
                 \/ jobs'[j].status \in Terminal
    PROVE  ReleasedIsPast'
<1> SUFFICES ASSUME NEW j \in Jobs, NEW a \in Attempts,
                    reservations[<<j, a>>].status = "RELEASED"
             PROVE  a <= jobs'[j].attempt_number \/ jobs'[j].status \in Terminal
  BY DEF ReleasedIsPast
<1>1. a <= jobs[j].attempt_number \/ jobs[j].status \in Terminal
  BY DEF FoundInv, ReleasedIsPast
<1>2. /\ jobs[j].attempt_number \in Int /\ jobs'[j].attempt_number \in Int /\ a \in Int
      /\ jobs'[j].attempt_number >= jobs[j].attempt_number
  <2>1. jobs[j].attempt_number \in 0..MaxAttempts /\ jobs'[j].attempt_number \in 0..MaxAttempts
    BY RowTypes DEF FoundInv, TypeOK, JobRow
  <2> QED
    BY <2>1, RowTypes DEF RowsMove, Grows, Attempts, FoundInv
<1>3. jobs[j].status \in Terminal => jobs'[j].status \in Terminal
  BY DEF RowsMove, Kept
<1> QED
  BY <1>1, <1>2, <1>3

\* Releasing marks at most the row it is asked for.
LEMMA ReleasesOneRow ==
    ASSUME TypeOK, NEW j \in Jobs, NEW b, ReleaseReservation(j, b)
    PROVE  \A i \in Jobs : \A a \in Attempts :
              reservations'[<<i, a>>].status = "RELEASED" =>
                 reservations[<<i, a>>].status = "RELEASED" \/ (i = j /\ a = b)
<1>1. reservations \in [Jobs \X Attempts -> ReservationRow]
  BY DEF TypeOK
<1>2. CASE HasActive(j, b)
  <2>1. reservations' = [reservations EXCEPT ![<<j, b>>] = [@ EXCEPT !.status = "RELEASED"]]
    BY <1>2 DEF ReleaseReservation
  <2> QED
    BY <1>1, <2>1
<1>3. CASE ~HasActive(j, b)
  BY <1>3 DEF ReleaseReservation
<1> QED
  BY <1>2, <1>3

\* Who touches the reservations, and what the job is like then.
LEMMA ReleasedStep == FoundInv /\ [Next]_vars => ReleasedIsPast'
<1> SUFFICES ASSUME FoundInv, [Next]_vars PROVE ReleasedIsPast'
  OBVIOUS
<1>t. /\ ReservationInv /\ TypeOK /\ LocalsOK /\ RowsMove /\ TypeOK'
      /\ \A j \in Jobs : jobs'[j].attempt_number \in Int
  <2>1. HistoryInv /\ ReservationInv /\ TypeOK /\ LocalsOK
    BY RowTypes DEF FoundInv
  <2>2. RowsMove
    BY <2>1, RowsStep
  <2>3. TypeOK'
    BY <2>1, ReservationStep DEF ReservationInv
  <2>4. \A j \in Jobs : jobs'[j].attempt_number \in 0..MaxAttempts
    BY <2>3 DEF TypeOK, JobRow
  <2> QED
    BY <2>1, <2>2, <2>3, <2>4, MaxAttemptsPositive
<1>f. ASSUME UNCHANGED reservations PROVE ReleasedIsPast'
  BY <1>f, <1>t, ReleasedFrame
<1>r. ASSUME NEW j \in Jobs, NEW b, ReleaseReservation(j, b),
             b = jobs'[j].attempt_number \/ jobs'[j].status \in Terminal
      PROVE  ReleasedIsPast'
  <2>1. \A i \in Jobs : \A a \in Attempts :
           reservations'[<<i, a>>].status = "RELEASED" =>
              reservations[<<i, a>>].status = "RELEASED" \/ (i = j /\ a = b)
    BY <1>t, <1>r, ReleasesOneRow
  <2> QED
    BY <1>t, <1>r, <2>1, ReleasedFrame
<1>1. CASE Api
  <2>1. ASSUME NEW c \in Clients, CancelFast(c) PROVE ReleasedIsPast'
    <3>1. PICK j \in Jobs : j = calls[c].job
      BY <1>t, <2>1 DEF CancelFast, LocalsOK
    <3>2. /\ conditional_transition(j, "CANCELLED")
          /\ ReleaseReservation(j, calls[c].attempt + 1)
      BY <2>1, <3>1 DEF CancelFast
    <3>3. jobs'[j].status = "CANCELLED"
      BY <1>t, <3>2, TransitionMoves DEF Status, Moved
    <3> QED
      BY <1>r, <3>2, <3>3, Sources
  <2> QED
    BY <1>1, <1>f, <2>1
    DEF Api, CreateJob, PatchStatus, UpdateConfig, DeleteJob, CancelRead, CancelRequest,
        CancelMisses, storeVars
<1>2. ASSUME NEW s \in Schedulers, Scheduler(s) PROVE ReleasedIsPast'
  <2>1. CASE Reserve(s)
    <3>1. \A j \in Jobs : \A a \in Attempts :
             reservations'[<<j, a>>].status = "RELEASED" =>
                reservations[<<j, a>>].status = "RELEASED"
      BY <1>t, <2>1 DEF Reserve, TypeOK
    <3> QED
      BY <1>t, <3>1, ReleasedFrame
  <2> QED
    BY <1>2, <1>f, <2>1
    DEF Scheduler, SchedulerStep, SchedulerCrash, StartPass, NextCandidate, Recheck,
        RecheckRejects, ReserveConflicts, ReserveRejects, RecordAdmitted, storeVars
<1>3. CASE Relay
  BY <1>3, <1>f DEF Relay, RelayStep, Publish, MarkPublished, RelayCrash, storeVars
<1>4. ASSUME NEW w \in Workers, Worker(w) PROVE ReleasedIsPast'
  <2>1. CASE Finalize(w)
    BY <1>t, <2>1, <1>r, FinalizeMoves DEF Moved
  <2>2. ASSUME NEW j \in Jobs, Claim(w, j) \/ NotClaimed(w, j) \/ ClaimRaises(w, j)
        PROVE  ReleasedIsPast'
    BY <2>2, <1>f DEF Claim, NotClaimed, ClaimRaises, storeVars
  <2> QED
    BY <1>4, <1>f, <2>1, <2>2
    DEF Worker, WorkerStep, Reload, InsertAttempt, StartExecutor, Heartbeat, FinishExecutor,
        Abandon, FinalizeRejected, WorkerCrash, WorkerRaises, Redeliver, storeVars
<1>5. ASSUME NEW r \in Recoveries, Recovery(r) PROVE ReleasedIsPast'
  <2>1. CASE Reclaim(r)
    BY <1>t, <2>1, <1>r, ReclaimMoves DEF Moved
  <2> QED
    BY <1>5, <1>f, <2>1
    DEF Recovery, RecoveryStep, ListStale, ReclaimLoses, ListDue, Dispatch, ClearRetry,
        RecoveryCrash, storeVars
<1>6. CASE Clock
  BY <1>6, <1>f DEF Clock, LeaseExpires, RetryDue
<1>7. CASE UNCHANGED vars
  BY <1>7, <1>f DEF vars, storeVars
<1> QED
  BY <1>1, <1>2, <1>3, <1>4, <1>5, <1>6, <1>7 DEF Next

\* Where an owner and a lease come and go together.
LEMMA LeaseFrame ==
    ASSUME OwnedHasLease,
           \A j \in Jobs : \/ jobs'[j].lease_owner = None /\ jobs'[j].status # "RUNNING"
                           \/ jobs'[j].lease_owner # None /\ jobs'[j].lease # "none"
                           \/ /\ jobs'[j].lease_owner = jobs[j].lease_owner
                              /\ jobs[j].lease # "none" => jobs'[j].lease # "none"
                              /\ jobs'[j].status = "RUNNING" =>
                                    jobs[j].status = "RUNNING" \/ PatchTargets # {}
    PROVE  OwnedHasLease'
BY DEF OwnedHasLease

\* No step drops the lease of an owner, or takes one without an expiry.
LEMMA LeaseStep == FoundInv /\ [Next]_vars => OwnedHasLease'
<1> SUFFICES ASSUME FoundInv, [Next]_vars PROVE OwnedHasLease'
  OBVIOUS
<1>t. /\ ReservationInv /\ TypeOK /\ LocalsOK /\ OwnedHasLease
      /\ jobs \in [Jobs -> JobRow] /\ recov \in [Recoveries -> RecoveryState]
  BY RowTypes DEF FoundInv, TypeOK
<1>f. ASSUME UNCHANGED jobs PROVE OwnedHasLease'
  BY <1>t, <1>f, LeaseFrame
<1>d. ASSUME NEW j \in Jobs, NEW to, to # "RUNNING", NEW retry, LeaveRunning(j, to, retry)
      PROVE  OwnedHasLease'
  <2>1. /\ jobs'[j].lease_owner = None /\ jobs'[j].status # "RUNNING"
        /\ \A i \in Jobs : i # j => jobs'[i] = jobs[i]
    BY <1>t, <1>d DEF LeaveRunning, JobRow
  <2> QED
    BY <1>t, <2>1, LeaseFrame
<1>1. CASE Api
  <2>m. ASSUME NEW j \in Jobs, NEW to, conditional_transition(j, to),
               to # "RUNNING" \/ PatchTargets # {}
        PROVE  OwnedHasLease'
    BY <1>t, <2>m, LeaseFrame DEF conditional_transition, JobRow
  <2>1. ASSUME NEW j \in Jobs, CreateJob(j) PROVE OwnedHasLease'
    <3>1. PICK q \in Requests :
             jobs' = [jobs EXCEPT ![j] = [NoRow EXCEPT !.status = "QUEUED", !.request = q]]
      BY <2>1 DEF CreateJob
    <3>2. /\ jobs'[j].lease_owner = None /\ jobs'[j].status # "RUNNING"
          /\ \A i \in Jobs : i # j => jobs'[i] = jobs[i]
      BY <1>t, <3>1 DEF NoRow
    <3> QED
      BY <1>t, <3>2, LeaseFrame
  <2>2. ASSUME NEW j \in Jobs, UpdateConfig(j) \/ DeleteJob(j) PROVE OwnedHasLease'
    BY <1>t, <2>2, LeaseFrame DEF UpdateConfig, DeleteJob, JobRow
  <2>3. ASSUME NEW c \in Clients, CancelFast(c) \/ CancelRequest(c) PROVE OwnedHasLease'
    <3>1. calls[c].job \in Jobs
      BY <1>t, <2>3 DEF CancelFast, CancelRequest, LocalsOK
    <3>2. CASE CancelFast(c)
      BY <2>m, <3>1, <3>2 DEF CancelFast
    <3>3. CASE CancelRequest(c)
      BY <1>t, <3>3, LeaseFrame DEF CancelRequest, JobRow
    <3> QED
      BY <2>3, <3>2, <3>3
  <2> QED
    BY <1>1, <1>f, <2>m, <2>1, <2>2, <2>3
    DEF Api, PatchStatus, CancelRead, CancelMisses, storeVars
<1>2. ASSUME NEW s \in Schedulers, Scheduler(s) PROVE OwnedHasLease'
  BY <1>2, <1>f DEF Scheduler, SchedulerStep, SchedulerCrash, StartPass, NextCandidate, Recheck,
     RecheckRejects, Reserve, ReserveConflicts, ReserveRejects, RecordAdmitted, storeVars
<1>3. CASE Relay
  BY <1>3, <1>f DEF Relay, RelayStep, Publish, MarkPublished, RelayCrash, storeVars
<1>4. ASSUME NEW w \in Workers, Worker(w) PROVE OwnedHasLease'
  <2>1. ASSUME NEW j \in Jobs, Claim(w, j) PROVE OwnedHasLease'
    <3>1. /\ jobs'[j].lease = "live" /\ jobs'[j].lease_owner # None
          /\ \A i \in Jobs : i # j => jobs'[i] = jobs[i]
      BY <1>t, <2>1, WorkersAreNotNull DEF Claim, claim, JobRow
    <3> QED
      BY <1>t, <3>1, LeaseFrame
  <2>2. CASE Finalize(w)
    BY <1>t, <1>d, <2>2 DEF Finalize, LocalsOK, JobOutcome
  <2>3. CASE Heartbeat(w)
    BY <1>t, <1>f, <2>3, LeaseFrame DEF Heartbeat, JobRow
  <2>4. ASSUME NEW j \in Jobs, NotClaimed(w, j) \/ ClaimRaises(w, j) PROVE OwnedHasLease'
    BY <2>4, <1>f DEF NotClaimed, ClaimRaises, storeVars
  <2> QED
    BY <1>4, <1>f, <2>1, <2>2, <2>3, <2>4
    DEF Worker, WorkerStep, Reload, InsertAttempt, StartExecutor, FinishExecutor, Abandon,
        FinalizeRejected, WorkerCrash, WorkerRaises, Redeliver, storeVars
<1>5. ASSUME NEW r \in Recoveries, Recovery(r) PROVE OwnedHasLease'
  <2>1. CASE Reclaim(r)
    <3>1. PICK j \in recov[r].todo :
             LeaveRunning(j, ReclaimTarget(j),
                          IF ReclaimTarget(j) = "QUEUED" THEN "waiting" ELSE "none")
      BY <2>1 DEF Reclaim
    <3>2. j \in Jobs
      BY <1>t DEF RecoveryState
    <3> QED
      BY <1>d, <3>1, <3>2 DEF ReclaimTarget
  <2>2. CASE ClearRetry(r)
    BY <1>t, <2>2, LeaseFrame DEF ClearRetry, JobRow
  <2> QED
    BY <1>5, <1>f, <2>1, <2>2
    DEF Recovery, RecoveryStep, ListStale, ReclaimLoses, ListDue, Dispatch, RecoveryCrash,
        storeVars
<1>6. CASE Clock
  BY <1>6, <1>t, LeaseFrame DEF Clock, LeaseExpires, RetryDue, JobRow
<1>7. CASE UNCHANGED vars
  BY <1>7, <1>f DEF vars, storeVars
<1> QED
  BY <1>1, <1>2, <1>3, <1>4, <1>5, <1>6, <1>7 DEF Next

\* Nothing is reserved or leased at first.
LEMMA FoundInvInit == Init => FoundInv
<1> SUFFICES ASSUME Init PROVE ReleasedIsPast /\ OwnedHasLease
  BY HistoryInvInit, DispatchInvInit DEF FoundInv
<1> QED
  BY DEF Init, StoreInit, NoRow, Absent, ReleasedIsPast, OwnedHasLease

LEMMA FoundInvStep == FoundInv /\ [Next]_vars => FoundInv'
<1> SUFFICES ASSUME FoundInv, [Next]_vars PROVE FoundInv'
  OBVIOUS
<1>1. HistoryInv' /\ DispatchInv'
  BY HistoryInvStep, DispatchInvStep DEF FoundInv
<1> QED
  BY <1>1, ReleasedStep, LeaseStep DEF FoundInv

\* What the invariant says of a job that waits and of one that runs.
LEMMA FoundIsEnough == FoundInv => NobodyIsForgotten
<1> SUFFICES ASSUME FoundInv, ~LoseMessages, NEW j \in Jobs, ~jobs[j].deleted
             PROVE  /\ jobs[j].status = "QUEUED" /\ ~jobs[j].cancel_requested =>
                          Admissible(j) \/ (Claimable(j) /\ Announced(j))
                    /\ jobs[j].status = "RUNNING"
                       /\ (PatchTargets = {} \/ jobs[j].lease_owner # None) =>
                          jobs[j].lease \in {"live", "expired"}
  BY DEF NobodyIsForgotten
<1> DEFINE n == jobs[j].attempt_number
<1>t. /\ n \in 0..MaxAttempts /\ MaxAttempts \in Nat
      /\ jobs[j].lease \in {"none", "live", "expired"}
      /\ reservations \in [Jobs \X Attempts -> ReservationRow]
      /\ WaitingIsFree
  BY RowTypes DEF FoundInv, TypeOK, JobRow, ReservationInv
<1>1. ASSUME jobs[j].status = "QUEUED", ~jobs[j].cancel_requested
      PROVE  Admissible(j) \/ (Claimable(j) /\ Announced(j))
  <2>1. n < MaxAttempts /\ n + 1 \in Attempts /\ ~(n + 1 <= n)
    BY <1>t, <1>1 DEF WaitingIsFree, Attempts
  <2>2. reservations[<<j, n + 1>>].status \in {"NONE", "ACTIVE"}
    <3>1. reservations[<<j, n + 1>>].status \in {"NONE", "ACTIVE", "RELEASED"}
      BY <1>t, <2>1 DEF ReservationRow
    <3>2. reservations[<<j, n + 1>>].status # "RELEASED"
      BY <1>1, <2>1, Sources DEF FoundInv, ReleasedIsPast
    <3> QED
      BY <3>1, <3>2
  <2>3. /\ HasActive(j, n + 1) => jobs[j].next_retry # "waiting"
        /\ Claimable(j) => Announced(j)
    BY <1>1 DEF FoundInv, DispatchInv, DispatchOK, SentOK
  <2>4. HasActive(j, n + 1) => Claimable(j)
    BY <1>1, <2>3 DEF Claimable, Eligible
  <2> QED
    BY <2>1, <2>2, <2>3, <2>4 DEF Admissible, KeyIsFree, HasActive
<1>2. ASSUME jobs[j].status = "RUNNING", PatchTargets = {} \/ jobs[j].lease_owner # None
      PROVE  jobs[j].lease \in {"live", "expired"}
  BY <1>t, <1>2 DEF FoundInv, OwnedHasLease
<1> QED
  BY <1>1, <1>2

\* While no message is lost, a job that waits, and that nobody deleted or asked to cancel,
\* can be admitted or is claimable with a message on its way; and a job that runs, PATCHed
\* ones without a lease aside, has a lease that expires: however try_admit, cancel_job,
\* finalize_attempt, reclaim_stale and the retry dispatch interleave.
THEOREM NoJobIsForgotten == Spec => []NobodyIsForgotten
BY FoundInvInit, FoundInvStep, FoundIsEnough, PTL DEF Spec

-----------------------------------------------------------------------------
(* Capacity comes back. *)

\* Job j ended by its attempts.
Done(j) == PatchTargets = {} /\ jobs[j].status \in {"SUCCEEDED", "FAILED"}

\* A job that ended by its attempts has no owner, and no scheduler looks at an attempt
\* of it that was not admitted before.
DoneIsBehind ==
    \A j \in Jobs : Done(j) =>
        /\ jobs[j].lease_owner = None
        /\ \A s \in Schedulers : LooksAt(s, j) => sched[s].attempt <= jobs[j].attempt_number

CapacityInv == HistoryInv /\ OverHoldsNothing /\ DoneIsBehind

\* A step that reserves nothing, ends no attempt, and shows a job that is done to no
\* scheduler.
Quiet ==
    /\ \A j \in Jobs : \A a \in Attempts :
          /\ HasActive(j, a)' => HasActive(j, a)
          /\ attempts'[<<j, a>>] \in EndedStatus => attempts[<<j, a>>] \in EndedStatus
    /\ \A j \in Jobs : Done(j)' =>
          /\ Done(j)
          /\ jobs'[j].attempt_number = jobs[j].attempt_number
          /\ jobs'[j].lease_owner = jobs[j].lease_owner
          /\ \A s \in Schedulers :
                LooksAt(s, j)' => LooksAt(s, j) /\ sched'[s].attempt = sched[s].attempt

CapacityKept == OverHoldsNothing' /\ DoneIsBehind'

LEMMA QuietKeeps ==
    ASSUME CapacityInv, TypeOK', Quiet
    PROVE  CapacityKept
<1>1. OverHoldsNothing'
  <2> SUFFICES ASSUME NEW j \in Jobs, NEW a \in Attempts, HasActive(j, a)'
               PROVE  /\ attempts'[<<j, a>>] \in {"NONE", "RUNNING"}
                      /\ PatchTargets = {} => jobs'[j].status \notin {"SUCCEEDED", "FAILED"}
    BY DEF OverHoldsNothing
  <2>1. /\ attempts[<<j, a>>] \in {"NONE", "RUNNING"}
        /\ PatchTargets = {} => jobs[j].status \notin {"SUCCEEDED", "FAILED"}
    BY DEF CapacityInv, OverHoldsNothing, Quiet
  <2>2. attempts'[<<j, a>>] \in {"NONE", "RUNNING"} \cup EndedStatus
    BY DEF TypeOK, AttemptStatus, EndedStatus
  <2> QED
    BY <2>1, <2>2 DEF Quiet, Done, EndedStatus
<1>2. DoneIsBehind'
  BY DEF CapacityInv, DoneIsBehind, Quiet
<1> QED
  BY <1>1, <1>2 DEF CapacityKept

\* A step that leaves the attempts alone, reserves nothing and is about no job that is
\* done then.
LEMMA QuietFrame ==
    ASSUME CapacityInv, TypeOK', UNCHANGED <<attempts, sched>>,
           \A j \in Jobs : \A a \in Attempts : HasActive(j, a)' => HasActive(j, a),
           \A j \in Jobs : jobs'[j].status \in {"SUCCEEDED", "FAILED"} /\ PatchTargets = {} =>
              /\ jobs'[j].status = jobs[j].status
              /\ jobs'[j].attempt_number = jobs[j].attempt_number
              /\ jobs'[j].lease_owner = jobs[j].lease_owner
    PROVE  CapacityKept
<1>1. Quiet
  BY DEF Quiet, Done, LooksAt
<1> QED
  BY <1>1, QuietKeeps

\* finalize_attempt and reclaim_stale end the attempt and release what it held, which
\* is all the job held, and old listings are of this attempt at most.
LEMMA CapacityLeaves ==
    ASSUME CapacityInv, TypeOK', UNCHANGED sched, NEW j \in Jobs, NEW to, NEW v,
           jobs[j].lease_owner # None,
           Moved(j, to, jobs[j].attempt_number, None),
           attempts' = [attempts EXCEPT ![<<j, jobs[j].attempt_number>>] = v],
           ReleaseReservation(j, jobs[j].attempt_number)
    PROVE  CapacityKept
<1> DEFINE n == jobs[j].attempt_number
<1>t. /\ TypeOK /\ n \in Nat /\ ReservationFollowsLease /\ ListingIsBehind
      /\ attempts \in [Jobs \X Attempts -> AttemptStatus]
      /\ sched \in [Schedulers -> SchedState]
  BY RowTypes DEF CapacityInv, ReservationInv, TypeOK
<1>1. ReservedAttempt(j) = n
  BY <1>t DEF ReservedAttempt
<1>2. \A i \in Jobs : \A a \in Attempts :
         HasActive(i, a)' <=> HasActive(i, a) /\ ~(i = j /\ a = n)
  <2>1. /\ TypeOK
        /\ n \in Nat
        /\ ReleaseReservation(j, n)
    BY <1>t
  <2> HIDE DEF n
  <2> QED
    BY <2>1, ReleaseRows
<1>3. \A a \in Attempts : ~HasActive(j, a)'
  BY <1>t, <1>1, <1>2 DEF ReservationFollowsLease
<1>4. \A s \in Schedulers : LooksAt(s, j) => sched[s].attempt <= n
  BY <1>t, <1>1 DEF ListingIsBehind, LooksAt
<1>5. \A i \in Jobs : \A a \in Attempts : i # j => attempts'[<<i, a>>] = attempts[<<i, a>>]
  BY <1>t
<1>6. OverHoldsNothing'
  BY <1>2, <1>3, <1>5 DEF OverHoldsNothing, CapacityInv, Moved
<1>7. DoneIsBehind'
  BY <1>4 DEF DoneIsBehind, CapacityInv, Done, LooksAt, Moved
<1> QED
  BY <1>6, <1>7 DEF CapacityKept

\* An admission is of an attempt that has not begun, of a job that is not done.
LEMMA CapacityReserve ==
    ASSUME CapacityInv, TypeOK', NEW s \in Schedulers, Reserve(s)
    PROVE  CapacityKept
<1> DEFINE j == sched[s].job
           a == sched[s].attempt
<1>t. /\ TypeOK /\ LocalsOK /\ ListingIsBehind /\ StartedWasAdmitted
      /\ reservations \in [Jobs \X Attempts -> ReservationRow]
      /\ sched \in [Schedulers -> SchedState]
      /\ UNCHANGED <<jobs, attempts>>
  BY RowTypes DEF CapacityInv, ReservationInv, TypeOK, Reserve
<1>1. j \in Jobs /\ a \in Attempts /\ LooksAt(s, j)
  BY <1>t DEF Reserve, LocalsOK, ListingIsBehind, LooksAt
<1>2. ~(a <= jobs[j].attempt_number)
  BY <1>t, <1>1 DEF Reserve, KeyIsFree, StartedWasAdmitted
<1>3. ~Done(j)
  BY <1>1, <1>2 DEF CapacityInv, DoneIsBehind
<1>4. attempts[<<j, a>>] = "NONE"
  <2>1. jobs[j].attempt_number \in Int /\ a \in Int
    BY <1>1, RowTypes DEF CapacityInv, Attempts
  <2>2. a > jobs[j].attempt_number
    BY <1>2, <2>1
  <2> QED
    BY <1>1, <2>2, Numbered DEF CapacityInv, JobOK, HistoryOf
<1>5. \A i \in Jobs : \A b \in Attempts :
         HasActive(i, b)' => HasActive(i, b) \/ (i = j /\ b = a)
  BY <1>t, <1>1 DEF Reserve, HasActive
<1>6. OverHoldsNothing'
  BY <1>t, <1>3, <1>4, <1>5 DEF OverHoldsNothing, CapacityInv, Done
<1>7. DoneIsBehind'
  <2>1. \A v \in Schedulers : v # s => sched'[v] = sched[v]
    BY <1>t DEF Reserve
  <2>2. sched'[s].pc = "record"
    BY <1>t DEF Reserve, SchedState
  <2> QED
    BY <1>t, <2>1, <2>2 DEF DoneIsBehind, CapacityInv, Done, LooksAt
<1> QED
  BY <1>6, <1>7 DEF CapacityKept

\* A scheduler that does not admit shows no job that is done to itself.
LEMMA CapacityScans ==
    ASSUME CapacityInv, TypeOK', NEW s \in Schedulers, Scheduler(s), ~Reserve(s)
    PROVE  CapacityKept
<1>t. LocalsOK /\ sched \in [Schedulers -> SchedState] /\ sched[s].admitted \in Nat
  BY RowTypes DEF CapacityInv, TypeOK, SchedState
<1>u. UNCHANGED <<jobs, attempts, reservations>>
  BY DEF Scheduler, SchedulerStep, SchedulerCrash, StartPass, NextCandidate, Recheck,
     RecheckRejects, Reserve, ReserveConflicts, ReserveRejects, RecordAdmitted, storeVars
<1>s. \A v \in Schedulers : v # s => sched'[v] = sched[v]
  <2>1. \E row : sched' = [sched EXCEPT ![s] = row]
    BY DEF Scheduler, SchedulerStep, SchedulerCrash, StartPass, NextCandidate, Recheck,
       RecheckRejects, Reserve, ReserveConflicts, ReserveRejects, RecordAdmitted, LoadCandidate,
       Continue
  <2> QED
    BY <1>t, <2>1
<1>c. ASSUME NEW n \in Nat, Continue(s, n) PROVE sched'[s].pc \notin {"check", "reserve"}
  BY <1>t, <1>c DEF Continue, SchedIdle
<1>1. \A j \in Jobs :
         Done(j) /\ LooksAt(s, j)' => LooksAt(s, j) /\ sched'[s].attempt = sched[s].attempt
  <2> SUFFICES ASSUME NEW j \in Jobs, Done(j), LooksAt(s, j)'
               PROVE  LooksAt(s, j) /\ sched'[s].attempt = sched[s].attempt
    OBVIOUS
  <2>1. ASSUME NEW i \in Jobs, NEW todo, NEW n, LoadCandidate(s, i, todo, n) PROVE FALSE
    <3>1. sched'[s].job = i /\ (sched'[s].eligible => jobs[i].status = "QUEUED")
      BY <1>t, <2>1 DEF LoadCandidate
    <3> QED
      BY <3>1 DEF LooksAt, Done
  <2>2. CASE StartPass(s) \/ NextCandidate(s)
    <3>1. sched[s].todo \subseteq Jobs /\ list_schedulable \subseteq Jobs
      BY <1>t DEF SchedState, list_schedulable
    <3> QED
      BY <2>1, <2>2, <3>1 DEF StartPass, NextCandidate
  <2>3. CASE Recheck(s)
    BY <1>t, <2>3 DEF Recheck, SchedState, LooksAt
  <2>4. CASE RecheckRejects(s) \/ ReserveRejects(s) \/ RecordAdmitted(s)
    <3>1. sched[s].admitted + 1 \in Nat
      BY <1>t
    <3> QED
      BY <1>t, <1>c, <2>4, <3>1 DEF RecheckRejects, ReserveRejects, RecordAdmitted, LooksAt
  <2>5. CASE ReserveConflicts(s) \/ SchedulerCrash(s)
    BY <1>t, <2>5 DEF ReserveConflicts, SchedulerCrash, SchedIdle, LooksAt
  <2> QED
    BY <2>2, <2>3, <2>4, <2>5 DEF Scheduler, SchedulerStep
<1>2. Quiet
  BY <1>u, <1>s, <1>1 DEF Quiet, Done, LooksAt, HasActive
<1> QED
  BY <1>2, QuietKeeps

\* Requests: a cancelled job is not done in this sense, and without PATCH nobody else
\* ends one.
LEMMA CapacityApi ==
    ASSUME CapacityInv, TypeOK', Api
    PROVE  CapacityKept
<1>t. ReservationInv /\ LocalsOK /\ TypeOK /\ jobs \in [Jobs -> JobRow]
  BY RowTypes DEF CapacityInv
<1>u. UNCHANGED <<sched, attempts>>
  BY DEF Api, CreateJob, PatchStatus, UpdateConfig, DeleteJob, CancelRead, CancelFast,
     CancelRequest, CancelMisses, storeVars
<1>f. ASSUME UNCHANGED reservations,
             \A j \in Jobs : /\ jobs'[j].status = jobs[j].status
                             /\ jobs'[j].attempt_number = jobs[j].attempt_number
                             /\ jobs'[j].lease_owner = jobs[j].lease_owner
      PROVE  CapacityKept
  BY <1>u, <1>f, QuietFrame DEF HasActive
<1>m. ASSUME NEW j \in Jobs, NEW to \in Status,
             Moved(j, to, jobs[j].attempt_number, jobs[j].lease_owner),
             PatchTargets = {} => to \notin {"SUCCEEDED", "FAILED"},
             \A i \in Jobs : \A a \in Attempts : HasActive(i, a)' => HasActive(i, a)
      PROVE  CapacityKept
  BY <1>u, <1>m, QuietFrame DEF Moved
<1>1. ASSUME NEW j \in Jobs, CreateJob(j) PROVE CapacityKept
  BY <1>t, <1>1, <1>m, CreateMoves DEF CreateJob, HasActive, Status
<1>2. ASSUME NEW j \in Jobs, PatchStatus(j) PROVE CapacityKept
  <2>1. PICK to \in PatchTargets : conditional_transition(j, to)
    BY <1>2 DEF PatchStatus
  <2>2. Moved(j, to, jobs[j].attempt_number, jobs[j].lease_owner) /\ to \in Status
    BY <1>t, <2>1, PatchTargetsAreStatuses, TransitionMoves
  <2> QED
    BY <1>2, <1>m, <2>1, <2>2 DEF PatchStatus, HasActive
<1>3. ASSUME NEW j \in Jobs, UpdateConfig(j) \/ DeleteJob(j) PROVE CapacityKept
  BY <1>3, <1>t, <1>f DEF UpdateConfig, DeleteJob, JobRow
<1>4. ASSUME NEW c \in Clients, NEW j \in Jobs, CancelRead(c, j) PROVE CapacityKept
  BY <1>4, <1>f DEF CancelRead, storeVars
<1>5. ASSUME NEW c \in Clients, CancelFast(c) PROVE CapacityKept
  <2>1. PICK j \in Jobs : j = calls[c].job
    BY <1>t, <1>5 DEF CancelFast, LocalsOK
  <2>2. Moved(j, "CANCELLED", jobs[j].attempt_number, jobs[j].lease_owner)
    BY <1>t, <1>5, <2>1, TransitionMoves DEF CancelFast, Status
  <2>3. ReleaseReservation(j, calls[c].attempt + 1) /\ calls[c].attempt + 1 \in Nat
    BY <1>t, <1>5, <2>1, MaxAttemptsPositive DEF CancelFast, TypeOK, CallState
  <2>4. \A i \in Jobs : \A a \in Attempts : HasActive(i, a)' => HasActive(i, a)
    BY <1>t, <2>3, ReleaseRows
  <2> QED
    BY <1>m, <2>2, <2>4 DEF Status
<1>6. ASSUME NEW c \in Clients, CancelRequest(c) PROVE CapacityKept
  BY <1>6, <1>t, <1>f DEF CancelRequest, JobRow, LocalsOK
<1>7. ASSUME NEW c \in Clients, CancelMisses(c) PROVE CapacityKept
  BY <1>7, <1>f DEF CancelMisses, storeVars
<1> QED
  BY <1>1, <1>2, <1>3, <1>4, <1>5, <1>6, <1>7 DEF Api

\* Messages: a claim is of a waiting job, and an inserted row is of an attempt that runs.
LEMMA CapacityWorker ==
    ASSUME CapacityInv, TypeOK', NEW w \in Workers, Worker(w)
    PROVE  CapacityKept
<1>t. /\ ReservationInv /\ LocalsOK /\ TypeOK /\ jobs \in [Jobs -> JobRow]
      /\ attempts \in [Jobs \X Attempts -> AttemptStatus]
  BY RowTypes DEF CapacityInv
<1>u. UNCHANGED sched
  BY DEF Worker
<1>f. ASSUME UNCHANGED <<reservations, attempts>>,
             \A j \in Jobs : /\ jobs'[j].status = jobs[j].status
                             /\ jobs'[j].attempt_number = jobs[j].attempt_number
                             /\ jobs'[j].lease_owner = jobs[j].lease_owner
      PROVE  CapacityKept
  BY <1>u, <1>f, QuietFrame DEF HasActive
<1>1. ASSUME NEW j \in Jobs, Claim(w, j) PROVE CapacityKept
  <2>1. /\ Moved(j, "RUNNING", jobs[j].attempt_number + 1, w)
        /\ UNCHANGED <<attempts, reservations>>
    BY <1>t, <1>1, ClaimMoves DEF Claim
  <2> QED
    BY <1>u, <2>1, QuietFrame DEF Moved, HasActive
<1>2. ASSUME NEW j \in Jobs, NotClaimed(w, j) \/ ClaimRaises(w, j) PROVE CapacityKept
  BY <1>2, <1>f DEF NotClaimed, ClaimRaises, storeVars
<1>3. CASE InsertAttempt(w)
  <2>1. \A k \in Jobs \X Attempts : attempts'[k] \in EndedStatus => attempts[k] \in EndedStatus
    BY <1>t, <1>3 DEF InsertAttempt, EndedStatus
  <2>2. UNCHANGED <<jobs, reservations>>
    BY <1>3 DEF InsertAttempt
  <2>3. Quiet
    BY <1>u, <2>1, <2>2 DEF Quiet, Done, LooksAt, HasActive
  <2> QED
    BY <2>3, QuietKeeps
<1>4. CASE Heartbeat(w)
  BY <1>t, <1>4, <1>f DEF Heartbeat, JobRow
<1>5. CASE Finalize(w)
  <2>1. PICK j \in Jobs, to \in Status :
           /\ j = work[w].job
           /\ Moved(j, to, jobs[j].attempt_number, None)
           /\ ReleaseReservation(j, jobs[j].attempt_number)
    BY <1>t, <1>5, FinalizeMoves
  <2>2. /\ jobs[j].lease_owner # None
        /\ attempts' = [attempts EXCEPT ![<<j, jobs[j].attempt_number>>] = AttemptOutcome(w)]
    BY <1>5, <2>1, WorkersAreNotNull DEF Finalize, Owns
  <2> QED
    BY <1>u, <2>1, <2>2, CapacityLeaves
<1>6. CASE \/ Reload(w) \/ StartExecutor(w) \/ FinishExecutor(w) \/ Abandon(w)
           \/ FinalizeRejected(w) \/ WorkerRaises(w) \/ WorkerCrash(w) \/ Redeliver(w)
  BY <1>6, <1>f DEF Reload, StartExecutor, FinishExecutor, Abandon, FinalizeRejected, WorkerRaises,
     WorkerCrash, Redeliver, storeVars
<1> QED
  BY <1>1, <1>2, <1>3, <1>4, <1>5, <1>6 DEF Worker, WorkerStep

LEMMA CapacityInvStep == CapacityInv /\ [Next]_vars => CapacityInv'
<1> SUFFICES ASSUME CapacityInv, [Next]_vars PROVE CapacityKept
  BY HistoryInvStep DEF CapacityInv, CapacityKept
<1>t. /\ ReservationInv /\ LocalsOK /\ TypeOK /\ jobs \in [Jobs -> JobRow] /\ LeaseIsOwned
      /\ TypeOK'
  <2>1. HistoryInv'
    BY HistoryInvStep DEF CapacityInv
  <2>2. TypeOK'
    BY <2>1 DEF HistoryInv, HostInv, ReservationInv
  <2> QED
    BY <2>2, RowTypes DEF CapacityInv, HistoryInv, HostInv
<1>f. ASSUME UNCHANGED <<reservations, attempts, sched>>,
             \A j \in Jobs : /\ jobs'[j].status = jobs[j].status
                             /\ jobs'[j].attempt_number = jobs[j].attempt_number
                             /\ jobs'[j].lease_owner = jobs[j].lease_owner
      PROVE  CapacityKept
  BY <1>t, <1>f, QuietFrame DEF HasActive
<1>1. CASE Api
  BY <1>t, <1>1, CapacityApi
<1>2. ASSUME NEW s \in Schedulers, Scheduler(s) PROVE CapacityKept
  BY <1>t, <1>2, CapacityReserve, CapacityScans
<1>3. CASE Relay
  BY <1>3, <1>f DEF Relay, RelayStep, Publish, MarkPublished, RelayCrash, storeVars
<1>4. ASSUME NEW w \in Workers, Worker(w) PROVE CapacityKept
  BY <1>t, <1>4, CapacityWorker
<1>5. ASSUME NEW r \in Recoveries, Recovery(r) PROVE CapacityKept
  <2>u. UNCHANGED sched
    BY <1>5 DEF Recovery
  <2>1. CASE Reclaim(r)
    <3>1. PICK j \in Jobs, to \in Status :
             /\ jobs[j].lease = "expired"
             /\ Moved(j, to, jobs[j].attempt_number, None)
             /\ mark_lost(j, jobs[j].attempt_number)
             /\ ReleaseReservation(j, jobs[j].attempt_number)
      BY <1>t, <2>1, ReclaimMoves
    <3> QED
      BY <1>t, <2>u, <3>1, CapacityLeaves DEF LeaseIsOwned, mark_lost
  <2>2. CASE ClearRetry(r)
    BY <1>t, <2>u, <2>2, <1>f DEF ClearRetry, JobRow
  <2>3. CASE ListStale(r) \/ ReclaimLoses(r) \/ ListDue(r) \/ Dispatch(r) \/ RecoveryCrash(r)
    BY <2>u, <2>3, <1>f DEF ListStale, ReclaimLoses, ListDue, Dispatch, RecoveryCrash, storeVars
  <2> QED
    BY <1>5, <2>1, <2>2, <2>3 DEF Recovery, RecoveryStep
<1>6. CASE Clock
  BY <1>6, <1>t, <1>f DEF Clock, LeaseExpires, RetryDue, JobRow
<1>7. CASE UNCHANGED vars
  BY <1>7, <1>f DEF vars, storeVars
<1> QED
  BY <1>1, <1>2, <1>3, <1>4, <1>5, <1>6, <1>7 DEF Next

\* Nothing is reserved at first.
LEMMA CapacityInvInit == Init => CapacityInv
<1> SUFFICES ASSUME Init PROVE OverHoldsNothing /\ DoneIsBehind
  BY HistoryInvInit DEF CapacityInv
<1> QED
  BY DEF Init, StoreInit, NoRow, SchedInit, OverHoldsNothing, DoneIsBehind, HasActive, Done, Absent

\* Whoever ends an attempt gives its capacity back, and nobody takes it again: not an
\* old listing, not a second scheduler, not for a job that SUCCEEDED or FAILED by its
\* attempts (finalize_attempt, reclaim_stale and try_admit).
THEOREM NoCapacityIsKept == Spec => []OverHoldsNothing
<1>1. CapacityInv => OverHoldsNothing
  BY DEF CapacityInv
<1> QED
  BY <1>1, CapacityInvInit, CapacityInvStep, PTL DEF Spec
=============================================================================
