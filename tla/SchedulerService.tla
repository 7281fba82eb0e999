---------------------------- MODULE SchedulerService ----------------------------
(***************************************************************************)
(* The Scheduler (scheduler/main.py, app/services/scheduler.py).  A pass   *)
(* lists the schedulable jobs, then tries to admit them one by one.        *)
(*                                                                         *)
(* All of a pass uses one SQLAlchemy session, whose identity map returns   *)
(* the object it already holds: the "fresh" row try_admit re-verifies is   *)
(* the row as it was when the object was last loaded, which is the listing *)
(* for the first candidate and the start of try_admit for a later one      *)
(* (the commit before it expired every object).  Only the deleted_at       *)
(* filter and the has_active query see the database as it is.              *)
(***************************************************************************)
EXTENDS JobStore

CONSTANTS
    Schedulers,     \* scheduler processes
    MaxAdmissions   \* settings.max_admissions_per_pass

ASSUME MaxAdmissionsPositive == MaxAdmissions \in Nat \ {0}

VARIABLE sched      \* what each scheduler process remembers within a pass

SchedState ==
    [pc : {"idle", "next", "check", "reserve", "record"}, todo : SUBSET Jobs,
     job : Jobs \cup {None}, attempt : 0..(MaxAttempts + 1),
     amount : Requests \cup {Nothing}, eligible : BOOLEAN, admitted : Nat]

SchedIdle ==
    [pc |-> "idle", todo |-> {}, job |-> None, attempt |-> 0,
     amount |-> Nothing, eligible |-> FALSE, admitted |-> 0]

SchedInit == sched = [s \in Schedulers |-> SchedIdle]

\* try_admit's first reads of job j: the attempt it would create, the amounts it
\* asks for, and the verdict the row as loaded will give at re-verification.
LoadCandidate(s, j, todo, admitted) ==
    sched' = [sched EXCEPT ![s] =
        [pc |-> "check", todo |-> todo \ {j}, job |-> j,
         attempt |-> jobs[j].attempt_number + 1, amount |-> jobs[j].request,
         eligible |-> /\ jobs[j].status = "QUEUED"
                      /\ ~jobs[j].cancel_requested
                      /\ jobs[j].next_retry # "waiting",
         admitted |-> admitted]]

\* run_once goes on to the next candidate unless the pass has admitted enough.
Continue(s, admitted) ==
    sched' = [sched EXCEPT ![s] =
        IF sched[s].todo = {} \/ admitted >= MaxAdmissions THEN SchedIdle
        ELSE [SchedIdle EXCEPT !.pc = "next", !.todo = sched[s].todo, !.admitted = admitted]]

\* rank_candidates: the ranking depends on the wall clock (aging), so any listed
\* job may come first.
StartPass(s) ==
    /\ sched[s].pc = "idle"
    /\ \E j \in list_schedulable : LoadCandidate(s, j, list_schedulable, 0)
    /\ UNCHANGED storeVars

NextCandidate(s) ==
    /\ sched[s].pc = "next"
    /\ \E j \in sched[s].todo : LoadCandidate(s, j, sched[s].todo, sched[s].admitted)
    /\ UNCHANGED storeVars

\* Re-verification passes.
Recheck(s) ==
    LET j == sched[s].job IN
    /\ sched[s].pc = "check"
    /\ sched[s].eligible
    /\ ~jobs[j].deleted
    /\ ~HasActive(j, sched[s].attempt)
    /\ sched' = [sched EXCEPT ![s] = [@ EXCEPT !.pc = "reserve"]]
    /\ UNCHANGED storeVars

\* _Reject at re-verification: roll back, record WAITING, go on.
RecheckRejects(s) ==
    LET j == sched[s].job IN
    /\ sched[s].pc = "check"
    /\ \/ ~sched[s].eligible
       \/ jobs[j].deleted
       \/ HasActive(j, sched[s].attempt)
    /\ RecordWaiting(j)
    /\ Continue(s, sched[s].admitted)
    /\ UNCHANGED <<jobs, reservations, capacity, attempts, dlq, outbox>>

\* try_reserve, the reservation row and the job.queued event, committed together
\* by insert_event; the ADMITTED decision is still to come.
Reserve(s) ==
    LET j == sched[s].job
        a == sched[s].attempt
    IN
    /\ sched[s].pc = "reserve"
    /\ Fits(sched[s].amount)
    /\ KeyIsFree(j, a)
    /\ capacity' = [d \in Dims |-> capacity[d] + sched[s].amount[d]]
    /\ reservations' =
          [reservations EXCEPT ![<<j, a>>] = [status |-> "ACTIVE", amount |-> sched[s].amount]]
    /\ insert_event(j)
    /\ sched' = [sched EXCEPT ![s] = [@ EXCEPT !.pc = "record"]]
    /\ UNCHANGED <<jobs, attempts, dlq, decisions>>

\* The primary key (job_id, attempt_number) is taken: IntegrityError rolls the
\* transaction back and, not being a _Reject, ends the whole pass.
ReserveConflicts(s) ==
    /\ sched[s].pc = "reserve"
    /\ Fits(sched[s].amount)
    /\ ~KeyIsFree(sched[s].job, sched[s].attempt)
    /\ sched' = [sched EXCEPT ![s] = SchedIdle]
    /\ UNCHANGED storeVars

\* No capacity in some dimension: roll back, record WAITING, go on.
ReserveRejects(s) ==
    /\ sched[s].pc = "reserve"
    /\ ~Fits(sched[s].amount)
    /\ RecordWaiting(sched[s].job)
    /\ Continue(s, sched[s].admitted)
    /\ UNCHANGED <<jobs, reservations, capacity, attempts, dlq, outbox>>

\* The ADMITTED decision, in the transaction insert_event's commit opened.
RecordAdmitted(s) ==
    LET j == sched[s].job IN
    /\ sched[s].pc = "record"
    /\ decisions' = [decisions EXCEPT ![j] = [@ EXCEPT !.admitted = decisions[j].admitted + 1]]
    /\ Continue(s, sched[s].admitted + 1)
    /\ UNCHANGED <<jobs, reservations, capacity, attempts, dlq, outbox>>

\* The process dies, or an exception ends the pass: nothing uncommitted survives.
SchedulerCrash(s) ==
    /\ sched[s].pc # "idle"
    /\ sched' = [sched EXCEPT ![s] = SchedIdle]
    /\ UNCHANGED storeVars

SchedulerStep(s) ==
    \/ StartPass(s) \/ NextCandidate(s) \/ Recheck(s) \/ RecheckRejects(s)
    \/ Reserve(s) \/ ReserveConflicts(s) \/ ReserveRejects(s) \/ RecordAdmitted(s)
=============================================================================
