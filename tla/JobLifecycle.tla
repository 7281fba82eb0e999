------------------------------ MODULE JobLifecycle ------------------------------
(***************************************************************************)
(* What the platform promises about one job, whatever its processes do:    *)
(* the life cycle that app/statemachine.py and the retry rule of           *)
(* app/retry_policy.py allow.  A start consumes an attempt, a retry needs  *)
(* one to be left, and a terminal status is for ever.  Only a client that  *)
(* PATCHes a job to RUNNING moves it there without consuming an attempt.   *)
(***************************************************************************)
EXTENDS Integers, StateMachine

CONSTANTS
    Jobs,
    MaxAttempts,
    PatchTargets    \* statuses clients may ask for with PATCH

VARIABLES
    status,         \* status of each job
    attempt         \* attempts started for each job

lifeVars == <<status, attempt>>

LifeInit ==
    /\ status = [j \in Jobs |-> Absent]
    /\ attempt = [j \in Jobs |-> 0]

Become(j, to) == status' = [status EXCEPT ![j] = to]

Submit(j) ==
    /\ status[j] = Absent
    /\ Become(j, "QUEUED")
    /\ UNCHANGED attempt

Start(j) ==
    /\ status[j] = "QUEUED"
    /\ attempt[j] < MaxAttempts
    /\ Become(j, "RUNNING")
    /\ attempt' = [attempt EXCEPT ![j] = attempt[j] + 1]

Retry(j) ==
    /\ status[j] = "RUNNING"
    /\ attempt[j] < MaxAttempts
    /\ Become(j, "QUEUED")
    /\ UNCHANGED attempt

Finish(j) ==
    /\ \E to \in Terminal : status[j] \in sources_for(to) /\ Become(j, to)
    /\ UNCHANGED attempt

PatchRunning(j) ==
    /\ "RUNNING" \in PatchTargets
    /\ status[j] = "QUEUED"
    /\ Become(j, "RUNNING")
    /\ UNCHANGED attempt

LifeNext ==
    \E j \in Jobs : Submit(j) \/ Start(j) \/ Retry(j) \/ Finish(j) \/ PatchRunning(j)

LifeSpec == LifeInit /\ [][LifeNext]_lifeVars
=============================================================================
