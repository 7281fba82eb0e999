-------------------------------- MODULE Training --------------------------------
(***************************************************************************)
(* Training runs: the worker's executor (app/training/executor.py) picks a *)
(* checkpoint to resume from, supervises the trainer, and relays what it   *)
(* reports into fenced rows.  An attempt that dies leaves its checkpoints  *)
(* and metrics to the next one.  Artifact bytes are left to Artifacts.     *)
(***************************************************************************)
EXTENDS AttemptHost, FiniteSets

CONSTANTS
    MaxSteps,           \* max_steps of the training config
    CheckpointEvery     \* checkpoint_every_n_steps

ASSUME StepsAreNat == MaxSteps \in Nat \ {0} /\ CheckpointEvery \in Nat \ {0}
ASSUME NullIsNoStep == None \notin 0..MaxSteps

Attempts == 1..MaxAttempts
Steps == 1..MaxSteps

VARIABLES
    run,            \* jobs that have their training_runs row
    decisions,      \* attempt_resume_decisions: a step, 0 for scratch, None for no row
    checkpoints,    \* checkpoints of each run, as <<attempt, step>>
    metrics,        \* training_metrics of each run, as <<attempt, step>>
    output          \* attempt of the training_run_outputs row of each run

trainVars == <<run, decisions, checkpoints, metrics, output>>
vars == <<hostVars, trainVars>>

Init ==
    /\ HostInit
    /\ run = {}
    /\ decisions = [k \in Jobs \X Attempts |-> None]
    /\ checkpoints = [j \in Jobs |-> {}]
    /\ metrics = [j \in Jobs |-> {}]
    /\ output = [j \in Jobs |-> None]

\* The second commit of create_training_run: the job is QUEUED already.
CreateRun(j) ==
    /\ status[j] # Absent
    /\ run' = run \cup {j}
    /\ UNCHANGED <<hostVars, decisions, checkpoints, metrics, output>>

-----------------------------------------------------------------------------
(* The trainer *)

\* The steps after which a checkpoint is written: the last one is "final".
CheckpointSteps == {s \in Steps : s % CheckpointEvery = 0 /\ s < MaxSteps}

\* A trainer reports each step's metric, then its checkpoint if it has one.  Position of
\* the metric of step s among all that is reported from scratch; the checkpoint is next.
MetricAt(s) == s + Cardinality({c \in CheckpointSteps : c < s})

\* Mutant of ResumeAt: a resumed trainer goes on one step too late.
ResumeAt_Skips(s) ==
    s + Cardinality({c \in CheckpointSteps : c <= s}) + (IF s = 0 THEN 0 ELSE 1)

\* What a trainer that resumes from the checkpoint of step s leaves out; 0 is scratch.
ResumeAt(s) == s + Cardinality({c \in CheckpointSteps : c <= s})

ASSUME LastIsFinal == Last = MetricAt(MaxSteps) + 1

-----------------------------------------------------------------------------
(* run_training_attempt *)

\* get_by_job_id; a job without a run is simulated.
Lookup(w) ==
    /\ exec[w].pc = "lookup"
    /\ IF exec[w].job \in run
       THEN GoOn(w, "prepare") /\ UNCHANGED <<status, attempt, owner>>
       ELSE Simulate(w)
    /\ UNCHANGED trainVars

\* The step of the first candidate by (step, attempt), both descending, that is not
\* rejected; 0 when there is none.
find_resume_checkpoint(j, rejected) ==
    LET candidates == checkpoints[j] \ rejected IN
    IF candidates = {} THEN {0}
    ELSE {s \in Steps : /\ \E c \in candidates : c[2] = s
                       /\ \A c \in candidates : c[2] <= s}

\* Mutant of ResumedFrom: lineage does not learn of the resumption.
ResumedFrom_Null(step) == 0

ResumedFrom(step) == step

\* attempt_resume_decisions.record; whether the fenced insert matched is not looked at.
RecordDecision(w, step) ==
    decisions' = IF Holds(w)
                 THEN [decisions EXCEPT ![<<exec[w].job, exec[w].attempt>>] = ResumedFrom(step)]
                 ELSE decisions

\* _prepare_resume and the decision.  Bytes that are gone or damaged, and a storage that
\* does not answer, reject a checkpoint.
Prepare(w) ==
    LET j == exec[w].job IN
    /\ exec[w].pc = "prepare"
    /\ \E rejected \in SUBSET checkpoints[j] : \E step \in find_resume_checkpoint(j, rejected) :
          /\ RecordDecision(w, step)
          /\ exec' = [exec EXCEPT ![w] = [@ EXCEPT !.pc = "stream", !.at = ResumeAt(step)]]
    /\ UNCHANGED <<status, attempt, owner, run, checkpoints, metrics, output>>

\* A fenced insert into a table of <<attempt, step>> rows.
Inserted(rows, w, step) ==
    IF Holds(w) THEN [rows EXCEPT ![exec[w].job] = @ \cup {<<exec[w].attempt, step>>}]
    ELSE rows

RecordMetric(w, s) == metrics' = Inserted(metrics, w, s) /\ UNCHANGED <<checkpoints, output>>

RegisterCheckpoint(w, s) ==
    checkpoints' = Inserted(checkpoints, w, s) /\ UNCHANGED <<metrics, output>>

RegisterOutput(w) ==
    /\ output' = IF Holds(w) THEN [output EXCEPT ![exec[w].job] = exec[w].attempt] ELSE output
    /\ UNCHANGED <<metrics, checkpoints>>

\* _handle_event of the i-th report; whether an insert matched is not looked at.
HandleEvent(w, i) ==
    \/ \E s \in Steps : i = MetricAt(s) /\ RecordMetric(w, s)
    \/ \E s \in CheckpointSteps : i = MetricAt(s) + 1 /\ RegisterCheckpoint(w, s)
    \/ i = Last /\ RegisterOutput(w)

\* Mutant of OutputConflict: the second row replaces the first.
OutputConflict_Never(w) == FALSE

\* An earlier attempt registered the output and died before finalize_attempt: the
\* primary key rejects the second row.
OutputConflict(w) ==
    /\ exec[w].at + 1 = Last
    /\ Holds(w)
    /\ output[exec[w].job] # None

Event(w) ==
    /\ NextEvent(w)
    /\ ~OutputConflict(w)
    /\ HandleEvent(w, exec[w].at + 1)
    /\ UNCHANGED <<status, attempt, owner, run, decisions>>

\* IntegrityError: the worker drops the job, which stays RUNNING.
OutputRejected(w) ==
    /\ exec[w].pc = "stream"
    /\ ~exec[w].abandoned
    /\ OutputConflict(w)
    /\ exec' = [exec EXCEPT ![w] = ExecIdle]
    /\ UNCHANGED <<status, attempt, owner, trainVars>>

\* Mutant of ProducedFinal: an exit without an error is a success.
ProducedFinal_CleanExit(w) == exec[w].result = None

ProducedFinal(w) == exec[w].at = Last

Close(w) ==
    /\ exec[w].pc = "close"
    /\ ~exec[w].abandoned
    /\ Outcome(w, IF ProducedFinal(w) THEN "SUCCEEDED"
                  ELSE IF exec[w].result = None THEN "unknown" ELSE exec[w].result)
    /\ UNCHANGED <<status, attempt, owner, trainVars>>

Next ==
    \/ HostStep /\ UNCHANGED trainVars
    \/ \E j \in Jobs : CreateRun(j)
    \/ \E w \in Workers : \/ Lookup(w) \/ Prepare(w) \/ Event(w) \/ OutputRejected(w)
                          \/ Close(w) \/ (StreamStep(w) /\ UNCHANGED trainVars)

Spec == Init /\ [][Next]_vars

-----------------------------------------------------------------------------
(* Properties *)

\* Attempt a accounts for every step up to s: it started from scratch, or from a step
\* whose checkpoint an earlier attempt left, and recorded each step after that.
Descends(j, a, s) ==
    LET from == decisions[<<j, a>>] IN
    /\ from # None
    /\ from < s
    /\ from > 0 => \E b \in 1..(a - 1) : <<b, from>> \in checkpoints[j]
    /\ \A t \in (from + 1)..s : <<a, t>> \in metrics[j]

\* Every trusted checkpoint descends from step 1 without a gap, link by link to earlier
\* attempts, and so does the final output: through attempts that died anywhere, stale
\* trainers that went on, checkpoints that could not be read and inserts whose result
\* nobody looked at, each step was trained and recorded by the attempt the lineage
\* names (ADR 015, ADR 016).
LineageIsComplete ==
    \A j \in Jobs :
        /\ \A c \in checkpoints[j] : Descends(j, c[1], c[2])
        /\ output[j] # None => Descends(j, output[j], MaxSteps)

\* The metric rows account for steps 1..s: each was trained by one of the attempts 1..a,
\* never by an earlier one than the step before it, and the last by a itself.
Trained(rows, a, s) ==
    \E trainer \in [1..s -> 1..a] :
        /\ trainer[s] = a
        /\ \A t \in 1..s : <<trainer[t], t>> \in rows
        /\ \A t \in 2..s : trainer[t - 1] <= trainer[t]

\* Followed to its end, the lineage of a checkpoint, and of the final output, is one
\* training run from step 1: however many attempts died on the way, the weights carry
\* every step, in the order of the steps and of the attempts (ADR 015).
EveryStepWasTrained ==
    \A j \in Jobs :
        /\ \A c \in checkpoints[j] : Trained(metrics[j], c[1], c[2])
        /\ output[j] # None => Trained(metrics[j], output[j], MaxSteps)

\* A job SUCCEEDED through a trainer has its output, registered by that very attempt,
\* although the executor takes "final" for success without looking whether the row
\* was inserted.
SucceededHasOutput ==
    \A j \in Jobs :
        status[j] = "SUCCEEDED" /\ PatchTargets = {} /\ decisions[<<j, attempt[j]>>] # None
            => output[j] = attempt[j]

\* The output is written once, and a job that is over is out of reach of its stale
\* trainers: nothing is added to its checkpoints and metrics (ADR 016).
HistoryIsFinal ==
    [][\A j \in Jobs :
          /\ output[j] # None => output'[j] = output[j]
          /\ status[j] \in Terminal =>
                /\ checkpoints'[j] = checkpoints[j]
                /\ metrics'[j] = metrics[j]
                /\ output'[j] = output[j]]_vars
=============================================================================
