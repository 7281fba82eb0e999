# A TLA+ model of the post-training evaluation platform

The platform runs jobs (plain, training and evaluation jobs) for clients: an
HTTP API and five background processes share one Postgres database, one Kafka
topic and one S3-compatible bucket, and coordinate through conditional UPDATEs,
leases and an outbox. No process holds a lock across two transactions, every
process may die between any two commits, and every message may arrive twice.
This directory models that coordination, model-checks it with TLC on small
instances and proves with TLAPS, for all instances, every invariant and action
property that the runs check and all refinements.

Paths below are relative to the repository root; line references for every
definition are in `PROJECT.json` (`map`).

## 1. The system

| Part | Code | State it keeps | Operations |
|---|---|---|---|
| Job store | `app/repository/{jobs,reservations,capacity,attempts,outbox,dlq,scheduling_decisions}.py` | `jobs` (status, cancel_requested, attempt_number, lease, next_retry_at, deleted_at), `reservations`, `capacity`, `attempts`, `dlq`, `outbox`, `scheduling_decisions` | conditional UPDATEs, inserts, listings |
| Jobs API | `app/routers/jobs.py`, `app/services/jobs.py` | the job a cancel call has read | create, PATCH status, PATCH config, cancel, delete |
| Scheduler | `scheduler/main.py`, `app/services/scheduler.py` | the ranked listing and session of a pass | list, re-verify, reserve, record the decision |
| Outbox Relay | `outbox_relay/` | the row just sent | publish, mark published |
| Worker | `worker/main.py`, `app/services/worker.py`, `app/retry_policy.py` | the message, the attempt, the heartbeat thread, the outcome | claim, insert attempt, execute, heartbeat, finalize |
| Recovery | `recovery/main.py`, `app/services/recovery.py` | the listed jobs of a pass | reclaim stale leases, dispatch due retries |
| Artifacts | `app/services/{artifacts,datasets,models}.py` | `artifacts`, `dataset_versions`, `model_versions`, the bucket | upload, register a version |
| Reconciler | `reconciler/main.py`, `app/services/reconciler.py` | the listed rows of a pass | check the object, decide the row |
| Training executor | `app/training/` | `checkpoints`, `training_metrics`, `training_run_outputs`, `attempt_resume_decisions` | resume, relay events, register the output |
| Evaluation executor | `app/evaluation/{executor,subprocess_main,toy_evaluator}.py` | `evaluation_runs`, `evaluation_results`, `evaluation_metrics` | relay events, set the run's status |
| Quality gates | `app/evaluation/quality_gate_engine.py`, `app/services/evaluations.py` | `quality_gate_results` | evaluate, record the first verdict |

How they interact: the API inserts a QUEUED job. The Scheduler reserves
capacity for its next attempt and writes an outbox row in the same commit. The
Relay turns the row into a Kafka message. A Worker claims the job if that
reservation is ACTIVE, runs the executor under a heartbeat, and in one fenced
transaction writes the outcome, closes the attempt and releases the
reservation. Recovery takes back a job whose lease expired (marking the attempt
LOST and releasing the reservation in the same transaction) and, when a retry's
backoff is over, writes another outbox row. Executors write their rows under
the same fence `(status = RUNNING, lease_owner, attempt_number)`. Uploads write
a PENDING row, the object, and the flip to UPLOADED as separate steps; the
Reconciler decides rows whose uploader gave up.

What is hard about it, and so what the properties are aimed at: reads that are
stale when acted on (cancel, the Scheduler's session cache, the read-back of the
attempt number, the Reconciler's listing, version numbers); commits in the
middle of an operation (`insert_event`, the run's status before the job's);
duplicate and lost messages; expiry racing heartbeat and finalize; crashes
between any two steps; two evaluators or trainers of one run. `PROJECT.json`
lists the hazards, each at its line with the properties that would catch it.

## 2. Modules

| Module | Models |
|---|---|
| `StateMachine` | `app/statemachine.py`: the transition table |
| `JobStore` | the shared tables; one operator for each statement of the repositories |
| `SchedulerService`, `OutboxRelay`, `WorkerService`, `RecoveryService`, `JobsApi` | one process (or the job endpoints) each, over `JobStore` |
| `JobLifecycle` | abstract: what a client may rely on for one job |
| `Platform` | the composition, its properties, fairness, and the refinements of `JobLifecycle` and `AttemptHost` |
| `ArtifactRegistry` | abstract: contents decided once, versions numbered without a gap |
| `Artifacts` | upload flow, versions, Reconciler, and the refinement of `ArtifactRegistry` |
| `AttemptHost` | abstract: the platform as an executor meets it, `JobLifecycle` with the lease holder and the worker around the executor |
| `Training` | the training executor on `AttemptHost` |
| `QualityGate` | the gate engine as a pure operator |
| `Evaluation` | the evaluation executor and the gate endpoint on `AttemptHost` |
| `MC*` | values of the constants for TLC |
| `PlatformProofs`, `ReservationProofs`, `RefinementProofs`, `HistoryProofs` | theorems about `Platform`, each module on top of the one before |
| `ArtifactsProofs`, `TrainingProofs`, `EvaluationProofs` | theorems about the module of that name |
| `AttemptHostProofs` | the host refines `JobLifecycle`; lemmas about its steps that the last two share |

**An action is one committed transaction**, or one read whose result is used
later; the local record of a process (`sched`, `work`, `recov`, `calls`, `req`,
`rec`, `exec`) holds what it remembers in between. A step that dies before its
commit has no effect on the tables, so a crash resets the local record only.
Where the code commits in the middle (`insert_event`, `Reserve` / `RecordAdmitted`,
`Dispatch` / `ClearRetry`), so does the model.

Abstractions, and why nothing of interest is lost:

- *Time.* A lease is absent, live or expired; a retry is not scheduled, waiting
  or due; a PENDING row is within or past its grace period. The clock may move
  each on at any moment, so every duration and every race with one is included.
- *Ranking.* Effective priority depends on the wall clock (aging), so any listed
  job may be tried first.
- *SQLAlchemy sessions.* All of a scheduler pass uses one session, and
  `repo.get` returns the object the identity map already holds. `LoadCandidate`
  stores the verdict the loaded row will give, and `Recheck` uses that, together
  with the parts that do query the database (`deleted_at`, `has_active`). The
  same holds of the worker's checkpoint: `CheckpointSees` is the value loaded
  when the executor started, or the current one if the executor committed and so
  expired the object.
- *Executors.* In `Platform`, an executor returns any outcome. `Training` and
  `Evaluation` model them event by event on `AttemptHost`, which allows a QUEUED
  job to be claimed and a held one to be reclaimed at any moment: it leaves out
  admission, delivery and the clock, and so allows more than `Platform`. That it
  does is not assumed: `ImplementsHost` maps the worker's local record to the
  host's (`AsExec`), is checked by `platform_one_job` and proved. Between the
  read-back of the attempt number and the executor's return the host's worker is at
  `lookup`, where every job is simulated; `Training` and `Evaluation` replace that
  one step by their executors and take all others (`HostStep`) as they are.
- *Artifacts.* A content stands for its hash, its storage key and its unique row.
  The Reconciler's check may answer "absent" for an object that is there, as the
  code reads any storage error that way.
- *Measurements* are integers or NaN; infinities are left out, and `==` with its
  tolerance is equality on them.
- *Gate rows.* A rule result that quotes a NaN makes the INSERT fail (`json.dumps` writes
  `NaN`, which the cast to JSONB refuses), so `recordable` is None and nothing is
  recorded.

## 3. Runs

Passing runs. `CHECK_DEADLOCK FALSE` everywhere: when every job is over, with
all its messages consumed, the processes poll and find nothing, which is a stop
of the model and not an error; that a job does not stop short of its end is
`EveryJobEnds`.

| Run | Instance | Shows |
|---|---|---|
| `platform_one_job` | 1 job, 2 workers, 1 scheduler, 1 recovery, 1 cancelling client, 2 attempts | `TypeOK`; `OutcomeMatchesAttempt`, `AttemptHistory`, `OverIsOver`: outcome and attempt rows agree and are never rewritten; `ClaimableIsDispatched`: no admitted job without a message on its way; `NobodyIsForgotten`: a waiting job can be admitted, or claimed with a message on its way, and a running one reclaimed (what it excludes: see below); `RunningIsReserved`, `NoDoubleReservation`, `OverHoldsNothing`: who holds capacity and who gave it back; `ImplementsHost`: the platform is a host for the executors |
| `platform_clients` | 1 job, 1 worker, 2 schedulers, PATCH to any status, delete, lost messages | `RunningIsReserved`, `NoDoubleReservation`, `OverHoldsNothing` (what it says of attempts), the inductive invariant `ReservationInv` and the refinement `ImplementsLifecycle`, under everything clients may do |
| `platform_contention` | 2 jobs, 1 GPU, configs that change | `Conservation`: the capacity counter is the sum of the ACTIVE reservations |
| `platform_liveness` | 1 job, 2 workers, fair processes, any crash | `EveryJobEnds` |
| `artifacts` | 1 content, 2 API requests (one uploader id), 1 worker upload, Reconciler | `UploadedIsStored`, `VersionsAreUploaded`, `DecidedOnce`, `ArtifactsInv`, the refinement `ImplementsRegistry`, and `PendingIsDecided` under fairness |
| `training` | 1 run of 3 steps, checkpoint after 2, 3 attempts, 2 workers | `LineageIsComplete`, `EveryStepWasTrained`, `SucceededHasOutput`, `HistoryIsFinal` |
| `evaluation` | a candidate and two runs of its baseline, one of them on another dataset; either the candidate is new and the others are over, or the candidate is evaluated and the comparable baseline is about to be evaluated again; 2 workers, 2 attempts, 2 gates, 2 callers | `SucceededIsComplete`, `GateStands`, `PassIsEarned`, `FailIsRefuted`, `EndedJobFreezesRun`, `SuccessIsMirrored` |

`LineageIsComplete` is stated link by link: each attempt that left a checkpoint, or
the output, resumed from a step whose checkpoint an *earlier* attempt left (or from
scratch) and recorded a metric for every step after it. `EveryStepWasTrained` is what the
whole chain of links is for: of each step up to a checkpoint, or of all steps for an
output, some attempt no later than the one that left it recorded a metric.

`OverHoldsNothing` leaves out CANCELLED jobs, whose reservation may stay ACTIVE
(`cancel_vs_admission`, below), and, for the status of a job, runs with PATCH, which
may end a job without releasing anything. What it says of attempts holds in both cases.

`NobodyIsForgotten` says of a QUEUED job that the Scheduler can admit it once its backoff
is over, or that it is admitted, claimable and announced by a message, in the
outbox or in the topic, that no worker has taken; and of a RUNNING one that its lease is live or expired, which is where
Recovery looks. That the process then acts is `EveryJobEnds`. It excludes the jobs that
nobody looks after, all of them reachable in the code and in the model: a job whose
message was lost after it was admitted, a QUEUED job with `cancel_requested`
(`cancel_forgotten`), a deleted job, and one that a PATCH made RUNNING without a lease.
These stay where they are until a client acts, if one can.

`FailIsRefuted` speaks of verdicts that are recorded: the engine's FAIL on a NaN baseline
never is (see *Gate rows*). `SuccessIsMirrored` is what holds of a run and its job at the
moment a worker makes the job SUCCEEDED: the run is SUCCEEDED too, or no attempt has
started it.

Bounds, and why they are enough for the case they are meant for:

- `MaxAttempts = 2`: a retry and an exhausted retry both happen. `training` has 3,
  so that an attempt resumes from one that itself resumed, or started again.
- Two workers: a paused or fenced-out one next to the new owner. A third worker
  would be in the same position as the first.
- `MaxTopic` and `MaxOutbox` (1) bound the messages of one job waiting in the
  topic, and the unpublished rows the retry dispatch adds to. They disable
  `Deliver` and `Dispatch` when reached and cut nothing else. Duplicates still
  occur, one after the other, and `Reserve` is not bounded.
- `MaxAdmissions = 1` is a pass that ends after an admission, `2` one that goes on.
- `Dims` is cpu and gpu: memory is a third dimension treated like the others.
- `MaxVersions = 2`: two requests that take the same number, and the next one.
- `evaluation`: the three runs are the fewest with a comparable and an incomparable
  baseline. There are two kinds of starts (`Starts`). In one the candidate is new and the
  others are over, SUCCEEDED or FAILED, so that the candidate's own run changes under a
  caller. In the other the candidate is evaluated, and the comparable baseline was
  evaluated by an attempt whose worker died before `finalize_attempt`: its job is QUEUED
  again, its run still SUCCEEDED, and it is measured again while callers decide. Gates
  are applied to the candidate (`Gated`).
- Workers are symmetric in `platform_one_job`, `training` and `evaluation`, and so are
  the callers of `evaluation`: no definition tells them apart, and the runs check
  invariants, action properties and refinements without liveness only.

Runs that show a document and the code disagree (each a `finding`):

| Run | Statement | What happens |
|---|---|---|
| `cancel_vs_admission` | `FAILURE_SCENARIOS_V0.4.md:19`: no capacity is left reserved for a job CANCELLED without running | the cancel commits between the Scheduler's re-verification and its reservation; nothing releases it |
| `exhausted_without_dlq` | `STATE_TRANSITIONS_V0.3.md:52`: FAILED by exhausted retries comes with a dlq row | Recovery's reclaim of the last attempt writes none |
| `cancel_forgotten` | `STATE_TRANSITIONS_V0.3.md:61`: a QUEUED job with cancellation requested is later CANCELLED | no process does that; the job is QUEUED for ever |
| `reconciled_under_lease` | `ARTIFACT_LIFECYCLE_V0.5.md:61`: a row with a live lease is never touched by the Reconciler | the lease is taken after the listing; the flip does not look at it |
| `evaluation_not_final` | `STATE_TRANSITIONS_V0.7.md:5`: SUCCEEDED is terminal for a run | the worker dies between the run's commit and the job's; the next attempt overwrites the status |

Also visible in the models, though no document speaks of it: deleting an
admitted or RUNNING job, and PATCHing an admitted job to CANCELLED or a RUNNING
one to a terminal status, leaves its reservation ACTIVE; an exception in a
worker after the claim of the message (or a lost claim) strands the
reservation of a QUEUED job, since `list_schedulable` leaves reserved jobs out; a
training attempt that finds the output of an attempt that died before finalizing is
rejected by the primary key each time, so the job ends FAILED although its output
exists; a gate evaluated while its baseline run is RUNNING again gets an ERROR that
stays.

More places where a document and the code disagree, which the models show without a run
of their own (the properties follow the code and say so):

- `FAILURE_SCENARIOS_V0.7.md:20` (#16): a gate that references a missing metric becomes
  ERROR, never PASS. `_combine` lets an "any" gate PASS on one rule that holds, whatever
  the others lack; the run's gate `usable`, which also names a metric that is never
  reported, does. The statement is kept for "all" gates, of which `PassIsEarned` asks
  every rule; of an "any" gate it asks one.
- `QUALITY_GATE_MODEL_V0.7.md:42`, `ADR/019-quality-gates.md:16` and the engine's
  docstring: an invalid metric is ERROR. `_evaluate_leaf` looks for NaN in the
  candidate's value only; with a NaN baseline it computes FAIL. The row then quotes the
  NaN and the INSERT is refused: the request fails and the gate stays undecided, without
  the explicit ERROR state that `FAILURE_SCENARIOS_V0.7.md:26` (#22) wants. The run's
  gate `no_slower` does it.
- `STATE_TRANSITIONS_V0.7.md:13`: the run "mirrors the execution outcome". A cancelled or
  reclaimed attempt leaves the run as it was, so that it may stay RUNNING or SUCCEEDED
  under a job that ends CANCELLED or FAILED. `SuccessIsMirrored` is the part that holds.
- `ARTIFACT_LIFECYCLE_V0.5.md:20`: after FAILED, a new upload attempt creates a new
  PENDING row. `content_hash` is unique and `create_pending` is not tried for an existing
  row, so a content whose row is FAILED can never be uploaded again.
- `FAILURE_SCENARIOS_V0.5.md:39` (#8): the loser of a concurrent create fetches the
  existing row and goes on. Nothing catches the violated unique index: the request fails,
  and `Artifacts` models it as failing.

Two more statements are plainly untrue: `models/job.py:29`
("lease_owner/lease_expires_at are set only while RUNNING"; a cancel or PATCH of a
RUNNING job leaves both), and the counter `evaluation_failures` of
`app/metrics.py`, which counts rows that are FAILED now and so can fall when a run
is evaluated again.

## 4. Fairness

`FairSpec` assumes of `Platform` that

- each process with work takes steps (WF): every main loop catches what a pass
  raises and polls again. A process that is killed is restarted; `docker-compose.yml`
  has no restart policy, but `recovery.py` ("this process restarted, or another
  instance") and the failure scenarios rely on it;
- the steps that commit an admission, a publication or a reclaim, and the listing
  of stale leases, are taken if they are reached again and again (SF): a crash
  does not hit the same step of every pass, and the listing is the first query of
  every Recovery pass;
- executors terminate (part of the worker's WF), the clock advances, and a
  request the API accepted is handled. Clients need not send any.

Crashes of every process, exceptions in a worker after its claim, redelivery and
expiry stay possible for ever and are not assumed to stop. `platform_liveness`
leaves out what does strand a job: a claim that itself raises (`LoseMessages`, see
the end of section 3), and clients that cancel (`cancel_forgotten`), PATCH or
delete.

For `Artifacts`: the Reconciler polls (WF) and, for each content, lists it, checks it
and decides it if it can again and again (SF), because its period is far shorter
than the leases that disable these steps; time passes. No request is assumed to
finish. Crashes are ordinary actions and get no fairness.

## 5. Proofs

All proofs are checked by TLAPS with no assumption beyond the `ASSUME`s of the
modules, which bound the constants' types (finite sets of jobs and dimensions,
amounts in Nat, at least one attempt, a NULL that is no value) and which TLC
evaluates in the runs. Every invariant and action property of the passing runs is a
theorem; each follows from an inductive invariant:

- `PlatformProofs!TypeCorrect`: `Spec => []TypeOK`. `TypeOK` is not inductive by
  itself: a step that updates `jobs[sched[s].job]` needs that a busy process
  knows its job (`LocalsOK`), and a claim or an admission needs that the attempt
  number stays in range, which is the reservation argument below.
- `ReservationProofs!ReservationInvariant`: `Spec => []ReservationInv`. The
  argument: a job may hold a reservation only for `ReservedAttempt(j)`, which is
  its current attempt while somebody holds the lease and the next one otherwise
  (`ReservationFollowsLease`). A claim takes the lease and raises the attempt
  number in one step, so the reserved attempt does not move; every step that drops
  the lease releases that reservation in the same transaction. What remains is an
  old listing: it can carry an attempt only up to `ReservedAttempt`
  (`ListingIsBehind`), and if it is behind, that attempt was already admitted
  (`StartedWasAdmitted`) and the primary key rejects it. `RunningJobIsReserved`
  and `NoJobReservesTwice` follow.
- `ReservationProofs!CapacityIsConserved`: `Spec => []Conservation`, by the
  cardinality of the set of reserved units: reserving adds the units of a row that
  held none, releasing removes those of that row, and no other step touches either.
- `RefinementProofs!PlatformImplementsLifecycle`: `Spec => ImplementsLifecycle`,
  one step per action, each a step of `JobLifecycle` or a stutter. It uses
  `WaitingIsFree` (a QUEUED job has an attempt left) for `Start`.
- `RefinementProofs!PlatformImplementsHost`: `Spec => ImplementsHost`, with
  `HostInv`: a lease belongs to somebody (`LeaseIsOwned`), so a reclaim is one of a held
  job, and a worker that comes to `finalize_attempt` has a result and was not fenced
  off before (`ReturnIsClean`).
- `HistoryProofs`: `HistoryInv` adds to `HostInv` what the rows of one job say of
  each other (`JobOK`) and what a worker past its claim may rely on (`WorkerOK`):
  the number it read back may be a later attempt's, but that attempt was started, and
  a row it inserted is there. `AttemptsFollowTheToken`, `OutcomesAgree` and
  `OverStaysOver` follow. Three more properties each need an inductive invariant of
  their own:
  - `ClaimableJobIsDispatched`: `DispatchInv`. An admission is only as good as its
    listing, so a listing that can still admit was read when the job's backoff had
    elapsed (`FreshOK`), and a waiting job with its next attempt reserved is not backing
    off (`SentOK`); so no reclaim, `ClearRetry` or expiry can make a job claimable
    without a message.
  - `NoJobIsForgotten`: `FoundInv`. The ways to be forgotten are an admission that was
    used up and is still wanted, which is why a RELEASED row must be of an attempt that
    was started, or of a job that is over (`ReleasedIsPast`), and a RUNNING job whose
    lease cannot expire: without PATCH of the status every RUNNING job has an owner, and
    an owner has a lease (`OwnedHasLease`). A job whose next attempt is reserved is not
    backing off (`SentOK`), so it is claimable unless it is deleted or asked to cancel,
    and `DispatchInv` gives the message, if the topic loses none.
  - `NoCapacityIsKept`: `CapacityInv`. Whoever ends an attempt releases its row in the
    same transaction; the difficulty is a scheduler that listed the job before. So a job
    that is done has no owner, and every listing of it is of an attempt that was
    admitted before (`DoneIsBehind`), which the primary key keeps from being admitted
    again.
- `AttemptHostProofs!HostFollowsLifecycle`: `HostSpec => LifeSpec`. With it the
  specifications form one tree: `Platform` implements `AttemptHost` and `JobLifecycle`,
  and so does everything built on the host. `TrainingProofs!TrainingImplementsHost`
  states it of `Training`, with the trainer seen as a simulated executor that returns when
  the trainer does, and `EvaluationProofs!EvaluationStepsAsHost` of every step of
  `Evaluation`, whose behaviours may start with jobs that had an attempt already. These three are not
  run properties as well: TLC evaluates the existential host step at each of the
  instances' steps, which takes more time than the runs have; `ImplementsHost` in
  `platform_one_job` and the action properties check the same steps on the small side.
- `TrainingProofs`: `TrainInv` ties a worker's record to the rows: an attempt that
  has not come to `Prepare` decided nothing, and whoever has handled "final" and still
  holds the lease has its output. `SucceededThroughOutput` and `HistoryStays` follow.
  `LineageHasNoGap` needs `LineageInv` on top: a worker that holds its lease while it
  streams has recorded everything between its resume point and where it is
  (`HeldLineage`), which rests on the arithmetic of the report positions (`Positions`);
  once fenced out it never holds that attempt again. `EveryCheckpointIsTrained` is about
  chains of any length, and is not proved by induction over them: the induction is the
  one along the behaviour. When an attempt resumes, everything up to its resume point
  was trained already, because the checkpoint it takes has the property; it carries that
  along while it streams, and a checkpoint it leaves has it again.
- `EvaluationProofs`: `EvalInv` says the same of results and metrics
  (`RecordedUpTo`), and that a verdict, also one that a caller still carries to its
  insert, stands on evidence that only grows (`Sound`). `SucceededRunsAreComplete`,
  `VerdictsStand`, `PassesAreEarned` and `EndedIsFrozen` follow; `FailsAreRefuted` needs
  besides that the engine answers FAIL only if some rule was evaluated, and refuted, and
  that an outcome which quotes a NaN is not recordable. `SuccessMirrors` has an invariant
  of its own, `MirrorInv`: a worker that still holds its lease and is about to report
  success has made the run SUCCEEDED itself, or found none and leaves alone what the API
  creates since; no other worker can write the run while it holds.
- `ArtifactsProofs`: `ArtifactsInv` is inductive (what a request or the Reconciler
  learned, `VerifiedIsStored` and `HandedOutIsUploaded`, stays true until acted on),
  and `UploadedHasBytes`, `VersionsReferenceUploaded` and `DecisionsAreFinal` follow.
  `ArtifactsImplementRegistry` is the refinement of `ArtifactRegistry`, step by step.
  It needs `RegistryInv`: the versions are numbered from 1 without a gap
  (`NumbersAreDense`), the numbers below the one a request read before are all given, and
  a request that stores bytes has a row (`RequestsFollowRows`). If the number was taken
  since, the primary key rejects the insert; if not, it is still the next.

Only model-checked: the liveness properties `EveryJobEnds` and `PendingIsDecided`, which
are beyond the prover. Every other property of the passing runs is a theorem.

## 6. Not modelled

Read-only endpoints (lists, DLQ, capacity, lineage, health, Prometheus metrics);
orphan detection, which only logs and which `run_once` does not call; string and
floating-point arithmetic of the metrics, whose results enter `Evaluation` as arbitrary
measurements; the CUDA probe (its verdict is one way for a trainer to fail);
termination of a subprocess (SIGTERM, then SIGKILL), which changes no table; the
creation of models, datasets, gates and configurations, single inserts that nothing races
for; schemas, logging, migrations (their keys are guards of the inserts), scripts, the
benchmark and the notebook. An executor's upload of a checkpoint or of the output is
one step in `Training` (its failure is an exception of the executor, `WorkerGone`, or
a checkpoint that cannot be read); the steps of the upload itself are in `Artifacts`.

## 7. Plan

Done, in this order: store and processes, `Platform` with its runs, reservations and
accounting proved, `JobLifecycle` refinement proved, `Artifacts` checked and proved,
`AttemptHost` with `Training` and `Evaluation` checked, `Platform` shown to implement
`AttemptHost`, the properties of history, dispatch, training and evaluation proved,
`ArtifactRegistry` and its refinement, `AttemptHost` under `JobLifecycle` and the executors
under `AttemptHost`, and the properties of forgotten jobs and kept capacity.

Next:

1. An upload by an executor composed with `Artifacts` (a checkpoint whose content
   is already PENDING or FAILED), so that "bytes that are gone" in `Training` has
   its cause in the model.
2. The executors on `Platform` itself, as a composition instead of through
   `AttemptHost`: it would add nothing to safety, but allow the liveness of a training
   run to be stated.
