------------------------------- MODULE Evaluation -------------------------------
(***************************************************************************)
(* Evaluation runs: the API creates a job and then its evaluation_runs row,*)
(* the worker's executor (app/evaluation/executor.py) relays what the      *)
(* subprocess reports into fenced, first-write-wins rows, and clients      *)
(* apply quality gates to runs that are SUCCEEDED.                         *)
(***************************************************************************)
EXTENDS AttemptHost, Sequences

CONSTANTS
    NaN,
    Examples,       \* number of examples of the dataset
    Metrics,        \* sequence of metrics in the order they are reported
    Measured,       \* values each metric may come out with, attempt by attempt
    Gates,          \* quality gates
    Rules,          \* the rules of each gate
    Inputs,         \* what the run of each job refers to: [model, dataset, config,
                    \* baseline], versions and ids; baseline is a model, or None
    Configs,        \* [task_type, metric_definitions] of each evaluation config
    Starts,         \* what ran before: a status for each job, see StartsAreStates
    Gated,          \* jobs whose runs gates are applied to
    Callers         \* requests that apply a gate

INSTANCE QualityGate     \* None and NaN are its constants

Reported == {Metrics[i] : i \in DOMAIN Metrics}
MetricNames ==
    Reported \cup ({leaf.metric : leaf \in UNION {Rules[g].leaves : g \in Gates}} \ {None})
AllMeasured == UNION {Measured[m] : m \in Reported}

ASSUME GatedAreJobs == Gated \subseteq Jobs

\* A job is new (Absent), or its one attempt is over, evaluated (SUCCEEDED) or failed,
\* or it was evaluated, its worker died before finalize_attempt, and it is QUEUED again.
ASSUME StartsAreStates ==
    \A start \in Starts :
        /\ start \in [Jobs -> {Absent, "SUCCEEDED", "FAILED", "QUEUED"}]
        /\ \A j \in Jobs : start[j] # Absent => MaxAttempts > 0
        /\ \A j \in Jobs : start[j] = "QUEUED" => MaxAttempts > 1
ASSUME ReportIsFinite == Examples \in Nat /\ Metrics \in Seq(DOMAIN Measured)
ASSUME NoneIsNoValue == None \notin Verdicts /\ None \notin AllMeasured
ASSUME LastIsFinal == Last = Examples + Len(Metrics) + 1

VARIABLES
    run,            \* status of the evaluation_runs row of each job
    results,        \* examples with an evaluation_results row
    metrics,        \* evaluation_metrics of each run
    gates,          \* quality_gate_results: verdict for each (run, gate)
    calls           \* gate evaluations in progress

evalVars == <<run, results, metrics, gates, calls>>
vars == <<hostVars, evalVars>>

CallIdle == [pc |-> "idle", job |-> None, gate |-> None, verdict |-> None]

Init ==
    \E start \in Starts :
        LET done == {j \in Jobs : start[j] \in {"SUCCEEDED", "QUEUED"}} IN
        \E v \in [done \X Reported -> AllMeasured] :
        /\ status = start
        /\ run = [j \in Jobs |-> IF j \in done THEN "SUCCEEDED" ELSE start[j]]
        /\ attempt = [j \in Jobs |-> IF start[j] = Absent THEN 0 ELSE 1]
        /\ owner = [j \in Jobs |-> None]
        /\ exec = [w \in Workers |-> ExecIdle]
        /\ results = [j \in Jobs |-> IF j \in done THEN 1..Examples ELSE {}]
        /\ metrics = [j \in Jobs |-> [m \in MetricNames |->
                         IF j \in done /\ m \in Reported THEN v[<<j, m>>] ELSE None]]
        /\ gates = [k \in Jobs \X Gates |-> None]
        /\ calls = [c \in Callers |-> CallIdle]

\* The second commit of create_evaluation: the job is QUEUED already, and the API
\* may die before.
CreateRun(j) ==
    /\ status[j] # Absent
    /\ run[j] = Absent
    /\ run' = [run EXCEPT ![j] = "QUEUED"]
    /\ UNCHANGED <<hostVars, results, metrics, gates, calls>>

-----------------------------------------------------------------------------
(* run_evaluation_attempt *)

\* mark_status: fenced, and indifferent to the status it overwrites.
mark_status(w, to) == run' = IF Holds(w) THEN [run EXCEPT ![exec[w].job] = to] ELSE run

\* Mutant of HasRun: only a run that was never started is found, a retry is simulated.
HasRun_Queued(j) == run[j] = "QUEUED"

\* get_by_job_id
HasRun(j) == run[j] # Absent

\* A job without a run is simulated.
Lookup(w) ==
    /\ exec[w].pc = "lookup"
    /\ IF HasRun(exec[w].job)
       THEN GoOn(w, "prepare") /\ UNCHANGED <<status, attempt, owner>>
       ELSE Simulate(w)
    /\ UNCHANGED evalVars

\* An artifact cannot be had: the run fails for good.
PrepareFails(w) ==
    /\ exec[w].pc = "prepare"
    /\ mark_status(w, "FAILED")
    /\ Outcome(w, "permanent")
    /\ UNCHANGED <<status, attempt, owner, results, metrics, gates, calls>>

\* The fenced transition to RUNNING, then the subprocess.
Prepare(w) ==
    /\ exec[w].pc = "prepare"
    /\ mark_status(w, "RUNNING")
    /\ IF Holds(w) THEN GoOn(w, "stream") ELSE Outcome(w, "transient")
    /\ UNCHANGED <<status, attempt, owner, results, metrics, gates, calls>>

\* Mutant of Recorded: a retry overwrites what an earlier attempt recorded.
Recorded_Overwrite(old, new) == new

\* ON CONFLICT DO NOTHING.
Recorded(old, new) == IF old = None THEN new ELSE old

RecordResult(w, i) ==
    /\ i \in 1..Examples
    /\ results' = IF Holds(w) THEN [results EXCEPT ![exec[w].job] = @ \cup {i}] ELSE results
    /\ UNCHANGED metrics

RecordMetric(w, m) ==
    LET j == exec[w].job IN
    /\ \E v \in Measured[m] :
          metrics' = IF Holds(w)
                     THEN [metrics EXCEPT ![j] =
                             [metrics[j] EXCEPT ![m] = Recorded(metrics[j][m], v)]]
                     ELSE metrics
    /\ UNCHANGED results

\* _handle_event: results, then metrics, then "final".
HandleEvent(w, i) ==
    \/ RecordResult(w, i)
    \/ i - Examples \in DOMAIN Metrics /\ RecordMetric(w, Metrics[i - Examples])
    \/ i = Last /\ UNCHANGED <<results, metrics>>

Event(w) ==
    /\ NextEvent(w)
    /\ HandleEvent(w, exec[w].at + 1)
    /\ UNCHANGED <<status, attempt, owner, run, gates, calls>>

\* Mutant of ProducedFinal: an exit without an error is a success.
ProducedFinal_CleanExit(w) == exec[w].result = None

ProducedFinal(w) == exec[w].at = Last

\* The run's status is committed here, the job's only in FinalizeAttempt.
Close(w) ==
    /\ exec[w].pc = "close"
    /\ ~exec[w].abandoned
    /\ IF ProducedFinal(w)
       THEN /\ mark_status(w, "SUCCEEDED")
            /\ Outcome(w, IF Holds(w) THEN "SUCCEEDED" ELSE "transient")
       ELSE /\ mark_status(w, "FAILED")
            /\ Outcome(w, IF exec[w].result = None THEN "unknown" ELSE exec[w].result)
    /\ UNCHANGED <<status, attempt, owner, results, metrics, gates, calls>>

-----------------------------------------------------------------------------
(* evaluate_quality_gate *)

config_compatible(c, d) == c = d \/ Configs[c] = Configs[d]

\* The runs of the baseline model version that evaluate what j's does: on the same
\* dataset version, with a compatible config.
Baselines(j) ==
    {b \in Jobs : /\ Inputs[j].baseline # None
                 /\ Inputs[b].model = Inputs[j].baseline
                 /\ Inputs[b].dataset = Inputs[j].dataset
                 /\ config_compatible(Inputs[j].config, Inputs[b].config)}

\* resolve_baseline_metrics, not strict: the metrics of a SUCCEEDED one of them (the
\* newest in the code; any of them here), or None.
resolve_baseline_metrics(j) ==
    LET completed == {b \in Baselines(j) : run[b] = "SUCCEEDED"} IN
    IF completed = {} THEN {None} ELSE {metrics[b] : b \in completed}

DecideGate(c, j, g) ==
    /\ calls[c].pc = "idle"
    /\ run[j] = "SUCCEEDED"
    /\ \E baseline \in resolve_baseline_metrics(j) :
          calls' = [calls EXCEPT ![c] =
                      [pc |-> "record", job |-> j, gate |-> g,
                       verdict |-> recordable(Rules[g], metrics[j], baseline)]]
    /\ UNCHANGED <<hostVars, run, results, metrics, gates>>

\* quality_gate_results.record: the run must still be SUCCEEDED, first write wins.  An
\* outcome that quotes a NaN makes the INSERT fail, and the request with it.
RecordGate(c) ==
    LET k == <<calls[c].job, calls[c].gate>> IN
    /\ calls[c].pc = "record"
    /\ gates' = IF run[calls[c].job] = "SUCCEEDED" /\ calls[c].verdict # None
                THEN [gates EXCEPT ![k] = Recorded(@, calls[c].verdict)] ELSE gates
    /\ calls' = [calls EXCEPT ![c] = CallIdle]
    /\ UNCHANGED <<hostVars, run, results, metrics>>

Next ==
    \/ HostStep /\ UNCHANGED evalVars
    \/ \E j \in Jobs : CreateRun(j)
    \/ \E w \in Workers : \/ Lookup(w) \/ PrepareFails(w) \/ Prepare(w) \/ Event(w)
                          \/ Close(w) \/ (StreamStep(w) /\ UNCHANGED evalVars)
    \/ \E c \in Callers : \/ \E j \in Gated, g \in Gates : DecideGate(c, j, g)
                          \/ RecordGate(c)

Spec == Init /\ [][Next]_vars

-----------------------------------------------------------------------------
(* Properties *)

Complete(j) == results[j] = 1..Examples /\ \A m \in Reported : metrics[j][m] # None

\* A SUCCEEDED run has all its evidence, although every result and metric was
\* written in a transaction of its own, attempts died half-way, and the executor
\* ignores whether an insert matched.
SucceededIsComplete == \A j \in Jobs : run[j] = "SUCCEEDED" => Complete(j)

UsesBaseline(g) == \E leaf \in Rules[g].leaves : leaf.against = "baseline_delta"

\* A gate's verdict is still what its rules say of the persisted metrics: later
\* attempts, which measure again, cannot change the evidence under it.
GateStands ==
    \A j \in Jobs, g \in Gates :
        gates[<<j, g>>] # None /\ ~UsesBaseline(g) =>
            gates[<<j, g>>] = evaluate(Rules[g], metrics[j], None)

\* Run b evaluates the baseline of j's as j's evaluates its model: the same dataset
\* version, the same task and metric definitions.
Comparable(j, b) ==
    /\ Inputs[j].baseline # None /\ Inputs[b].model = Inputs[j].baseline
    /\ Inputs[b].dataset = Inputs[j].dataset
    /\ Configs[Inputs[b].config] = Configs[Inputs[j].config]

\* What a leaf asks of the run, and of run b if it compares with a baseline.
Demand(leaf, j, b) ==
    LET v == metrics[j][leaf.metric] IN
    /\ v \notin {None, NaN}
    /\ \/ leaf.against = "value" /\ compare(v, leaf.operator, leaf.threshold)
       \/ /\ leaf.against = "baseline_delta"
          /\ Comparable(j, b) /\ Complete(b)
          /\ metrics[b][leaf.metric] \notin {None, NaN}
          /\ compare(v - metrics[b][leaf.metric], leaf.operator, leaf.threshold)

Earned(j, g) ==
    /\ Complete(j)
    /\ \E b \in Jobs : IF Rules[g].logical = "all"
                      THEN \A leaf \in Rules[g].leaves : Demand(leaf, j, b)
                      ELSE \E leaf \in Rules[g].leaves : Demand(leaf, j, b)

\* PASS is earned: every rule of an "all" gate (one of an "any" gate) holds of
\* recorded values, and those that compare with a baseline hold against one
\* complete and comparable run; missing evidence and NaN never turn into PASS.  An "any"
\* gate needs one such rule, even when another names a metric that was not persisted:
\* FAILURE_SCENARIOS_V0.7.md (#16) expects ERROR there, _combine returns PASS.
PassIsEarned == \A j \in Jobs, g \in Gates : gates[<<j, g>>] = PASS => Earned(j, g)

\* What breaks a leaf: numbers that were recorded, never a value that is missing or NaN,
\* on either side of a comparison with a baseline.
Refutes(leaf, j, b) ==
    LET v == metrics[j][leaf.metric] IN
    /\ v \notin {None, NaN} /\ leaf.operator \in Operators
    /\ \/ leaf.against = "value" /\ ~compare(v, leaf.operator, leaf.threshold)
       \/ /\ leaf.against = "baseline_delta"
          /\ Comparable(j, b) /\ Complete(b)
          /\ metrics[b][leaf.metric] \notin {None, NaN}
          /\ ~compare(v - metrics[b][leaf.metric], leaf.operator, leaf.threshold)

Refuted(j, g) ==
    /\ Complete(j)
    /\ \E b \in Jobs :
          LET broken == {leaf \in Rules[g].leaves : Refutes(leaf, j, b)} IN
          IF Rules[g].logical = "all"
          THEN broken # {} /\ \A leaf \in Rules[g].leaves \ broken : Demand(leaf, j, b)
          ELSE broken = Rules[g].leaves

\* A recorded FAIL is a finding and not a lack of one: some rule of an "all" gate (every
\* rule of an "any" gate) is broken by recorded numbers, and none is undecided for want
\* of a metric or of a comparable baseline (QUALITY_GATE_MODEL_V0.7.md, _combine).  The
\* engine makes FAIL of a NaN baseline, where that document says ERROR; no such verdict
\* is ever recorded, because the row that quotes the NaN is refused.
FailIsRefuted == \A j \in Jobs, g \in Gates : gates[<<j, g>>] = FAIL => Refuted(j, g)

\* When the job is over its evaluation is frozen: a stale evaluator, however late,
\* changes neither the run's status nor its rows (STATE_TRANSITIONS_V0.7.md,
\* invariants 4 and 5).
EndedJobFreezesRun ==
    [][\A j \in Jobs : status[j] \in Terminal =>
          /\ run[j] # Absent => run'[j] = run[j]
          /\ results'[j] = results[j]
          /\ metrics'[j] = metrics[j]]_vars

\* A worker made j SUCCEEDED: finalize_attempt clears the lease, a PATCH does not.
FinalizedAsSuccess(j) ==
    /\ status[j] = "RUNNING" /\ status'[j] = "SUCCEEDED"
    /\ owner[j] # None /\ owner'[j] = None

\* A run mirrors its job (STATE_TRANSITIONS_V0.7.md) where a worker makes the job
\* SUCCEEDED: no other attempt's FAILED or RUNNING is in the row by then.  The run may
\* still be QUEUED, or come later, if the attempt looked for it before it was created.
SuccessIsMirrored ==
    [][\A j \in Jobs :
          FinalizedAsSuccess(j) => run[j] \in {Absent, "QUEUED", "SUCCEEDED"}]_vars

\* STATE_TRANSITIONS_V0.7.md draws SUCCEEDED as a terminal status of the run.
SucceededIsTerminal ==
    [][\A j \in Jobs : run[j] = "SUCCEEDED" => run'[j] = "SUCCEEDED"]_vars
=============================================================================
