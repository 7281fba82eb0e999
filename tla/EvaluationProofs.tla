---------------------------- MODULE EvaluationProofs ----------------------------
(***************************************************************************)
(* The evidence of an evaluation, and the gates that rest on it, for any   *)
(* number of jobs, workers, attempts, examples, metrics, gates and         *)
(* requests.                                                               *)
(***************************************************************************)
EXTENDS Evaluation, AttemptHostProofs

RunStatus == {Absent, "QUEUED", "RUNNING", "SUCCEEDED", "FAILED"}

CallState ==
    [pc : {"idle", "record"}, job : Jobs \cup {None}, gate : Gates \cup {None},
     verdict : Verdicts \cup {None}]

EvalTypeOK ==
    /\ run \in [Jobs -> RunStatus]
    /\ results \in [Jobs -> SUBSET (1..Examples)]
    /\ metrics \in [Jobs -> [MetricNames -> AllMeasured \cup {None}]]
    /\ gates \in [Jobs \X Gates -> Verdicts \cup {None}]
    /\ calls \in [Callers -> CallState]

-----------------------------------------------------------------------------
(* The engine *)

LEMMA ReportedAreNames ==
    /\ Reported \subseteq MetricNames
    /\ \A i \in DOMAIN Metrics : Metrics[i] \in Reported /\ i \in Nat /\ i <= Len(Metrics)
    /\ Len(Metrics) \in Nat
    /\ \A m \in Reported : Measured[m] \subseteq AllMeasured
    /\ \A m \in Reported : \E i \in DOMAIN Metrics : m = Metrics[i]
BY ReportIsFinite DEF Reported, MetricNames, AllMeasured

\* The gates that do not compare are decided by the run's metrics alone.
LEMMA BaselineUnused ==
    ASSUME NEW g \in Gates, ~UsesBaseline(g), NEW M, NEW b
    PROVE  evaluate(Rules[g], M, b) = evaluate(Rules[g], M, None)
<1>1. ASSUME NEW leaf \in Rules[g].leaves
      PROVE  evaluate_leaf(leaf, M, b) = evaluate_leaf(leaf, M, None)
  <2>1. leaf.against # "baseline_delta"
    BY DEF UsesBaseline
  <2>2. IsError(leaf, M, b) <=> IsError(leaf, M, None)
    BY <2>1 DEF IsError
  <2>3. IsError(leaf, M, b) \/ leaf.against = "value"
    BY <2>1 DEF IsError
  <2> QED
    BY <2>2, <2>3 DEF evaluate_leaf
<1> DEFINE V(x) == {evaluate_leaf(leaf, M, x) : leaf \in Rules[g].leaves}
<1>2. V(b) = V(None)
  BY <1>1
<1> QED
  BY <1>2 DEF evaluate

\* A verdict is one of three.
LEMMA VerdictType ==
    ASSUME NEW rules, NEW M, NEW b
    PROVE  evaluate(rules, M, b) \in Verdicts
BY DEF evaluate, combine, Verdicts, PASS, FAIL, ERROR

\* A PASS has leaves that passed, none of them undecided.
LEMMA PassHasLeaves ==
    ASSUME NEW rules, NEW M, NEW b, evaluate(rules, M, b) = PASS
    PROVE  IF rules.logical = "all"
           THEN \A leaf \in rules.leaves : evaluate_leaf(leaf, M, b) = PASS
           ELSE \E leaf \in rules.leaves : evaluate_leaf(leaf, M, b) = PASS
<1> DEFINE V == {evaluate_leaf(leaf, M, b) : leaf \in rules.leaves}
<1>1. \A leaf \in rules.leaves : evaluate_leaf(leaf, M, b) \in {PASS, FAIL, ERROR}
  BY DEF evaluate_leaf
<1>2. combine(V, rules.logical) = PASS
  BY DEF evaluate, PASS, ERROR
<1>3. CASE rules.logical = "all"
  <2>1. FAIL \notin V /\ ERROR \notin V
    BY <1>2, <1>3 DEF combine, PASS, FAIL, ERROR
  <2> QED
    BY <1>1, <1>3, <2>1
<1>4. CASE rules.logical # "all"
  <2>1. PASS \in V
    BY <1>2, <1>4 DEF combine, PASS, FAIL, ERROR
  <2> QED
    BY <1>4, <2>1
<1> QED
  BY <1>3, <1>4

\* A FAIL has leaves that failed, none of them undecided.
LEMMA FailHasLeaves ==
    ASSUME NEW rules, NEW M, NEW b, evaluate(rules, M, b) = FAIL
    PROVE  IF rules.logical = "all"
           THEN /\ \E leaf \in rules.leaves : evaluate_leaf(leaf, M, b) = FAIL
                /\ \A leaf \in rules.leaves : evaluate_leaf(leaf, M, b) \in {PASS, FAIL}
           ELSE \A leaf \in rules.leaves : evaluate_leaf(leaf, M, b) = FAIL
<1> DEFINE V == {evaluate_leaf(leaf, M, b) : leaf \in rules.leaves}
<1>1. \A leaf \in rules.leaves : evaluate_leaf(leaf, M, b) \in {PASS, FAIL, ERROR}
  BY DEF evaluate_leaf
<1>2. combine(V, rules.logical) = FAIL
  BY DEF evaluate, FAIL, ERROR
<1>3. CASE rules.logical = "all"
  <2>1. FAIL \in V /\ ERROR \notin V
    BY <1>2, <1>3 DEF combine, PASS, FAIL, ERROR
  <2> QED
    BY <1>1, <1>3, <2>1
<1>4. CASE rules.logical # "all"
  <2>1. PASS \notin V /\ ERROR \notin V
    BY <1>2, <1>4 DEF combine, PASS, FAIL, ERROR
  <2> QED
    BY <1>1, <1>4, <2>1
<1> QED
  BY <1>3, <1>4

-----------------------------------------------------------------------------
(* Evidence only grows *)

\* What every step does to the rows of the runs: ON CONFLICT DO NOTHING.
Grows ==
    \A j \in Jobs :
        /\ results[j] \subseteq results'[j]
        /\ \A m \in MetricNames : metrics[j][m] # None \/ m \notin Reported
                                   => metrics'[j][m] = metrics[j][m]

LEMMA CompleteStays ==
    ASSUME EvalTypeOK, EvalTypeOK', Grows, NEW j \in Jobs, Complete(j)
    PROVE  Complete(j)' /\ metrics'[j] = metrics[j]
<1>1. results'[j] = 1..Examples
  BY DEF EvalTypeOK, Grows, Complete
<1>2. \A m \in MetricNames : metrics'[j][m] = metrics[j][m]
  BY ReportedAreNames DEF Grows, Complete
<1>3. metrics'[j] = metrics[j]
  BY <1>2 DEF EvalTypeOK
<1> QED
  BY <1>1, <1>3 DEF Complete

LEMMA EarnedStays ==
    ASSUME EvalTypeOK, EvalTypeOK', Grows, NEW j \in Jobs, NEW g \in Gates, Earned(j, g)
    PROVE  Earned(j, g)'
<1>1. Complete(j)' /\ metrics'[j] = metrics[j]
  BY CompleteStays DEF Earned
<1>2. \A b \in Jobs : Complete(b) => Complete(b)' /\ metrics'[b] = metrics[b]
  BY CompleteStays
<1>3. \A b \in Jobs : \A leaf \in Rules[g].leaves : Demand(leaf, j, b) => Demand(leaf, j, b)'
  BY <1>1, <1>2 DEF Demand, Comparable
<1> QED
  BY <1>1, <1>3 DEF Earned

LEMMA RefutedStays ==
    ASSUME EvalTypeOK, EvalTypeOK', Grows, NEW j \in Jobs, NEW g \in Gates, Refuted(j, g)
    PROVE  Refuted(j, g)'
<1>1. Complete(j)' /\ metrics'[j] = metrics[j]
  BY CompleteStays DEF Refuted
<1>2. \A b \in Jobs : Complete(b) => Complete(b)' /\ metrics'[b] = metrics[b]
  BY CompleteStays
<1>3. \A b \in Jobs : \A leaf \in Rules[g].leaves :
         /\ Demand(leaf, j, b) => Demand(leaf, j, b)'
         /\ Refutes(leaf, j, b) => Refutes(leaf, j, b)'
  BY <1>1, <1>2 DEF Demand, Refutes, Comparable
<1>4. PICK b \in Jobs :
         IF Rules[g].logical = "all"
         THEN /\ \E leaf \in Rules[g].leaves : Refutes(leaf, j, b)
              /\ \A leaf \in Rules[g].leaves : Refutes(leaf, j, b) \/ Demand(leaf, j, b)
         ELSE \A leaf \in Rules[g].leaves : Refutes(leaf, j, b)
  BY DEF Refuted
<1> QED
  BY <1>1, <1>3, <1>4 DEF Refuted

\* A verdict that stands on complete evidence, and means what it says.
Sound(j, g, v) ==
    /\ v \in Verdicts
    /\ Complete(j)
    /\ ~UsesBaseline(g) => v = evaluate(Rules[g], metrics[j], None)
    /\ v = PASS => Earned(j, g)
    /\ v = FAIL => Refuted(j, g)

LEMMA SoundStays ==
    ASSUME EvalTypeOK, EvalTypeOK', Grows, NEW j \in Jobs, NEW g \in Gates, NEW v, Sound(j, g, v)
    PROVE  Sound(j, g, v)'
BY CompleteStays, EarnedStays, RefutedStays DEF Sound, UsesBaseline

\* The verdict of a request is sound when it is made.
LEMMA DecisionIsSound ==
    ASSUME EvalTypeOK, SucceededIsComplete, NEW j \in Jobs, NEW g \in Gates,
           run[j] = "SUCCEEDED", NEW base \in resolve_baseline_metrics(j)
    PROVE  LET v == recordable(Rules[g], metrics[j], base) IN v = None \/ Sound(j, g, v)
<1> SUFFICES ASSUME recordable(Rules[g], metrics[j], base) # None
             PROVE  Sound(j, g, recordable(Rules[g], metrics[j], base))
  OBVIOUS
<1> DEFINE v == evaluate(Rules[g], metrics[j], base)
<1>0. recordable(Rules[g], metrics[j], base) = v
  BY DEF recordable
<1>1. Complete(j)
  BY DEF SucceededIsComplete
<1>2. PICK b \in Jobs : /\ base = metrics[b] \/ base = None
                        /\ base # None => Comparable(j, b) /\ Complete(b)
  <2>1. CASE base = None
    BY <2>1
  <2>2. CASE base # None
    <3>1. PICK b \in Baselines(j) : run[b] = "SUCCEEDED" /\ base = metrics[b]
      BY <2>2 DEF resolve_baseline_metrics
    <3>2. b \in Jobs /\ Comparable(j, b) /\ Complete(b)
      BY <3>1 DEF Baselines, config_compatible, Comparable, SucceededIsComplete
    <3> QED
      BY <3>1, <3>2
  <2> QED
    BY <2>1, <2>2
<1>3. ASSUME NEW leaf \in Rules[g].leaves, evaluate_leaf(leaf, metrics[j], base) = PASS
      PROVE  Demand(leaf, j, b)
  <2>1. ~IsError(leaf, metrics[j], base)
    BY <1>3 DEF evaluate_leaf, PASS, ERROR
  <2>2. metrics[j][leaf.metric] \notin {None, NaN}
    BY <2>1 DEF IsError
  <2>3. CASE leaf.against = "value"
    <3>1. compare(metrics[j][leaf.metric], leaf.operator, leaf.threshold)
      BY <1>3, <2>1, <2>3 DEF evaluate_leaf, PASS, FAIL
    <3> QED
      BY <2>2, <2>3, <3>1 DEF Demand
  <2>4. CASE leaf.against = "baseline_delta"
    <3>2. base # None
      BY <2>1, <2>4 DEF IsError
    <3>3. base[leaf.metric] # None
      BY <2>1, <2>4, <3>2 DEF IsError
    <3>4. base = metrics[b]
      BY <1>2, <3>2
    <3>5. compare(minus(metrics[j][leaf.metric], base[leaf.metric]), leaf.operator, leaf.threshold)
      BY <1>3, <2>1, <2>4 DEF evaluate_leaf, PASS, FAIL
    <3>6. base[leaf.metric] # NaN
      BY <3>5 DEF minus, compare
    <3> QED
      BY <1>2, <2>2, <2>4, <3>2, <3>3, <3>4, <3>5, <3>6 DEF Demand, minus
  <2> QED
    BY <2>1, <2>3, <2>4 DEF IsError
<1>4. v = PASS => Earned(j, g)
  BY <1>1, <1>3, PassHasLeaves DEF Earned
<1>5. v \in Verdicts
  BY VerdictType
<1>6. ~UsesBaseline(g) => v = evaluate(Rules[g], metrics[j], None)
  BY BaselineUnused
<1>7. ASSUME NEW leaf \in Rules[g].leaves, evaluate_leaf(leaf, metrics[j], base) = FAIL
      PROVE  Rules[g].logical \in {"all", "any"} => Refutes(leaf, j, b)
  <2> SUFFICES ASSUME Rules[g].logical \in {"all", "any"} PROVE Refutes(leaf, j, b)
    OBVIOUS
  <2>1. ~IsError(leaf, metrics[j], base)
    BY <1>7 DEF evaluate_leaf, FAIL, ERROR
  <2>2. metrics[j][leaf.metric] \notin {None, NaN} /\ leaf.operator \in Operators
    BY <2>1 DEF IsError
  <2>3. CASE leaf.against = "value"
    <3>1. ~compare(metrics[j][leaf.metric], leaf.operator, leaf.threshold)
      BY <1>7, <2>1, <2>3 DEF evaluate_leaf, PASS, FAIL
    <3> QED
      BY <2>2, <2>3, <3>1 DEF Refutes
  <2>4. CASE leaf.against = "baseline_delta"
    <3>1. base # None /\ base[leaf.metric] # None
      BY <2>1, <2>4 DEF IsError
    <3>2. base = metrics[b] /\ Comparable(j, b) /\ Complete(b)
      BY <1>2, <3>1
    <3>4. base[leaf.metric] # NaN
      BY <2>1, <2>4 DEF recordable, QuotesNaN
    <3>3. ~compare(minus(metrics[j][leaf.metric], base[leaf.metric]),
                   leaf.operator, leaf.threshold)
      BY <1>7, <2>1, <2>4 DEF evaluate_leaf, PASS, FAIL
    <3> QED
      BY <2>2, <2>4, <3>1, <3>2, <3>3, <3>4 DEF Refutes, minus
  <2> QED
    BY <2>1, <2>3, <2>4 DEF IsError
<1>8. v = FAIL => Refuted(j, g)
  <2> SUFFICES ASSUME v = FAIL PROVE Refuted(j, g)
    OBVIOUS
  <2>1. IF Rules[g].logical = "all"
        THEN /\ \E leaf \in Rules[g].leaves : Refutes(leaf, j, b)
             /\ \A leaf \in Rules[g].leaves : Refutes(leaf, j, b) \/ Demand(leaf, j, b)
        ELSE \A leaf \in Rules[g].leaves : Refutes(leaf, j, b)
    <3>1. Rules[g].logical \in {"all", "any"}
      BY DEF evaluate, FAIL, ERROR
    <3> QED
      BY <1>3, <1>7, <3>1, FailHasLeaves
  <2> QED
    BY <1>1, <2>1 DEF Refuted
<1> QED
  BY <1>0, <1>1, <1>4, <1>5, <1>6, <1>8 DEF Sound

-----------------------------------------------------------------------------
(* The invariant *)

\* While the lease lasts, whatever was reported has its row, inserted now or before.
RecordedUpTo(w) ==
    exec[w].pc \in {"stream", "close"} /\ Mine(w) /\ Holds(w) =>
        /\ \A i \in 1..Examples : i <= exec[w].at => i \in results[exec[w].job]
        /\ \A i \in DOMAIN Metrics :
              Examples + i <= exec[w].at => metrics[exec[w].job][Metrics[i]] # None

GatesSound ==
    \A j \in Jobs, g \in Gates : gates[<<j, g>>] # None => Sound(j, g, gates[<<j, g>>])

CallsSound ==
    \A c \in Callers : calls[c].pc = "record" =>
        /\ calls[c].job \in Jobs /\ calls[c].gate \in Gates
        /\ calls[c].verdict # None => Sound(calls[c].job, calls[c].gate, calls[c].verdict)

EvalInv ==
    /\ HostOK
    /\ EvalTypeOK
    /\ \A w \in Workers : RecordedUpTo(w)
    /\ SucceededIsComplete
    /\ GatesSound
    /\ CallsSound

LEMMA EvalInvInit == Init => EvalInv
<1> SUFFICES ASSUME Init PROVE EvalInv
  OBVIOUS
<1>1. /\ owner = [j \in Jobs |-> None] /\ exec = [w \in Workers |-> ExecIdle]
      /\ gates = [k \in Jobs \X Gates |-> None] /\ calls = [c \in Callers |-> CallIdle]
  BY DEF Init
<1>2. HostOK
  <2>1. status \in [Jobs -> Status \cup {Absent}] /\ attempt \in [Jobs -> 0..MaxAttempts]
    <3>1. PICK start \in Starts :
             /\ status = start
             /\ attempt = [j \in Jobs |-> IF start[j] = Absent THEN 0 ELSE 1]
      BY DEF Init
    <3>2. status \in [Jobs -> {Absent, "SUCCEEDED", "FAILED", "QUEUED"}]
      BY <3>1, StartsAreStates
    <3>3. \A j \in Jobs : start[j] # Absent => MaxAttempts > 0
      BY <3>1, StartsAreStates
    <3>4. attempt \in [Jobs -> 0..MaxAttempts]
      BY <3>1, <3>3, MaxAttemptsIsNat
    <3> QED
      BY <3>2, <3>4 DEF Status
  <2>2. ExecIdle \in ExecState /\ ExecIdle.pc = "idle"
    BY MaxAttemptsIsNat, LastIsNat DEF ExecIdle, ExecState
  <2> QED
    BY <1>1, <2>1, <2>2 DEF HostOK, HostTypeOK
<1>3. /\ run \in [Jobs -> RunStatus] /\ results \in [Jobs -> SUBSET (1..Examples)]
      /\ metrics \in [Jobs -> [MetricNames -> AllMeasured \cup {None}]]
  BY StartsAreStates DEF Init, RunStatus, Absent
<1>4. EvalTypeOK
  BY <1>1, <1>3 DEF EvalTypeOK, CallState, CallIdle
<1>5. SucceededIsComplete
  BY ReportedAreNames, NoneIsNoValue DEF Init, SucceededIsComplete, Complete
<1>6. GatesSound /\ CallsSound
  BY <1>1 DEF GatesSound, CallsSound, CallIdle
<1>7. \A w \in Workers : RecordedUpTo(w)
  BY <1>1 DEF RecordedUpTo, ExecIdle
<1> QED
  BY <1>2, <1>4, <1>5, <1>6, <1>7 DEF EvalInv

-----------------------------------------------------------------------------
(* Steps *)

\* What rests on the evidence stands on more of it, whoever adds to it.
LEMMA EvidenceStays ==
    ASSUME EvalInv, HostOK', EvalTypeOK', Grows, UNCHANGED <<gates, calls>>,
           \A j \in Jobs : run'[j] = "SUCCEEDED" => run[j] = "SUCCEEDED" \/ Complete(j),
           \A w \in Workers : RecordedUpTo(w)'
    PROVE  EvalInv'
<1> USE DEF EvalInv
<1>1. SucceededIsComplete'
  BY CompleteStays DEF SucceededIsComplete
<1>2. GatesSound'
  BY SoundStays DEF GatesSound
<1>3. CallsSound'
  <2> SUFFICES ASSUME NEW c \in Callers, calls[c].pc = "record"
               PROVE  /\ calls[c].job \in Jobs /\ calls[c].gate \in Gates
                      /\ calls[c].verdict # None =>
                            Sound(calls[c].job, calls[c].gate, calls[c].verdict)'
    BY DEF CallsSound
  <2> QED
    BY SoundStays DEF CallsSound
<1> QED
  BY <1>1, <1>2, <1>3

LEMMA HostKeepsEvalInv ==
    ASSUME EvalInv, HostStep, UNCHANGED evalVars
    PROVE  EvalInv'
<1> USE DEF EvalInv
<1>1. HostOK' /\ EvalTypeOK' /\ Grows
  BY HostStepOK DEF EvalTypeOK, evalVars, Grows
<1>2. ASSUME NEW w \in Workers PROVE RecordedUpTo(w)'
  <2>1. CASE exec'[w].pc \notin {"stream", "close", "finalize"}
    BY <2>1 DEF RecordedUpTo
  <2>2. CASE exec'[w].pc \in {"stream", "close", "finalize"}
    BY <2>2, BusyKept DEF RecordedUpTo, evalVars
  <2> QED
    BY <2>1, <2>2
<1> QED
  BY <1>1, <1>2, EvidenceStays DEF evalVars

\* What is left to show of a step of w's executor.
LEMMA ExecutorKeepsEvalInv ==
    ASSUME EvalInv, NEW w \in Workers, UNCHANGED <<status, attempt, owner, gates, calls>>,
           NEW e \in ExecState, exec' = [exec EXCEPT ![w] = e],
           e.pc # "idle" => e.job \in Jobs,
           e.pc \in {"claimed", "lookup", "prepare"} => e.at = 0,
           EvalTypeOK', Grows, RecordedUpTo(w)',
           \A j \in Jobs : run'[j] = "SUCCEEDED" => run[j] = "SUCCEEDED" \/ Complete(j)
    PROVE  EvalInv'
<1> USE DEF EvalInv
<1>1. HostOK'
  BY ExecutorOK
<1>2. ASSUME NEW x \in Workers, x # w PROVE RecordedUpTo(x)'
  <2>1. exec'[x] = exec[x] /\ (Mine(x)' <=> Mine(x)) /\ (Holds(x)' <=> Holds(x))
    BY <1>2 DEF HostOK, HostTypeOK, Mine, Holds
  <2>2. Mine(x) => exec[x].job \in Jobs
    BY DEF Mine
  <2> QED
    BY <2>1, <2>2, ReportedAreNames DEF RecordedUpTo, Grows
<1> QED
  BY <1>1, <1>2, EvidenceStays

\* A worker that is not, or not yet, at the evaluator's reports.
LEMMA QuietKeepsEvalInv ==
    ASSUME EvalInv, NEW w \in Workers,
           UNCHANGED <<status, attempt, owner, results, metrics, gates, calls>>,
           NEW e \in ExecState, exec' = [exec EXCEPT ![w] = e],
           e.pc \notin {"stream", "close"} \/ e.at = 0,
           e.pc # "idle" => e.job \in Jobs,
           e.pc \in {"claimed", "lookup", "prepare"} => e.at = 0,
           run' \in [Jobs -> RunStatus],
           \A j \in Jobs : run'[j] = "SUCCEEDED" => run[j] = "SUCCEEDED" \/ Complete(j)
    PROVE  EvalInv'
<1>1. EvalTypeOK' /\ Grows
  BY DEF EvalInv, EvalTypeOK, Grows
<1>2. exec'[w] = e
  BY DEF EvalInv, HostOK, HostTypeOK
<1>3. RecordedUpTo(w)'
  BY <1>2, ReportIsFinite, ReportedAreNames DEF RecordedUpTo
<1> QED
  BY <1>1, <1>3, ExecutorKeepsEvalInv

\* What mark_status can leave in the row.
LEMMA MarkStatus ==
    ASSUME EvalInv, NEW w \in Workers, NEW to \in RunStatus, mark_status(w, to),
           exec[w].job \in Jobs
    PROVE  /\ run' \in [Jobs -> RunStatus]
           /\ \A j \in Jobs : run'[j] = "SUCCEEDED" =>
                 \/ run[j] = "SUCCEEDED"
                 \/ to = "SUCCEEDED" /\ Holds(w) /\ j = exec[w].job
BY DEF mark_status, EvalInv, EvalTypeOK

\* The states of w's worker that GoOn and Outcome lead to.
LEMMA OutcomeState ==
    ASSUME HostOK, NEW w \in Workers, NEW r \in Results, Outcome(w, r), exec[w].pc # "idle"
    PROVE  \E e \in ExecState : /\ exec' = [exec EXCEPT ![w] = e]
                               /\ e.pc = "finalize" /\ e.job \in Jobs
<1> DEFINE e == [exec[w] EXCEPT !.pc = "finalize", !.result = r]
<1>1. exec[w] \in ExecState /\ exec[w].job \in Jobs
  BY DEF HostOK, HostTypeOK
<1>2. e \in ExecState /\ e.pc = "finalize" /\ e.job = exec[w].job
  BY <1>1 DEF ExecState
<1>3. exec' = [exec EXCEPT ![w] = e]
  BY DEF Outcome
<1> QED
  BY <1>1, <1>2, <1>3

LEMMA GoOnState ==
    ASSUME HostOK, NEW w \in Workers, NEW pc \in {"prepare", "stream"}, GoOn(w, pc),
           exec[w].pc \in {"lookup", "prepare"}
    PROVE  \E e \in ExecState : /\ exec' = [exec EXCEPT ![w] = e]
                               /\ e.pc = pc /\ e.job \in Jobs /\ e.at = 0
<1> DEFINE e == [exec[w] EXCEPT !.pc = pc]
<1>1. exec[w] \in ExecState /\ exec[w].job \in Jobs /\ exec[w].at = 0
  BY DEF HostOK, HostTypeOK
<1>2. e \in ExecState /\ e.pc = pc /\ e.job = exec[w].job /\ e.at = 0
  BY <1>1 DEF ExecState
<1>3. exec' = [exec EXCEPT ![w] = e]
  BY DEF GoOn
<1> QED
  BY <1>1, <1>2, <1>3

\* Before the evaluator runs.
LEMMA PreparationKeepsEvalInv ==
    ASSUME EvalInv, NEW w \in Workers, Lookup(w) \/ PrepareFails(w) \/ Prepare(w)
    PROVE  EvalInv'
<1>1. /\ exec[w].pc \in {"lookup", "prepare"} /\ exec[w].job \in Jobs /\ HostOK
      /\ UNCHANGED <<status, attempt, owner, results, metrics, gates, calls>>
  BY DEF Lookup, Simulate, PrepareFails, Prepare, evalVars, EvalInv, HostOK
<1>2. /\ run' \in [Jobs -> RunStatus]
      /\ \A j \in Jobs : run'[j] = "SUCCEEDED" => run[j] = "SUCCEEDED"
  <2>1. CASE Lookup(w)
    BY <2>1 DEF Lookup, evalVars, EvalInv, EvalTypeOK
  <2>2. CASE PrepareFails(w)
    BY <1>1, <2>2, MarkStatus DEF PrepareFails, RunStatus
  <2>3. CASE Prepare(w)
    BY <1>1, <2>3, MarkStatus DEF Prepare, RunStatus
  <2> QED
    BY <2>1, <2>2, <2>3
<1>3. PICK e \in ExecState : /\ exec' = [exec EXCEPT ![w] = e]
                            /\ e.job \in Jobs
                            /\ \/ e.pc = "finalize"
                               \/ e.pc \in {"prepare", "stream"} /\ e.at = 0
  <2>1. \/ \E pc \in {"prepare", "stream"} : GoOn(w, pc)
        \/ \E r \in Results : Outcome(w, r)
    BY DEF Lookup, Simulate, PrepareFails, Prepare, Results
  <2> QED
    BY <1>1, <2>1, OutcomeState, GoOnState
<1> QED
  BY <1>1, <1>2, <1>3, QuietKeepsEvalInv

\* A report is inserted, or its row was there, or the executor is fenced out.
LEMMA EventKeepsEvalInv ==
    ASSUME EvalInv, NEW w \in Workers, Event(w)
    PROVE  EvalInv'
<1> USE DEF EvalInv
<1> DEFINE j == exec[w].job
           i == exec[w].at + 1
           e == [exec[w] EXCEPT !.at = i]
<1>1. /\ exec[w] \in ExecState /\ exec[w].pc = "stream" /\ j \in Jobs
      /\ i \in 1..Last /\ HandleEvent(w, i)
      /\ UNCHANGED <<status, attempt, owner, run, gates, calls>>
  BY LastIsNat DEF Event, NextEvent, HostOK, HostTypeOK, ExecState
<1>5. exec[w].at \in Nat
  BY <1>1 DEF ExecState
<1>2. e \in ExecState /\ e.pc = "stream" /\ e.job = j /\ e.at = i
      /\ e.attempt = exec[w].attempt
  BY <1>1 DEF ExecState
<1>3. exec' = [exec EXCEPT ![w] = e] /\ exec'[w] = e
  BY DEF Event, NextEvent, HostOK, HostTypeOK
<1> HIDE DEF e
<1>4. EvalTypeOK' /\ Grows /\ RecordedUpTo(w)'
  <2>1. CASE RecordResult(w, i)
    <3>1. /\ results' \in [Jobs -> SUBSET (1..Examples)]
          /\ \A k \in Jobs : results[k] \subseteq results'[k]
      BY <1>1, <2>1 DEF RecordResult, EvalTypeOK
    <3>2. Holds(w) => i \in results'[j]
      BY <1>1, <2>1 DEF RecordResult, EvalTypeOK
    <3>3. EvalTypeOK' /\ Grows
      BY <1>1, <2>1, <3>1 DEF RecordResult, EvalTypeOK, Grows
    <3>4. i <= Examples
      BY <2>1 DEF RecordResult
    <3> SUFFICES ASSUME Mine(w), Holds(w)
                 PROVE  /\ \A k \in 1..Examples : k <= i => k \in results'[j]
                        /\ \A k \in DOMAIN Metrics :
                              Examples + k <= i => metrics[j][Metrics[k]] # None
      BY <1>1, <1>2, <1>3, <2>1, <3>3 DEF RecordedUpTo, RecordResult, Mine, Holds
    <3>5. \A k \in 1..Examples : k <= exec[w].at => k \in results[j]
      BY <1>1 DEF RecordedUpTo
    <3>6. \A k \in 1..Examples : k <= i => k <= exec[w].at \/ k = i
      BY <1>1, ReportIsFinite DEF ExecState
    <3>7. \A k \in DOMAIN Metrics : ~(Examples + k <= i)
      BY <1>1, <3>4, ReportIsFinite, ReportedAreNames DEF ExecState
    <3> QED
      BY <1>1, <3>1, <3>2, <3>5, <3>6, <3>7
  <2>2. CASE i - Examples \in DOMAIN Metrics /\ RecordMetric(w, Metrics[i - Examples])
    <3> DEFINE m == Metrics[i - Examples]
    <3>1. m \in Reported /\ m \in MetricNames
      BY <2>2, ReportedAreNames
    <3>2. PICK x \in Measured[m] :
             metrics' = IF Holds(w)
                        THEN [metrics EXCEPT ![j] =
                                [metrics[j] EXCEPT ![m] = Recorded(metrics[j][m], x)]]
                        ELSE metrics
      BY <2>2 DEF RecordMetric
    <3>3. x \in AllMeasured /\ x # None /\ UNCHANGED results
      BY <2>2, <3>1, <3>2, ReportedAreNames, NoneIsNoValue DEF RecordMetric
    <3> HIDE DEF m
    <3>4. /\ metrics' \in [Jobs -> [MetricNames -> AllMeasured \cup {None}]]
          /\ \A k \in Jobs : \A n \in MetricNames :
                metrics[k][n] # None \/ n \notin Reported => metrics'[k][n] = metrics[k][n]
          /\ Holds(w) => metrics'[j][m] # None
      <4>1. CASE Holds(w)
        <5> DEFINE row == [metrics[j] EXCEPT ![m] = Recorded(metrics[j][m], x)]
        <5>1. metrics[j] \in [MetricNames -> AllMeasured \cup {None}]
          BY <1>1 DEF EvalTypeOK
        <5>2. /\ row \in [MetricNames -> AllMeasured \cup {None}] /\ row[m] # None
              /\ \A n \in MetricNames : metrics[j][n] # None \/ n # m => row[n] = metrics[j][n]
          BY <3>1, <3>3, <5>1 DEF Recorded
        <5>3. metrics' = [metrics EXCEPT ![j] = row]
          BY <3>2, <4>1
        <5> HIDE DEF row
        <5> QED
          BY <1>1, <3>1, <5>2, <5>3 DEF EvalTypeOK
      <4>2. CASE ~Holds(w)
        BY <3>2, <4>2 DEF EvalTypeOK
      <4> QED
        BY <4>1, <4>2
    <3>5. EvalTypeOK' /\ Grows
      BY <1>1, <3>3, <3>4 DEF EvalTypeOK, Grows
    <3> SUFFICES ASSUME Mine(w), Holds(w)
                 PROVE  /\ \A k \in 1..Examples : k <= i => k \in results[j]
                        /\ \A k \in DOMAIN Metrics :
                              Examples + k <= i => metrics'[j][Metrics[k]] # None
      BY <1>1, <1>2, <1>3, <3>3, <3>5 DEF RecordedUpTo, Mine, Holds
    <3>6. i - Examples >= 1
      BY <2>2, ReportIsFinite
    <3>7. \A k \in 1..Examples : k \in results[j]
      BY <1>1, <3>6, ReportIsFinite DEF RecordedUpTo, ExecState
    <3>8. ASSUME NEW k \in DOMAIN Metrics, Examples + k <= i
          PROVE  metrics'[j][Metrics[k]] # None
      <4>1. CASE k = i - Examples
        BY <3>4, <4>1 DEF m
      <4>2. CASE k # i - Examples
        <5>1. Examples + k <= exec[w].at
          BY <1>1, <3>8, <4>2, ReportIsFinite, ReportedAreNames DEF ExecState
        <5>2. metrics[j][Metrics[k]] # None /\ Metrics[k] \in MetricNames
          BY <1>1, <5>1, ReportedAreNames DEF RecordedUpTo
        <5> QED
          BY <1>1, <3>4, <5>2
      <4> QED
        BY <4>1, <4>2
    <3> QED
      BY <3>7, <3>8
  <2>3. CASE i = Last /\ UNCHANGED <<results, metrics>>
    <3>1. EvalTypeOK' /\ Grows
      BY <1>1, <2>3 DEF EvalTypeOK, Grows
    <3>4. Examples \in Nat /\ Len(Metrics) \in Nat
      BY ReportIsFinite, ReportedAreNames
    <3>5. exec[w].at + 1 = Examples + Len(Metrics) + 1
      BY <2>3, LastIsFinal
    <3>2. exec[w].at = Examples + Len(Metrics) /\ Examples \in Nat
      BY <1>5, <3>4, <3>5
    <3>3. /\ \A k \in 1..Examples : k <= exec[w].at
          /\ \A k \in DOMAIN Metrics : Examples + k <= exec[w].at
      BY <3>2, ReportedAreNames
    <3> QED
      BY <1>1, <1>2, <1>3, <2>3, <3>1, <3>3 DEF RecordedUpTo, Mine, Holds
  <2> QED
    BY <1>1, <2>1, <2>2, <2>3 DEF HandleEvent
<1> QED
  BY <1>1, <1>2, <1>3, <1>4, ExecutorKeepsEvalInv

\* The run is SUCCEEDED once all that the evaluator reports is recorded.
LEMMA CloseKeepsEvalInv ==
    ASSUME EvalInv, NEW w \in Workers, Close(w)
    PROVE  EvalInv'
<1>1. /\ exec[w] \in ExecState /\ exec[w].pc = "close" /\ exec[w].job \in Jobs /\ HostOK
      /\ UNCHANGED <<status, attempt, owner, results, metrics, gates, calls>>
  BY DEF Close, EvalInv, HostOK, HostTypeOK
<1>2. PICK r \in Results : Outcome(w, r)
  BY <1>1 DEF Close, Results, ExecState
<1>3. PICK e \in ExecState : /\ exec' = [exec EXCEPT ![w] = e]
                            /\ e.pc = "finalize" /\ e.job \in Jobs
  BY <1>1, <1>2, OutcomeState
<1>4. ASSUME exec[w].at = Last, Holds(w) PROVE Complete(exec[w].job)
  <2>1. Mine(w)
    BY <1>1, <1>4 DEF Mine, Holds
  <2>2. /\ Examples \in Nat /\ Len(Metrics) \in Nat
        /\ exec[w].at = Examples + Len(Metrics) + 1
    BY <1>4, ReportIsFinite, ReportedAreNames, LastIsFinal
  <2>3. /\ \A i \in 1..Examples : i <= exec[w].at
        /\ \A i \in DOMAIN Metrics : Examples + i <= exec[w].at
    BY <2>2, ReportedAreNames
  <2>4. /\ \A i \in 1..Examples : i \in results[exec[w].job]
        /\ \A i \in DOMAIN Metrics : metrics[exec[w].job][Metrics[i]] # None
    BY <1>1, <1>4, <2>1, <2>3 DEF EvalInv, RecordedUpTo
  <2>5. results[exec[w].job] \subseteq 1..Examples
    BY <1>1 DEF EvalInv, EvalTypeOK
  <2> QED
    BY <2>4, <2>5, ReportedAreNames DEF Complete
<1>5. /\ run' \in [Jobs -> RunStatus]
      /\ \A j \in Jobs : run'[j] = "SUCCEEDED" => run[j] = "SUCCEEDED" \/ Complete(j)
  <2>1. CASE ProducedFinal(w)
    BY <1>1, <1>4, <2>1, MarkStatus DEF Close, ProducedFinal, RunStatus
  <2>2. CASE ~ProducedFinal(w)
    BY <1>1, <2>2, MarkStatus DEF Close, RunStatus
  <2> QED
    BY <2>1, <2>2
<1> QED
  BY <1>1, <1>3, <1>5, QuietKeepsEvalInv

LEMMA StreamKeepsEvalInv ==
    ASSUME EvalInv, NEW w \in Workers, StreamStep(w), UNCHANGED evalVars
    PROVE  EvalInv'
<1>1. /\ exec[w] \in ExecState /\ exec[w].job \in Jobs
      /\ UNCHANGED <<status, attempt, owner, run, results, metrics, gates, calls>>
  BY DEF StreamStep, StreamEnds, FencedOut, evalVars, EvalInv, HostOK, HostTypeOK
<1>2. run' \in [Jobs -> RunStatus]
  BY <1>1 DEF EvalInv, EvalTypeOK
<1>3. CASE FencedOut(w)
  <2>1. ExecIdle \in ExecState /\ ExecIdle.pc = "idle"
    BY MaxAttemptsIsNat, LastIsNat DEF ExecIdle, ExecState
  <2> QED
    BY <1>1, <1>2, <1>3, <2>1, QuietKeepsEvalInv DEF FencedOut
<1>4. CASE StreamEnds(w)
  <2>1. PICK r \in {"transient", "permanent", None} :
           exec' = [exec EXCEPT ![w] = [@ EXCEPT !.pc = "close", !.result = r]]
    BY <1>4 DEF StreamEnds
  <2> DEFINE e == [exec[w] EXCEPT !.pc = "close", !.result = r]
  <2>2. /\ e \in ExecState /\ e.pc = "close" /\ e.job = exec[w].job /\ e.at = exec[w].at
        /\ e.attempt = exec[w].attempt
    BY <1>1 DEF ExecState, Results
  <2>3. exec' = [exec EXCEPT ![w] = e] /\ exec'[w] = e
    BY <2>1 DEF EvalInv, HostOK, HostTypeOK
  <2> HIDE DEF e
  <2>4. EvalTypeOK' /\ Grows
    BY <1>1 DEF EvalInv, EvalTypeOK, Grows
  <2>5. exec[w].pc = "stream" /\ RecordedUpTo(w)
    BY <1>4 DEF StreamEnds, EvalInv
  <2>6. RecordedUpTo(w)'
    BY <1>1, <2>2, <2>3, <2>5 DEF RecordedUpTo, Mine, Holds
  <2> QED
    BY <1>1, <2>2, <2>3, <2>4, <2>6, ExecutorKeepsEvalInv DEF EvalInv
<1> QED
  BY <1>3, <1>4 DEF StreamStep

\* Requests that apply gates, and the API that creates runs, leave the evidence alone.
LEMMA ClientsKeepEvalInv ==
    ASSUME EvalInv, UNCHANGED <<hostVars, results, metrics>>,
           \/ \E j \in Jobs : CreateRun(j)
           \/ \E c \in Callers : \/ \E j \in Gated, g \in Gates : DecideGate(c, j, g)
                                \/ RecordGate(c)
    PROVE  EvalInv'
<1> USE DEF EvalInv
<1>1. HostOK' /\ (\A w \in Workers : RecordedUpTo(w)') /\ Grows
  BY DEF hostVars, HostOK, HostTypeOK, RecordedUpTo, Mine, Holds, Grows
<1>2. CASE \E j \in Jobs : CreateRun(j)
  <2>1. EvalTypeOK' /\ UNCHANGED <<gates, calls>>
    BY <1>2 DEF CreateRun, EvalTypeOK, RunStatus
  <2>2. \A j \in Jobs : run'[j] = "SUCCEEDED" => run[j] = "SUCCEEDED"
    BY <1>2 DEF CreateRun, EvalTypeOK
  <2> QED
    BY <1>1, <2>1, <2>2, EvidenceStays
<1>3. ASSUME NEW c \in Callers, NEW j \in Gated, NEW g \in Gates, DecideGate(c, j, g)
      PROVE  EvalInv'
  <2>1. j \in Jobs /\ run[j] = "SUCCEEDED" /\ UNCHANGED <<run, results, metrics, gates>>
    BY <1>3, GatedAreJobs DEF DecideGate
  <2>2. PICK base \in resolve_baseline_metrics(j) :
           calls' = [calls EXCEPT ![c] =
                        [pc |-> "record", job |-> j, gate |-> g,
                         verdict |-> recordable(Rules[g], metrics[j], base)]]
    BY <1>3 DEF DecideGate
  <2> DEFINE v == recordable(Rules[g], metrics[j], base)
             call == [pc |-> "record", job |-> j, gate |-> g, verdict |-> v]
  <2>3. v = None \/ Sound(j, g, v)
    BY <2>1, DecisionIsSound
  <2>4. EvalTypeOK' /\ SucceededIsComplete'
    <3>1. call \in CallState
      BY <2>1, <2>3 DEF CallState, Sound
    <3>2. calls' \in [Callers -> CallState]
      BY <2>2, <3>1 DEF EvalTypeOK
    <3> QED
      BY <2>1, <3>2 DEF EvalTypeOK, SucceededIsComplete, Complete
  <2>5. ASSUME NEW k \in Jobs, NEW h \in Gates, NEW x, Sound(k, h, x) PROVE Sound(k, h, x)'
    BY <1>1, <2>4, <2>5, SoundStays
  <2>6. GatesSound'
    BY <2>1, <2>5 DEF GatesSound
  <2>7. CallsSound'
    <3>1. calls'[c] = call /\ \A d \in Callers : d # c => calls'[d] = calls[d]
      BY <2>2 DEF EvalTypeOK
    <3> QED
      BY <2>1, <2>3, <2>5, <3>1 DEF CallsSound
  <2> QED
    BY <1>1, <2>4, <2>6, <2>7
<1>4. ASSUME NEW c \in Callers, RecordGate(c) PROVE EvalInv'
  <2> DEFINE j == calls[c].job
             g == calls[c].gate
             v == calls[c].verdict
  <2>1. /\ j \in Jobs /\ g \in Gates /\ (v # None => Sound(j, g, v))
        /\ UNCHANGED <<run, results, metrics>>
    BY <1>4 DEF RecordGate, CallsSound
  <2>2. /\ calls' = [calls EXCEPT ![c] = CallIdle]
        /\ \/ gates' = gates
           \/ /\ v # None
              /\ gates' = [gates EXCEPT ![<<j, g>>] = Recorded(gates[<<j, g>>], v)]
    BY <1>4 DEF RecordGate
  <2>3. EvalTypeOK' /\ SucceededIsComplete'
    <3>1. CallIdle \in CallState
      BY DEF CallIdle, CallState
    <3>2. v # None => v \in Verdicts
      BY <2>1 DEF Sound
    <3>3. gates' \in [Jobs \X Gates -> Verdicts \cup {None}]
      BY <2>1, <2>2, <3>2 DEF EvalTypeOK, Recorded
    <3> QED
      BY <2>1, <2>2, <3>1, <3>3 DEF EvalTypeOK, SucceededIsComplete, Complete
  <2>4. ASSUME NEW k \in Jobs, NEW h \in Gates, NEW x, Sound(k, h, x) PROVE Sound(k, h, x)'
    BY <1>1, <2>3, <2>4, SoundStays
  <2>5. \A k \in Jobs, h \in Gates :
           \/ gates'[<<k, h>>] = gates[<<k, h>>]
           \/ k = j /\ h = g /\ v # None /\ gates'[<<k, h>>] = v
    BY <2>1, <2>2 DEF EvalTypeOK, Recorded
  <2>6. GatesSound'
    BY <2>1, <2>4, <2>5 DEF GatesSound
  <2>7. CallsSound'
    <3>1. calls'[c].pc = "idle" /\ \A d \in Callers : d # c => calls'[d] = calls[d]
      BY <2>2 DEF EvalTypeOK, CallIdle
    <3> QED
      BY <2>4, <3>1 DEF CallsSound
  <2> QED
    BY <1>1, <2>3, <2>6, <2>7
<1> QED
  BY <1>2, <1>3, <1>4

-----------------------------------------------------------------------------
(* The theorems *)

LEMMA EvalInvStep == EvalInv /\ [Next]_vars => EvalInv'
<1> SUFFICES ASSUME EvalInv, [Next]_vars PROVE EvalInv'
  OBVIOUS
<1>1. CASE UNCHANGED vars
  <2>1. HostOK' /\ EvalTypeOK' /\ Grows /\ \A w \in Workers : RecordedUpTo(w)'
    BY <1>1 DEF vars, hostVars, evalVars, EvalInv, HostOK, HostTypeOK, EvalTypeOK, Grows,
                RecordedUpTo, Mine, Holds
  <2> QED
    BY <1>1, <2>1, EvidenceStays DEF vars, evalVars
<1>2. CASE HostStep /\ UNCHANGED evalVars
  BY <1>2, HostKeepsEvalInv
<1>3. ASSUME NEW w \in Workers,
             \/ Lookup(w) \/ PrepareFails(w) \/ Prepare(w) \/ Event(w) \/ Close(w)
             \/ StreamStep(w) /\ UNCHANGED evalVars
      PROVE  EvalInv'
  BY <1>3, PreparationKeepsEvalInv, EventKeepsEvalInv, CloseKeepsEvalInv, StreamKeepsEvalInv
<1>4. CASE \/ \E j \in Jobs : CreateRun(j)
           \/ \E c \in Callers : \/ \E j \in Gated, g \in Gates : DecideGate(c, j, g)
                                \/ RecordGate(c)
  <2>1. UNCHANGED <<hostVars, results, metrics>>
    BY <1>4 DEF CreateRun, DecideGate, RecordGate
  <2> QED
    BY <1>4, <2>1, ClientsKeepEvalInv
<1> QED
  BY <1>1, <1>2, <1>3, <1>4 DEF Next

LEMMA SpecKeepsEvalInv == Spec => []EvalInv
BY EvalInvInit, EvalInvStep, PTL DEF Spec

\* A SUCCEEDED run has all its results and metrics: each of them was inserted, by this
\* attempt or an earlier one, while its worker held the lease it still holds.
THEOREM SucceededRunsAreComplete == Spec => []SucceededIsComplete
<1>1. EvalInv => SucceededIsComplete
  BY DEF EvalInv
<1> QED
  BY <1>1, SpecKeepsEvalInv, PTL

\* A recorded verdict says what the engine still makes of the run's metrics.
THEOREM VerdictsStand == Spec => []GateStands
<1>1. EvalInv => GateStands
  BY DEF EvalInv, GatesSound, GateStands, Sound
<1> QED
  BY <1>1, SpecKeepsEvalInv, PTL

\* No gate passes but on complete evidence: every rule of an "all" gate, one rule at least
\* of an "any" gate, holds of recorded numbers, and against a comparable baseline if it
\* asks for one.
THEOREM PassesAreEarned == Spec => []PassIsEarned
<1>1. PASS # None
  BY NoneIsNoValue DEF Verdicts
<1>2. EvalInv => PassIsEarned
  BY <1>1 DEF EvalInv, GatesSound, PassIsEarned, Sound
<1> QED
  BY <1>2, SpecKeepsEvalInv, PTL

\* A recorded FAIL says that recorded numbers break the gate.  What is missing or not
\* comparable, and a candidate's NaN, make an ERROR (quality_gate_engine.py); the FAIL
\* that the engine computes from a baseline's NaN never becomes a verdict.
THEOREM FailsAreRefuted == Spec => []FailIsRefuted
<1>1. FAIL # None
  BY NoneIsNoValue DEF Verdicts
<1>2. EvalInv => FailIsRefuted
  BY <1>1 DEF EvalInv, GatesSound, FailIsRefuted, Sound
<1> QED
  BY <1>2, SpecKeepsEvalInv, PTL

\* What the steps of the executors write, they write for jobs that run.
LEMMA StepKeepsEnded ==
    ASSUME EvalInv, [Next]_vars, NEW j \in Jobs, status[j] \in Terminal
    PROVE  /\ run[j] # Absent => run'[j] = run[j]
           /\ results'[j] = results[j]
           /\ metrics'[j] = metrics[j]
<1>1. \A w \in Workers : Holds(w) => j # exec[w].job
  BY HostSources DEF Holds
<1>2. ASSUME NEW w \in Workers, NEW to, mark_status(w, to) PROVE run'[j] = run[j]
  BY <1>1, <1>2 DEF mark_status, EvalInv, EvalTypeOK
<1>3. ASSUME NEW w \in Workers, Event(w)
      PROVE  run' = run /\ results'[j] = results[j] /\ metrics'[j] = metrics[j]
  BY <1>1, <1>3 DEF Event, HandleEvent, RecordResult, RecordMetric, EvalInv, EvalTypeOK
<1>4. ASSUME NEW i \in Jobs, CreateRun(i)
      PROVE  (run[j] # Absent => run'[j] = run[j]) /\ UNCHANGED <<results, metrics>>
  BY <1>4 DEF CreateRun, EvalInv, EvalTypeOK
<1>5. ASSUME NEW w \in Workers, PrepareFails(w) \/ Prepare(w) \/ Close(w)
      PROVE  run'[j] = run[j] /\ UNCHANGED <<results, metrics>>
  BY <1>2, <1>5 DEF PrepareFails, Prepare, Close
<1>6. \/ UNCHANGED <<run, results, metrics>>
      \/ \E i \in Jobs : CreateRun(i)
      \/ \E w \in Workers : Event(w) \/ PrepareFails(w) \/ Prepare(w) \/ Close(w)
  BY DEF Next, vars, evalVars, Lookup, DecideGate, RecordGate
<1> QED
  BY <1>3, <1>4, <1>5, <1>6

\* A stale evaluator, however late, changes nothing of a job that is over.
THEOREM EndedIsFrozen == Spec => EndedJobFreezesRun
<1>1. ASSUME EvalInv, [Next]_vars
      PROVE  [\A j \in Jobs : status[j] \in Terminal =>
                /\ run[j] # Absent => run'[j] = run[j]
                /\ results'[j] = results[j]
                /\ metrics'[j] = metrics[j]]_vars
  BY <1>1, StepKeepsEnded
<1> QED
  BY <1>1, SpecKeepsEvalInv, PTL DEF Spec, EndedJobFreezesRun
-----------------------------------------------------------------------------
(* The run mirrors the job where a worker makes the job SUCCEEDED *)

NotDisowned == {Absent, "QUEUED", "SUCCEEDED"}

\* What a worker that may still finalize a success knows of its run.
Mirrored(w) ==
    /\ exec[w].pc = "close" => exec[w].result \in {"transient", "permanent", None}
    /\ exec[w].pc = "finalize" /\ exec[w].result = "SUCCEEDED" /\ Mine(w) /\ Holds(w) =>
          run[exec[w].job] \in NotDisowned

MirrorInv == EvalInv /\ \A w \in Workers : Mirrored(w)

\* A worker whose state no step of its own changed: nobody else writes its run.
LEMMA OthersKeepMirrored ==
    ASSUME EvalInv, NEW w \in Workers, Mirrored(w), exec'[w] = exec[w],
           UNCHANGED <<status, attempt, owner>>,
           \/ run' = run
           \/ \E j \in Jobs : CreateRun(j)
           \/ \E x \in Workers \ {w} : \E to : mark_status(x, to)
    PROVE  Mirrored(w)'
<1>1. (Mine(w)' <=> Mine(w)) /\ (Holds(w)' <=> Holds(w))
  BY DEF Mine, Holds
<1>2. CASE run' = run
  BY <1>1, <1>2 DEF Mirrored
<1>3. ASSUME NEW j \in Jobs, CreateRun(j) PROVE Mirrored(w)'
  <2>1. \A i \in Jobs : run[i] \in NotDisowned => run'[i] \in NotDisowned
    BY <1>3 DEF CreateRun, NotDisowned, EvalInv, EvalTypeOK
  <2> QED
    BY <1>1, <2>1 DEF Mirrored, Mine
<1>4. ASSUME NEW x \in Workers \ {w}, NEW to, mark_status(x, to) PROVE Mirrored(w)'
  <2>1. Holds(w) => run'[exec[w].job] = run[exec[w].job]
    BY <1>4 DEF mark_status, Holds, EvalInv, EvalTypeOK
  <2> QED
    BY <1>1, <2>1 DEF Mirrored
<1> QED
  BY <1>2, <1>3, <1>4

\* What the executor of w itself does: it succeeds over its run, or without one.
LEMMA EvaluatorMirrors ==
    ASSUME EvalInv, NEW w \in Workers, Mirrored(w),
           \/ Lookup(w) \/ PrepareFails(w) \/ Prepare(w) \/ Event(w) \/ Close(w)
           \/ (StreamStep(w) /\ UNCHANGED evalVars)
    PROVE  Mirrored(w)'
<1>1. exec[w] \in ExecState /\ exec \in [Workers -> ExecState]
  BY DEF EvalInv, HostOK, HostTypeOK
<1>2. CASE Lookup(w)
  <2>1. CASE HasRun(exec[w].job)
    BY <1>1, <1>2, <2>1 DEF Lookup, GoOn, Mirrored, ExecState
  <2>2. CASE ~HasRun(exec[w].job)
    <3>1. run' = run /\ run[exec[w].job] = Absent
      BY <1>2, <2>2 DEF Lookup, HasRun, evalVars
    <3>2. exec'[w].pc = "finalize" /\ exec'[w].job = exec[w].job
      <4>1. PICK r : Outcome(w, r)
        BY <1>2, <2>2 DEF Lookup, Simulate
      <4> QED
        BY <1>1, <4>1 DEF Outcome, ExecState
    <3> QED
      BY <3>1, <3>2 DEF Mirrored, NotDisowned
  <2> QED
    BY <2>1, <2>2
<1>3. ASSUME NEW r \in {"transient", "permanent", "unknown"}, Outcome(w, r) PROVE Mirrored(w)'
  BY <1>1, <1>3 DEF Outcome, Mirrored, ExecState
<1>4. CASE PrepareFails(w)
  BY <1>3, <1>4 DEF PrepareFails
<1>5. CASE Prepare(w)
  <2>1. CASE GoOn(w, "stream")
    BY <1>1, <2>1 DEF GoOn, Mirrored, ExecState
  <2> QED
    BY <1>3, <1>5, <2>1 DEF Prepare
<1>6. CASE Event(w)
  BY <1>1, <1>6 DEF Event, NextEvent, Mirrored, ExecState
<1>7. CASE Close(w)
  <2>1. CASE ProducedFinal(w) /\ Holds(w)
    <3>1. /\ run' = [run EXCEPT ![exec[w].job] = "SUCCEEDED"]
          /\ run \in [Jobs -> RunStatus]
      BY <1>7, <2>1 DEF Close, mark_status, EvalInv, EvalTypeOK
    <3>2. exec'[w].job = exec[w].job /\ exec'[w].pc = "finalize"
      <4>1. Outcome(w, "SUCCEEDED")
        BY <1>7, <2>1 DEF Close
      <4> QED
        BY <1>1, <4>1 DEF Outcome, ExecState
    <3>3. exec[w].job \in Jobs => run'[exec[w].job] = "SUCCEEDED"
      BY <3>1
    <3> QED
      BY <3>2, <3>3 DEF Mirrored, Mine, NotDisowned
  <2>2. CASE ProducedFinal(w) /\ ~Holds(w)
    BY <1>3, <1>7, <2>2 DEF Close
  <2>3. CASE ~ProducedFinal(w)
    <3>1. \/ Outcome(w, "unknown")
          \/ exec[w].result \in {"transient", "permanent", "unknown"}
             /\ Outcome(w, exec[w].result)
      BY <1>1, <1>7, <2>3 DEF Close, Mirrored, ExecState, Results
    <3> QED
      BY <1>3, <3>1
  <2> QED
    BY <2>1, <2>2, <2>3
<1>8. CASE StreamStep(w)
  <2>1. CASE FencedOut(w)
    BY <1>1, <2>1 DEF FencedOut, ExecIdle, Mirrored
  <2>2. CASE StreamEnds(w)
    <3>1. exec'[w].pc = "close" /\ exec'[w].result \in {"transient", "permanent", None}
      BY <1>1, <2>2 DEF StreamEnds, ExecState
    <3> QED
      BY <3>1 DEF Mirrored
  <2> QED
    BY <1>8, <2>1, <2>2 DEF StreamStep
<1> QED
  BY <1>2, <1>4, <1>5, <1>6, <1>7, <1>8

LEMMA MirrorInvStep == MirrorInv /\ [Next]_vars => MirrorInv'
<1> SUFFICES ASSUME MirrorInv, [Next]_vars, NEW w \in Workers PROVE Mirrored(w)'
  BY EvalInvStep DEF MirrorInv
<1>1. EvalInv /\ Mirrored(w)
  BY DEF MirrorInv
<1>2. CASE HostStep /\ UNCHANGED evalVars
  <2>1. CASE exec'[w].pc \notin {"stream", "close", "finalize"}
    BY <2>1 DEF Mirrored
  <2>2. CASE exec'[w].pc \in {"stream", "close", "finalize"}
    BY <1>1, <1>2, <2>2, BusyKept DEF Mirrored, EvalInv, evalVars
  <2> QED
    BY <2>1, <2>2
<1>3. ASSUME NEW x \in Workers,
             \/ Lookup(x) \/ PrepareFails(x) \/ Prepare(x) \/ Event(x) \/ Close(x)
             \/ (StreamStep(x) /\ UNCHANGED evalVars)
      PROVE  Mirrored(w)'
  <2>1. CASE x = w
    BY <1>1, <1>3, <2>1, EvaluatorMirrors
  <2>2. CASE x # w
    <3>1. UNCHANGED <<status, attempt, owner>>
      BY <1>3 DEF Lookup, Simulate, PrepareFails, Prepare, Event, Close, StreamStep
    <3>2. exec'[w] = exec[w]
      BY <1>1, <1>3, <2>2 DEF EvalInv, HostOK, HostTypeOK, Lookup, Simulate, GoOn, Outcome,
           PrepareFails, Prepare, Event, NextEvent, Close, StreamStep, StreamEnds, FencedOut
    <3>3. run' = run \/ \E to : mark_status(x, to)
      BY <1>3 DEF Lookup, PrepareFails, Prepare, Event, Close, evalVars
    <3> QED
      BY <1>1, <2>2, <3>1, <3>2, <3>3, OthersKeepMirrored
  <2> QED
    BY <2>1, <2>2
<1>4. CASE \/ \E j \in Jobs : CreateRun(j)
           \/ \E c \in Callers : \/ \E j \in Gated, g \in Gates : DecideGate(c, j, g)
                                \/ RecordGate(c)
           \/ UNCHANGED vars
  <2>1. UNCHANGED hostVars /\ (run' = run \/ \E j \in Jobs : CreateRun(j))
    BY <1>4 DEF CreateRun, DecideGate, RecordGate, vars, evalVars
  <2> QED
    BY <1>1, <2>1, OthersKeepMirrored DEF hostVars
<1> QED
  BY <1>2, <1>3, <1>4 DEF Next

\* A worker makes a job SUCCEEDED only under a run that says so too, unless the run was
\* not there when the attempt looked for it: what another attempt left in the row
\* (FAILED, RUNNING) has been overwritten by then.
THEOREM SuccessMirrors == Spec => SuccessIsMirrored
<1>1. Init => MirrorInv
  <2>1. Init => \A w \in Workers : exec[w].pc = "idle"
    BY DEF Init, ExecIdle
  <2> QED
    BY <2>1, EvalInvInit DEF MirrorInv, Mirrored
<1>2. ASSUME MirrorInv, [Next]_vars, NEW j \in Jobs, FinalizedAsSuccess(j)
      PROVE  run[j] \in {Absent, "QUEUED", "SUCCEEDED"}
  <2>1. HostStep
    BY <1>2 DEF FinalizedAsSuccess, Next, vars, hostVars, CreateRun, Lookup, Simulate,
                PrepareFails, Prepare, Event, Close, StreamStep, DecideGate, RecordGate
  <2>2. JobStep(j) /\ ~\E w \in Workers : StartAttempt(w, j)
    BY <1>2, <2>1, HostJobs, StartFrame DEF MirrorInv, EvalInv, FinalizedAsSuccess
  <2>3. PICK w \in Workers : /\ exec[w].job = j /\ exec[w].pc = "finalize"
                             /\ exec[w].result = "SUCCEEDED" /\ Holds(w)
    BY <1>2, <2>2 DEF JobStep, FinalizedAsSuccess
  <2> QED
    BY <1>2, <2>3 DEF MirrorInv, Mirrored, Mine, Holds, NotDisowned
<1>3. MirrorInv /\ [Next]_vars =>
         [\A j \in Jobs : FinalizedAsSuccess(j) =>
             run[j] \in {Absent, "QUEUED", "SUCCEEDED"}]_vars
  BY <1>2
<1> QED
  BY <1>1, <1>3, MirrorInvStep, PTL DEF Spec, SuccessIsMirrored

-----------------------------------------------------------------------------
(* To the platform, an evaluation attempt is a simulated one *)

LEMMA EvaluatorStep ==
    ASSUME EvalInv, NEW w \in Workers,
           \/ Lookup(w) \/ PrepareFails(w) \/ Prepare(w) \/ Event(w) \/ Close(w)
           \/ (StreamStep(w) /\ UNCHANGED evalVars)
    PROVE  ExecutorStep(w)
<1> USE DEF EvalInv
<1>1. CASE Lookup(w)
  BY <1>1, SharedSteps DEF Lookup
<1>2. CASE PrepareFails(w) \/ Prepare(w)
  <2>1. ASSUME NEW r \in {"permanent", "transient"}, Outcome(w, r) PROVE ExecutorStep(w)
    BY <1>2, <2>1, AnyOutcome DEF PrepareFails, Prepare, Within, Results
  <2>2. ASSUME GoOn(w, "stream") PROVE ExecutorStep(w)
    BY <1>2, <2>2, SharedSteps DEF PrepareFails, Prepare
  <2> QED
    BY <1>2, <2>1, <2>2 DEF PrepareFails, Prepare
<1>3. CASE Event(w)
  BY <1>3, SharedSteps DEF Event
<1>4. CASE Close(w)
  <2>1. \E r \in Results : Outcome(w, r)
    BY <1>4 DEF Close, Results, HostOK, HostTypeOK, ExecState
  <2> QED
    BY <1>4, <2>1, AnyOutcome DEF Close, Within
<1>5. CASE StreamStep(w)
  BY <1>5, SharedSteps
<1> QED
  BY <1>1, <1>2, <1>3, <1>4, <1>5

\* An evaluator commits its run's status on its own and may return after its heartbeat was
\* rejected, and still every step is one of the host, with a simulated execution in its
\* place, or none: it moves its job only through claim and finalize_attempt.  (At the
\* start jobs may have had an attempt already, so HostInit is left out.)
THEOREM EvaluationStepsAsHost == Spec => [][Alone!HostNext]_(Alone!hostVars)
<1>1. EvalInv /\ [Next]_vars => [Alone!HostNext]_(Alone!hostVars)
  <2> SUFFICES ASSUME EvalInv, [Next]_vars PROVE AloneStepped
    BY DEF AloneStepped, Alone!hostVars
  <2>1. ASSUME UNCHANGED hostVars PROVE AloneStepped
    BY <2>1 DEF hostVars, AloneStepped, Seen
  <2>2. ASSUME NEW w \in Workers,
               \/ Lookup(w) \/ PrepareFails(w) \/ Prepare(w) \/ Event(w) \/ Close(w)
               \/ (StreamStep(w) /\ UNCHANGED evalVars)
        PROVE  AloneStepped
    BY <2>2, EvaluatorStep, AloneExecutor DEF EvalInv
  <2>3. CASE HostStep
    BY <2>3, AloneHost DEF EvalInv
  <2>4. \/ HostStep \/ UNCHANGED hostVars
        \/ \E w \in Workers :
              \/ Lookup(w) \/ PrepareFails(w) \/ Prepare(w) \/ Event(w) \/ Close(w)
              \/ (StreamStep(w) /\ UNCHANGED evalVars)
    BY DEF Next, vars, CreateRun, DecideGate, RecordGate
  <2> QED
    BY <2>1, <2>2, <2>3, <2>4
<1> QED
  BY <1>1, SpecKeepsEvalInv, PTL DEF Spec
=============================================================================
