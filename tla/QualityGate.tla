------------------------------ MODULE QualityGate ------------------------------
(***************************************************************************)
(* The quality-gate engine (app/evaluation/quality_gate_engine.py): a gate *)
(* is "all" or "any" over leaf rules, evaluated on persisted metrics.  A   *)
(* metric value is an integer or NaN, None when it was not persisted; a    *)
(* baseline is a metric map, or None.                                      *)
(***************************************************************************)
EXTENDS Integers

CONSTANTS
    None,           \* no value, no key, SQL NULL
    NaN

PASS == "PASS"
FAIL == "FAIL"
ERROR == "ERROR"
Verdicts == {PASS, FAIL, ERROR}
Operators == {">=", ">", "<=", "<", "=="}

\* Comparisons with NaN are false.  The 1e-9 tolerance of == is below the
\* resolution of integers.
compare(lhs, operator, rhs) ==
    /\ lhs # NaN
    /\ \/ operator = ">=" /\ lhs >= rhs
       \/ operator = ">" /\ lhs > rhs
       \/ operator = "<=" /\ lhs <= rhs
       \/ operator = "<" /\ lhs < rhs
       \/ operator = "==" /\ lhs = rhs

\* A leaf compares a metric, or its distance from the baseline's, with a threshold.
Leaf(Metric) ==
    [metric : Metric \cup {None}, operator : Operators \cup {None}, threshold : Int,
     against : {"value", "baseline_delta", None}]

minus(x, y) == IF y = NaN THEN NaN ELSE x - y

\* The leaf cannot be decided: malformed, no such operator, no evidence for it.
IsError(leaf, metrics, baseline) ==
    \/ leaf.metric = None
    \/ leaf.operator \notin Operators
    \/ leaf.against \notin {"value", "baseline_delta"}
    \/ metrics[leaf.metric] \in {None, NaN}
    \/ leaf.against = "baseline_delta" /\ baseline = None
    \/ leaf.against = "baseline_delta" /\ baseline # None /\ baseline[leaf.metric] = None

evaluate_leaf(leaf, metrics, baseline) ==
    LET lhs == IF leaf.against = "value" THEN metrics[leaf.metric]
               ELSE minus(metrics[leaf.metric], baseline[leaf.metric])
    IN
    IF IsError(leaf, metrics, baseline) THEN ERROR
    ELSE IF compare(lhs, leaf.operator, leaf.threshold) THEN PASS ELSE FAIL

\* Mutant of combine: an ERROR counts as if the rule were not there.
combine_SkipErrors(verdicts, logical) ==
    IF logical = "all" THEN (IF FAIL \in verdicts THEN FAIL ELSE PASS)
    ELSE IF PASS \in verdicts THEN PASS ELSE FAIL

\* Mutant of combine: a rule that failed settles the gate, whatever is undecided.
combine_FailFirst(verdicts, logical) ==
    IF logical = "any" /\ PASS \in verdicts THEN PASS
    ELSE IF FAIL \in verdicts THEN FAIL
    ELSE IF ERROR \in verdicts THEN ERROR ELSE PASS

combine(verdicts, logical) ==
    IF logical = "all"
    THEN IF ERROR \in verdicts THEN ERROR ELSE IF FAIL \in verdicts THEN FAIL ELSE PASS
    ELSE IF PASS \in verdicts THEN PASS ELSE IF ERROR \in verdicts THEN ERROR ELSE FAIL

\* A baseline that is NaN: the leaf is compared and its result quotes the NaN, which
\* no JSONB column accepts.
QuotesNaN(leaf, metrics, baseline) ==
    /\ leaf.against = "baseline_delta"
    /\ ~IsError(leaf, metrics, baseline)
    /\ baseline[leaf.metric] = NaN

\* rules has a "logical" key and a set of leaves; an empty list is an error.
evaluate(rules, metrics, baseline) ==
    IF rules.logical \notin {"all", "any"} \/ rules.leaves = {} THEN ERROR
    ELSE combine({evaluate_leaf(leaf, metrics, baseline) : leaf \in rules.leaves},
                 rules.logical)

\* What can be recorded of evaluate's outcome: the verdict, or None when one of its rule
\* results quotes a NaN.
recordable(rules, metrics, baseline) ==
    IF /\ rules.logical \in {"all", "any"}
       /\ \E leaf \in rules.leaves : QuotesNaN(leaf, metrics, baseline)
    THEN None
    ELSE evaluate(rules, metrics, baseline)
=============================================================================
