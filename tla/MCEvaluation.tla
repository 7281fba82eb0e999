------------------------------ MODULE MCEvaluation ------------------------------
(***************************************************************************)
(* A candidate and two runs of its baseline, one on the candidate's        *)
(* dataset, one on another.  Either the candidate is new and the others    *)
(* are over, evaluated or failed; or the candidate was evaluated and the   *)
(* comparable baseline is about to be evaluated again.  One metric         *)
(* measures differently from attempt to attempt, one is never reported;    *)
(* two clients apply two gates.                                            *)
(***************************************************************************)
EXTENDS Evaluation, TLC

CONSTANTS j1, j2, j3

OneMetric == <<"latency">>
Latencies == [latency |-> {1, 2, NaN}]
BothGates == {"usable", "no_slower"}
Leaf1(m, op, k, kind) ==
    [metric |-> m, operator |-> op, threshold |-> k, against |-> kind]
GateRules ==
    [usable    |-> [logical |-> "any", leaves |-> {Leaf1("latency", "<", 2, "value"),
                                                   Leaf1("accuracy", ">=", 1, "value")}],
     no_slower |-> [logical |-> "all", leaves |-> {Leaf1("latency", "<=", 0, "baseline_delta"),
                                                   Leaf1("latency", "<", 3, "value")}]]
Versions ==
    [j \in Jobs |-> [model |-> IF j = j2 THEN "candidate" ELSE "base",
                    dataset |-> IF j = j3 THEN "other" ELSE "same",
                    config |-> IF j = j2 THEN "eval_v2" ELSE "eval_v1",
                    baseline |-> IF j = j2 THEN "base" ELSE None]]
SameTask == [c \in {"eval_v1", "eval_v2"} |->
                [task_type |-> "toy", metric_definitions |-> {"latency"}]]
NoneRan == {[j \in Jobs |-> Absent]}
SomeRan ==
    {start \in [Jobs -> {Absent, "SUCCEEDED", "FAILED", "QUEUED"}] :
        /\ start[j3] \in {"SUCCEEDED", "FAILED"}
        /\ \/ start[j2] = Absent /\ start[j1] \in {"SUCCEEDED", "FAILED"}
           \/ start[j2] = "SUCCEEDED" /\ start[j1] = "QUEUED"}
Symmetries == Permutations(Workers) \cup Permutations(Callers)
=============================================================================
