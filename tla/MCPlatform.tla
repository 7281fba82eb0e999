------------------------------- MODULE MCPlatform -------------------------------
(***************************************************************************)
(* Values for the constants of Platform: two resource dimensions, a small  *)
(* request and one that also wants the only GPU.                           *)
(***************************************************************************)
EXTENDS Platform, TLC

TwoDims == {"cpu", "gpu"}
OneCpu == [cpu |-> 1, gpu |-> 0]
CpuAndGpu == [cpu |-> 1, gpu |-> 1]
CpuRequests == {OneCpu}
MixedRequests == {OneCpu, CpuAndGpu}
OneSlot == [cpu |-> 1, gpu |-> 1]
OneGpu == [cpu |-> 2, gpu |-> 1]
WorkerSymmetry == Permutations(Workers)
=============================================================================
