------------------------------ MODULE MCArtifacts ------------------------------
(***************************************************************************)
(* Two API requests, which share the uploader id "api", and one upload by  *)
(* a worker.                                                               *)
(***************************************************************************)
EXTENDS Artifacts

CONSTANTS p1, p2, p3

SharedId == [p \in Requests |-> IF p = p3 THEN "w1" ELSE "api"]
=============================================================================
