------------------------------ MODULE StateMachine ------------------------------
(***************************************************************************)
(* The job state machine of app/statemachine.py: which status may follow   *)
(* which when a client asks for it (PATCH, cancel).                        *)
(***************************************************************************)

Status == {"PENDING", "QUEUED", "RUNNING", "SUCCEEDED", "FAILED", "CANCELLED"}

VALID_TRANSITIONS ==
    [PENDING   |-> {"QUEUED"},
     QUEUED    |-> {"RUNNING", "CANCELLED"},
     RUNNING   |-> {"SUCCEEDED", "FAILED", "CANCELLED"},
     SUCCEEDED |-> {},
     FAILED    |-> {},
     CANCELLED |-> {}]

\* The statuses a conditional UPDATE accepts when the target is `to`.
sources_for(to) == {s \in Status : to \in VALID_TRANSITIONS[s]}

Terminal == {s \in Status : VALID_TRANSITIONS[s] = {}}

\* A job that has not been created yet has no row; the model gives it this status.
Absent == "ABSENT"
=============================================================================
