------------------------------- MODULE MCTraining -------------------------------
(***************************************************************************)
(* One run of three steps with a checkpoint after the second, three        *)
(* attempts and two workers: an attempt resumes what an earlier one, or an *)
(* earlier one that had started again from scratch, left behind.           *)
(***************************************************************************)
EXTENDS Training, TLC

WorkerSymmetry == Permutations(Workers)
=============================================================================
