-------------------------------- MODULE MCJobs --------------------------------
(***************************************************************************)
(* Instances of the job table for TLC.                                     *)
(***************************************************************************)
EXTENDS EvaluationJobs

===============================================================================
