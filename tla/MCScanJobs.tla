------------------------------ MODULE MCScanJobs ------------------------------
(***************************************************************************)
(* Instance of ScanJobs for TLC: a job that a request creates, one that    *)
(* the wizard creates, and two faults.                                     *)
(***************************************************************************)
EXTENDS ScanJobs

===============================================================================
