----------------------------- MODULE MCAlertRules -----------------------------
(***************************************************************************)
(* Instances of AlertRules for TLC: a request and the weekly task, a rule  *)
(* of each type, a score that is below both thresholds or above.           *)
(***************************************************************************)
EXTENDS AlertRules

===============================================================================
