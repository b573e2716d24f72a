---------------------------- MODULE MCTokenBucket ----------------------------
(***************************************************************************)
(* Instances of TokenBucket for TLC: two callers, batches of one or two    *)
(* tokens, a limit of two, so that callers collide on the counter, push it *)
(* over the limit together, roll back, and cross the end of a window.      *)
(***************************************************************************)
EXTENDS TokenBucket

MCRequests == 1..2

===============================================================================
