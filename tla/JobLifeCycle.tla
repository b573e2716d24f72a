----------------------------- MODULE JobLifeCycle -----------------------------
(***************************************************************************)
(* What a scan job is to the customer who watches its row: pending, then   *)
(* running, then completed or failed; started again after a failure, a     *)
(* bounded number of times; completed or deleted for good.                 *)
(*                                                                         *)
(* This is promised as long as the queue is orderly: no message is         *)
(* delivered twice and no reply to a commit is lost.  After that rows may  *)
(* take any status, but none appears from nothing or comes back.           *)
(***************************************************************************)
EXTENDS Integers

CONSTANTS Jobs,
          Starts   \* how often a job may be started

VARIABLES status,
          left,    \* starts a job has left
          orderly  \* the queue has been orderly so far

lifeVars == <<status, left, orderly>>

LifeInit ==
  /\ status = [j \in Jobs |-> "absent"]
  /\ left = [j \in Jobs |-> Starts]
  /\ orderly = TRUE

Show(j, s) == status' = [status EXCEPT ![j] = s]
Spend(j) == left[j] > 0 /\ left' = [left EXCEPT ![j] = @ - 1]

Create(j) == status[j] = "absent" /\ Show(j, "pending") /\ UNCHANGED left

\* Still running: the failure of the last execution could not be recorded.
Start(j) == status[j] \in {"pending", "running", "failed"} /\ Show(j, "running") /\ Spend(j)

\* An execution that comes to nothing, or for a row that is gone.
Spoil(j) == Spend(j) /\ UNCHANGED status

Finish(j) == status[j] = "running" /\ Show(j, "completed") /\ UNCHANGED left

\* Pending: "running" could not be written.
Fail(j) == status[j] \in {"pending", "running"} /\ Show(j, "failed") /\ UNCHANGED left

Remove(j) == status[j] \notin {"absent", "deleted"} /\ Show(j, "deleted") /\ UNCHANGED left

Orderly ==
  /\ orderly /\ UNCHANGED orderly
  /\ \E j \in Jobs : Create(j) \/ Start(j) \/ Spoil(j) \/ Finish(j) \/ Fail(j) \/ Remove(j)

Disorderly ==
  /\ orderly' = FALSE
  /\ left' \in [Jobs -> Int]
  /\ \A j \in Jobs : /\ status[j] = "absent" => status'[j] \in {"absent", "pending"}
                     /\ status[j] = "deleted" => status'[j] = "deleted"
                     /\ status'[j] = "absent" => status[j] = "absent"

LifeNext == Orderly \/ Disorderly

LifeSpec == LifeInit /\ [][LifeNext]_lifeVars

===============================================================================
