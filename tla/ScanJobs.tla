------------------------------- MODULE ScanJobs -------------------------------
(***************************************************************************)
(* Scan jobs: rows of scan_jobs that a request (routers/scan_jobs.py) or   *)
(* the brand wizard (routers/onboarding.py) creates, and the Celery task   *)
(* run_scan_job that moves them through their statuses (tasks/scan.py).    *)
(*                                                                         *)
(* A delivery is one message of the queue, from its publication to its     *)
(* acknowledgement, together with the execution it leads to.  Messages are *)
(* acknowledged when the task has returned (task_acks_late), go back to    *)
(* the queue when the worker is lost (task_reject_on_worker_lost), and the *)
(* Redis broker hands out again what was not acknowledged in time.         *)
(***************************************************************************)
EXTENDS Integers, FiniteSets

CONSTANTS Jobs,        \* rows that may be created
          WizardJobs,  \* those created by the wizard
          ProbeJobs,   \* those of a type that probes: full, llm_probe, llm_probe_weekly
          NDeliveries, \* bound on the messages that exist at a time
          MaxRetries,  \* max_retries
          MaxFaults    \* bound on faults

ASSUME ScanAssumption ==
  /\ Jobs # {} /\ WizardJobs \subseteq Jobs /\ ProbeJobs \subseteq Jobs
  /\ NDeliveries \in Nat /\ MaxRetries \in Nat /\ MaxFaults \in Nat

VARIABLES
  worker,    \* what the deployment runs: see Workers
  infoOn,    \* the worker's root logger is enabled for INFO
  status,    \* column status of each row
  request,   \* how far the request that creates each job is
  pc,        \* where each delivery is
  job,       \* the job it is for
  retries,   \* self.request.retries
  attempts,  \* history: executions started for each job
  faults     \* history: the faults so far

vars == <<worker, infoOn, status, request, pc, job, retries, attempts, faults>>
deployment == <<worker, infoOn>>
message == <<job, retries>>

\* scan.py is in no "include" of celery_app.py, so a worker started without naming it
\* does not know the task; and it may lack DATABASE_URL_SYNC.
Workers == {"unregistered", "no_db", "ready"}
Statuses == {"absent", "pending", "running", "completed", "failed", "deleted"}
Kinds == {"enqueue", "connect", "begin", "complete", "reply", "record", "publish",
          "lost", "redelivered"}

Deliveries == 1..NDeliveries
NoJob == CHOOSE j \in Jobs : TRUE   \* what a delivery without a message holds

\* A delivery that has not come to its acknowledgement; the one the next message gets.
Active(d) == pc[d] \notin {"none", "ack"}
Free(d) == pc[d] = "none"
NextFree(d) == Free(d) /\ \A e \in 1..(d - 1) : ~Free(e)

\* A fault of kind k occurs, each kind at most once.
Fault(k) ==
  /\ Cardinality(faults) < MaxFaults /\ k \notin faults
  /\ faults' = faults \cup {k}

Outcome(ok, k) == IF ok THEN UNCHANGED faults ELSE Fault(k)

\* Faulty: the row is merged into the table, so one that was deleted comes back.
Merged(j, s) == status' = [status EXCEPT ![j] = s]

\* UPDATE scan_jobs SET status WHERE id: no row, no effect and no error.
SetStatus(j, s) ==
  status' = IF status[j] \in {"absent", "deleted"} THEN status
            ELSE [status EXCEPT ![j] = s]

\* A message for job j is published under the free delivery d.
Publish(d, j, n) ==
  /\ job' = [job EXCEPT ![d] = j]
  /\ retries' = [retries EXCEPT ![d] = n]

\* Executions are counted up to one more than there may be.
Count(j) ==
  attempts' = [attempts EXCEPT ![j] = IF @ > MaxRetries + 1 THEN @ ELSE @ + 1]

\* The message of d leaves the queue for good.
Drop(d) == Publish(d, NoJob, 0) /\ pc' = [pc EXCEPT ![d] = "none"]

Goto(d, l) == pc' = [pc EXCEPT ![d] = l]

-------------------------------------------------------------------------------
(* The API *)

Init ==
  /\ worker \in Workers /\ infoOn \in BOOLEAN
  /\ status = [j \in Jobs |-> "absent"]
  /\ request = [j \in Jobs |-> "none"]
  /\ pc = [d \in Deliveries |-> "none"]
  /\ job = [d \in Deliveries |-> NoJob]
  /\ retries = [d \in Deliveries |-> 0]
  /\ attempts = [j \in Jobs |-> 0]
  /\ faults = {}

\* POST /scan-jobs: the row is committed before anything is enqueued.
Trigger(j) ==
  /\ j \notin WizardJobs /\ status[j] = "absent"
  /\ status' = [status EXCEPT ![j] = "pending"]
  /\ request' = [request EXCEPT ![j] = "enqueue"]
  /\ UNCHANGED <<deployment, pc, message, attempts, faults>>

\* run_scan_job.delay: best effort.  A request that dies here, or whose refresh fails,
\* is a failed enqueue as well.
Enqueue(j, ok) ==
  /\ request[j] = "enqueue"
  /\ request' = [request EXCEPT ![j] = "answered"]
  /\ Outcome(ok, "enqueue")
  /\ IF ok THEN \E d \in Deliveries :
                  NextFree(d) /\ Publish(d, j, 0) /\ Goto(d, "queued")
           ELSE UNCHANGED <<pc, message>>
  /\ UNCHANGED <<deployment, status, attempts>>

\* The wizard creates the row with the brand, in one transaction, and enqueues nothing.
Wizard(j) ==
  /\ j \in WizardJobs /\ status[j] = "absent"
  /\ status' = [status EXCEPT ![j] = "pending"]
  /\ request' = [request EXCEPT ![j] = "answered"]
  /\ UNCHANGED <<deployment, pc, message, attempts, faults>>

\* An administrator clears the database, or the row goes with its brand when the demo is
\* seeded again.
Delete(j) ==
  /\ status[j] \notin {"absent", "deleted"}
  /\ status' = [status EXCEPT ![j] = "deleted"]
  /\ UNCHANGED <<deployment, request, pc, message, attempts, faults>>

-------------------------------------------------------------------------------
(* The task *)

\* An unknown task is logged and its message dropped.
Discard(d) ==
  /\ worker = "unregistered" /\ pc[d] = "queued"
  /\ Drop(d)
  /\ UNCHANGED <<deployment, status, request, attempts, faults>>

\* Execution starts.  Without a database URL it returns at once; connect is outside the
\* try, so its failure ends the task without a retry.
Take(d, ok) ==
  /\ worker # "unregistered" /\ pc[d] = "queued"
  /\ ~ok => worker = "ready"
  /\ Outcome(ok, "connect")
  /\ Goto(d, IF ok /\ worker = "ready" THEN "begin" ELSE "ack")
  /\ Count(job[d])
  /\ UNCHANGED <<deployment, status, request, message>>

\* status='running'; then the work, whose only effect is a log call with keyword
\* arguments, which the standard library's logger refuses if INFO is enabled.
Begin(d, ok) ==
  /\ pc[d] = "begin"
  /\ Outcome(ok, "begin")
  /\ IF ok THEN SetStatus(job[d], "running") ELSE UNCHANGED status
  /\ Goto(d, IF ok /\ ~(infoOn /\ job[d] \in ProbeJobs) THEN "complete" ELSE "record")
  /\ UNCHANGED <<deployment, request, message, attempts>>

\* Faulty: the closing log call raises too, and the handler takes it for a failed job.
LoggedBadly(d, ok) ==
  /\ Outcome(ok, "complete")
  /\ IF ok THEN SetStatus(job[d], "completed") ELSE UNCHANGED status
  /\ Goto(d, "record")

\* status='completed', committed or rolled back.
Completed(d, ok) ==
  /\ Outcome(ok, "complete")
  /\ IF ok THEN SetStatus(job[d], "completed") ELSE UNCHANGED status
  /\ Goto(d, IF ok THEN "ack" ELSE "record")

\* The commit takes effect and the connection breaks before the reply: the task takes it
\* for a failure, which it cannot record.
ReplyLost(d) ==
  /\ Fault("reply")
  /\ SetStatus(job[d], "completed")
  /\ Goto(d, "retry")

Complete(d) ==
  /\ pc[d] = "complete"
  /\ ReplyLost(d) \/ \E ok \in BOOLEAN : Completed(d, ok)
  /\ UNCHANGED <<deployment, request, message, attempts>>

\* status='failed'; a failure of this statement is ignored.
Record(d, ok) ==
  /\ pc[d] = "record"
  /\ Outcome(ok, "record")
  /\ IF ok THEN SetStatus(job[d], "failed") ELSE UNCHANGED status
  /\ Goto(d, "retry")
  /\ UNCHANGED <<deployment, request, message, attempts>>

\* Faulty: one retry more than max_retries.
MayAsWell(d) == retries[d] <= MaxRetries

MayRetry(d) == retries[d] < MaxRetries

\* Faulty: the new message does not count the retry.
SameAgain(d) == retries[d]

NextTry(d) == retries[d] + 1

\* self.retry: a new message, then this one is done; without a new message if the retries
\* are used up, or if it cannot be published.
Retry(d) ==
  /\ pc[d] = "retry"
  /\ \/ /\ MayRetry(d)
        /\ \E e \in Deliveries :
             /\ NextFree(e) /\ Publish(e, job[d], NextTry(d))
             /\ pc' = [pc EXCEPT ![d] = "ack", ![e] = "queued"]
        /\ UNCHANGED faults
     \/ /\ MayRetry(d) /\ Fault("publish")
        /\ Goto(d, "ack") /\ UNCHANGED message
     \/ /\ ~MayRetry(d)
        /\ Goto(d, "ack") /\ UNCHANGED <<message, faults>>
  /\ UNCHANGED <<deployment, status, request, attempts>>

Ack(d) ==
  /\ pc[d] = "ack"
  /\ Drop(d)
  /\ UNCHANGED <<deployment, status, request, attempts, faults>>

\* Faulty: messages are acknowledged when the worker takes them.
Gone(d) == Drop(d)

Requeue(d) == Goto(d, "queued") /\ UNCHANGED message

\* The worker process dies.
Lost(d) ==
  /\ pc[d] \notin {"none", "queued"}
  /\ Fault("lost")
  /\ Requeue(d)
  /\ UNCHANGED <<deployment, status, request, attempts>>

\* The visibility timeout passes on a message that a worker has, or holds in reserve
\* behind a long task or until its countdown: another worker gets it too.
Redeliver(d) ==
  /\ pc[d] # "none"
  /\ Fault("redelivered")
  /\ \E e \in Deliveries :
       NextFree(e) /\ Publish(e, job[d], retries[d]) /\ Goto(e, "queued")
  /\ UNCHANGED <<deployment, status, request, attempts>>

-------------------------------------------------------------------------------

Execute(d) ==
  \/ Discard(d)
  \/ \E ok \in BOOLEAN : Take(d, ok) \/ Begin(d, ok) \/ Record(d, ok)
  \/ Complete(d) \/ Retry(d) \/ Ack(d)

Next ==
  \/ \E j \in Jobs : Trigger(j) \/ Wizard(j) \/ Delete(j)
  \/ \E j \in Jobs, ok \in BOOLEAN : Enqueue(j, ok)
  \/ \E d \in Deliveries : Execute(d) \/ Lost(d) \/ Redeliver(d)

Spec == Init /\ [][Next]_vars

\* Requests finish, and workers keep taking messages and running what they have taken.
FairSpec ==
  /\ Spec
  /\ \A j \in Jobs : WF_vars(\E ok \in BOOLEAN : Enqueue(j, ok))
  /\ \A d \in Deliveries : WF_vars(Execute(d))

-------------------------------------------------------------------------------
(* Properties *)

\* Every variable has its type.
TypeOK ==
  /\ worker \in Workers /\ infoOn \in BOOLEAN
  /\ status \in [Jobs -> Statuses]
  /\ request \in [Jobs -> {"none", "enqueue", "answered"}]
  /\ pc \in [Deliveries -> {"none", "queued", "begin", "complete", "record", "retry",
                            "ack"}]
  /\ job \in [Deliveries -> Jobs] /\ retries \in [Deliveries -> 0..MaxRetries]
  /\ attempts \in [Jobs -> 0..(MaxRetries + 2)]
  /\ faults \subseteq Kinds

DeliveredOnce == faults \cap {"lost", "redelivered"} = {}

\* An execution that has been counted and has not written "running" yet has its start
\* before it.
Opening(j) == \E d \in Deliveries : job[d] = j /\ pc[d] = "begin"
StartsLeft(j) == MaxRetries + 1 - attempts[j] + (IF Opening(j) THEN 1 ELSE 0)

LifeCycle == INSTANCE JobLifeCycle
  WITH Starts <- MaxRetries + 1, left <- [j \in Jobs |-> StartsLeft(j)],
       orderly <- DeliveredOnce /\ "reply" \notin faults

\* What the rows of scan_jobs show is the life of a job: whatever statement of the task
\* fails and whoever deletes the row under it, statuses come in their order, each start is
\* one of max_retries + 1, and nothing comes back that was completed or deleted.
ImplementsLifeCycle == LifeCycle!LifeSpec

\* As long as no message is delivered twice and no reply to a commit is lost, a completed
\* job is left alone until it is deleted: no failure is written over the result, no
\* execution of an earlier message starts it again.
CompletedIsFinal ==
  [][\A j \in Jobs :
       status[j] = "completed" /\ DeliveredOnce /\ "reply" \notin faults
         => status'[j] \in {"completed", "deleted"}]_vars

\* As long as no message is delivered twice, a job is executed at most once and
\* max_retries times more, through any mixture of failures in the task.
AttemptsBounded == DeliveredOnce => \A j \in Jobs : attempts[j] <= MaxRetries + 1

\* Nothing but a failed connect or a failed "failed" statement leaves a row at "running"
\* with no message to move it on: not the loss of the worker, not a message that is
\* delivered twice, not a retry that cannot be published.
NotForgotten ==
  faults \cap {"connect", "record"} = {} =>
    \A j \in Jobs :
      status[j] = "running" => \E d \in Deliveries : Active(d) /\ job[d] = j

Settled(j) ==
  /\ status[j] \in {"completed", "failed", "deleted"}
  /\ \A d \in Deliveries : job[d] = j => Free(d)

\* A job that a ready worker is offered ends: with a final status and no message left,
\* unless its enqueue, a connect or the recording of a failure has failed.
JobSettles ==
  \A j \in Jobs \ WizardJobs :
    worker = "ready" /\ request[j] = "answered"
      ~> Settled(j) \/ faults \cap {"enqueue", "connect", "record"} # {}
===============================================================================
