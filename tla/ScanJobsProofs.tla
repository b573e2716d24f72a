---------------------------- MODULE ScanJobsProofs ----------------------------
(***************************************************************************)
(* Scan jobs for any number of jobs, messages and faults: completed jobs   *)
(* are left alone, attempts are bounded, no running job is forgotten.      *)
(***************************************************************************)
EXTENDS ScanJobs, TLAPS

-------------------------------------------------------------------------------
(* The inductive invariant *)

\* A worker that is not ready never touches a row.
NotReady ==
  worker # "ready" =>
    /\ \A d \in Deliveries : pc[d] \in {"none", "queued", "ack"}
    /\ \A j \in Jobs : status[j] \in {"absent", "pending", "deleted"}

\* A request begins with the row; until it is answered the job has neither messages nor
\* history.
Requests ==
  \A j \in Jobs :
    /\ status[j] = "absent" => request[j] = "none"
    /\ request[j] # "answered" =>
         /\ status[j] \in {"absent", "pending", "deleted"} /\ attempts[j] = 0
         /\ \A d \in Deliveries : ~Free(d) => job[d] # j

\* A job has one message at a time to run.
OneMessage ==
  DeliveredOnce =>
    \A d, e \in Deliveries : Active(d) /\ Active(e) /\ job[d] = job[e] => d = e

\* A message carries the number of executions before its own.
RetriesCount ==
  DeliveredOnce =>
    \A d \in Deliveries :
      Active(d) =>
        attempts[job[d]] <= IF pc[d] = "queued" THEN retries[d] ELSE retries[d] + 1

\* A job with a message to run is not completed.
NotYetCompleted ==
  DeliveredOnce /\ "reply" \notin faults =>
    \A d \in Deliveries : Active(d) => status[job[d]] # "completed"

\* A running job has a message that will be, or is being, executed and has not failed to
\* record its outcome.
RunningIsHeld ==
  faults \cap {"connect", "record"} = {} =>
    \A j \in Jobs :
      status[j] = "running" =>
        \E d \in Deliveries :
          job[d] = j /\ pc[d] \in {"queued", "begin", "complete", "record"}

IInv ==
  /\ TypeOK /\ NotReady /\ Requests /\ OneMessage /\ RetriesCount /\ AttemptsBounded
  /\ NotYetCompleted /\ RunningIsHeld

USE ScanAssumption DEF ScanAssumption

-------------------------------------------------------------------------------
(* Parts of steps *)

LEMMA NoJobIsAJob == NoJob \in Jobs
BY DEF NoJob

\* Faults are not forgotten.
LEMMA OutcomeType ==
  ASSUME TypeOK, NEW ok \in BOOLEAN, NEW k \in Kinds, Outcome(ok, k)
  PROVE  faults \subseteq faults' /\ faults' \subseteq Kinds /\ (~ok => k \in faults')
BY DEF Outcome, Fault, TypeOK

LEMMA FaultType ==
  ASSUME TypeOK, NEW k \in Kinds, Fault(k)
  PROVE  faults \subseteq faults' /\ faults' \subseteq Kinds /\ k \in faults'
BY DEF Fault, TypeOK

\* An UPDATE leaves rows that are not there alone, and touches no other.
LEMMA SetStatusType ==
  ASSUME TypeOK, NEW j \in Jobs, NEW s \in Statuses, SetStatus(j, s)
  PROVE  /\ status' \in [Jobs -> Statuses]
         /\ \A i \in Jobs \ {j} : status'[i] = status[i]
         /\ IF status[j] \in {"absent", "deleted"} THEN status'[j] = status[j]
            ELSE status'[j] = s
BY DEF SetStatus, TypeOK

-------------------------------------------------------------------------------
(* The invariant holds initially *)

LEMMA InitIInv == Init => IInv
<1> SUFFICES ASSUME Init PROVE IInv
  OBVIOUS
<1>1. TypeOK
  BY NoJobIsAJob DEF Init, TypeOK, Statuses, Kinds
<1> QED BY <1>1 DEF Init, IInv, NotReady, Requests, OneMessage, RetriesCount,
      AttemptsBounded, NotYetCompleted, RunningIsHeld, Active, Free

-------------------------------------------------------------------------------
(* Steps of the API *)

LEMMA ApiStep ==
  ASSUME IInv, NEW j \in Jobs, Trigger(j) \/ Wizard(j) \/ Delete(j)
  PROVE  IInv'
<1>1. /\ status' \in [Jobs -> Statuses] /\ request' \in [Jobs -> {"none", "enqueue", "answered"}]
      /\ UNCHANGED <<worker, infoOn, pc, job, retries, attempts, faults>>
      /\ \A i \in Jobs : /\ status'[i] = status[i] \/ status'[i] \in {"pending", "deleted"}
                         /\ request[i] = "answered" => request'[i] = "answered"
                         /\ status'[i] = "absent" => request'[i] = request[i]
  <2>1. TypeOK /\ Requests
    BY DEF IInv
  <2>3. CASE Trigger(j)
    BY <2>1, <2>3 DEF TypeOK, Requests, Statuses, Trigger, deployment, message
  <2>4. CASE Wizard(j)
    BY <2>1, <2>4 DEF TypeOK, Statuses, Wizard, deployment, message
  <2>5. CASE Delete(j)
    BY <2>1, <2>5 DEF TypeOK, Statuses, Delete, deployment, message
  <2> QED BY <2>3, <2>4, <2>5
<1>2. TypeOK' /\ NotReady'
  BY <1>1 DEF IInv, TypeOK, NotReady
<1>3. Requests'
  BY <1>1 DEF IInv, Requests, Free
<1>4. OneMessage' /\ RetriesCount' /\ AttemptsBounded' /\ NotYetCompleted'
  BY <1>1 DEF IInv, TypeOK, OneMessage, RetriesCount, AttemptsBounded, NotYetCompleted,
       DeliveredOnce, Active
<1>5. RunningIsHeld'
  BY <1>1 DEF IInv, RunningIsHeld
<1> QED BY <1>2, <1>3, <1>4, <1>5 DEF IInv

LEMMA EnqueueStep ==
  ASSUME IInv, NEW j \in Jobs, NEW ok \in BOOLEAN, Enqueue(j, ok)
  PROVE  IInv'
<1> USE DEF IInv
<1>1. /\ request[j] = "enqueue" /\ request' = [request EXCEPT ![j] = "answered"]
      /\ UNCHANGED <<worker, infoOn, status, attempts>>
  BY DEF Enqueue, deployment
<1>2. faults \subseteq faults' /\ faults' \subseteq Kinds
  BY OutcomeType DEF Enqueue, Kinds
<1>3. status[j] \in {"absent", "pending", "deleted"} /\ attempts[j] = 0
      /\ \A d \in Deliveries : ~Free(d) => job[d] # j
  BY <1>1 DEF Requests
<1>4. CASE ok
  <2>1. PICK d \in Deliveries :
          /\ Free(d) /\ job' = [job EXCEPT ![d] = j] /\ retries' = [retries EXCEPT ![d] = 0]
          /\ pc' = [pc EXCEPT ![d] = "queued"]
    BY <1>4 DEF Enqueue, Publish, Goto, NextFree
  <2>2. TypeOK' /\ NotReady'
    BY <1>1, <1>2, <2>1 DEF TypeOK, NotReady
  <2>3. Requests'
    BY <1>1, <2>1 DEF TypeOK, Requests, Free
  <2>4. OneMessage' /\ NotYetCompleted'
    BY <1>1, <1>2, <1>3, <2>1 DEF TypeOK, OneMessage, NotYetCompleted, DeliveredOnce,
         Active, Free
  <2>5. RetriesCount' /\ AttemptsBounded'
    BY <1>1, <1>2, <1>3, <2>1 DEF TypeOK, RetriesCount, AttemptsBounded, DeliveredOnce,
         Active, Free
  <2>6. RunningIsHeld'
    BY <1>1, <1>2, <2>1 DEF TypeOK, RunningIsHeld, Free
  <2> QED BY <2>2, <2>3, <2>4, <2>5, <2>6
<1>5. CASE ~ok
  <2>1. UNCHANGED <<pc, job, retries>>
    BY <1>5 DEF Enqueue, message
  <2>2. TypeOK' /\ NotReady' /\ Requests'
    BY <1>1, <1>2, <2>1 DEF TypeOK, NotReady, Requests, Free
  <2>3. OneMessage' /\ RetriesCount' /\ AttemptsBounded' /\ NotYetCompleted' /\ RunningIsHeld'
    BY <1>1, <1>2, <2>1 DEF OneMessage, RetriesCount, AttemptsBounded, NotYetCompleted,
         RunningIsHeld, DeliveredOnce, Active
  <2> QED BY <2>2, <2>3
<1> QED BY <1>4, <1>5

-------------------------------------------------------------------------------
(* Steps of a delivery *)

\* A message leaves the queue: unread, or acknowledged.
LEMMA DropStep ==
  ASSUME IInv, NEW d \in Deliveries, Discard(d) \/ Ack(d)
  PROVE  IInv'
<1> USE DEF IInv
<1>1. /\ UNCHANGED <<worker, infoOn, status, request, attempts, faults>>
      /\ job' = [job EXCEPT ![d] = NoJob] /\ retries' = [retries EXCEPT ![d] = 0]
      /\ pc' = [pc EXCEPT ![d] = "none"]
      /\ pc[d] = "ack" \/ worker = "unregistered"
  BY DEF Discard, Ack, Drop, Publish, deployment
<1>2. TypeOK' /\ NotReady'
  BY <1>1, NoJobIsAJob DEF TypeOK, NotReady
<1>3. Requests' /\ OneMessage' /\ NotYetCompleted'
  BY <1>1 DEF TypeOK, Requests, OneMessage, NotYetCompleted, DeliveredOnce, Active, Free
<1>4. RetriesCount' /\ AttemptsBounded'
  BY <1>1 DEF TypeOK, RetriesCount, AttemptsBounded, DeliveredOnce, Active
<1>5. RunningIsHeld'
  BY <1>1 DEF TypeOK, RunningIsHeld, NotReady
<1> QED BY <1>2, <1>3, <1>4, <1>5

\* A message goes from one pc to another with the row of its job at most: what is left to
\* show is said of the faults, the row and the pc.
LEMMA MoveStep ==
  ASSUME IInv, NEW d \in Deliveries, pc[d] \notin {"none", "queued", "ack"},
         NEW l \in {"complete", "record", "retry", "ack"},
         pc' = [pc EXCEPT ![d] = l],
         UNCHANGED <<worker, infoOn, request, job, retries, attempts>>,
         faults \subseteq faults', faults' \subseteq Kinds,
         status' \in [Jobs -> Statuses],
         \A i \in Jobs \ {job[d]} : status'[i] = status[i],
         status[job[d]] \in {"absent", "deleted"} => status'[job[d]] = status[job[d]],
         status'[job[d]] = "absent" => status[job[d]] = "absent",
         status'[job[d]] = "completed" =>
           \/ status[job[d]] = "completed" \/ l = "ack" \/ "reply" \in faults',
         status'[job[d]] = "running" =>
           \/ l \in {"complete", "record"} \/ faults' \cap {"connect", "record"} # {}
           \/ status[job[d]] = "running" /\ pc[d] = "retry"
  PROVE  IInv'
<1> USE DEF IInv
<1>1. worker = "ready"
  BY DEF NotReady, TypeOK
<1>2. TypeOK' /\ NotReady'
  BY <1>1 DEF TypeOK, NotReady
<1>3. request[job[d]] = "answered" /\ job[d] \in Jobs
  BY DEF Requests, Free, TypeOK
<1>4. Requests'
  BY <1>3 DEF TypeOK, Requests, Free
<1>5. OneMessage'
  BY DEF TypeOK, OneMessage, DeliveredOnce, Active
<1>6. RetriesCount' /\ AttemptsBounded'
  BY DEF TypeOK, RetriesCount, AttemptsBounded, DeliveredOnce, Active
<1>7. NotYetCompleted'
  <2> SUFFICES ASSUME DeliveredOnce', "reply" \notin faults', NEW e \in Deliveries, Active(e)'
               PROVE  status'[job[e]] # "completed"
    BY DEF NotYetCompleted
  <2>1. DeliveredOnce /\ "reply" \notin faults /\ Active(d) /\ Active(e)
    BY DEF DeliveredOnce, Active, TypeOK
  <2>2. status[job[e]] # "completed" /\ (job[e] = job[d] => e = d)
    BY <2>1 DEF NotYetCompleted, OneMessage
  <2>3. e = d => l # "ack"
    BY DEF Active, TypeOK
  <2> QED BY <2>2, <2>3 DEF TypeOK
<1>8. RunningIsHeld'
  <2> SUFFICES ASSUME faults' \cap {"connect", "record"} = {}, NEW j \in Jobs,
                      status'[j] = "running"
               PROVE  \E e \in Deliveries :
                        job[e] = j /\ pc'[e] \in {"queued", "begin", "complete", "record"}
    BY DEF RunningIsHeld
  <2>1. CASE job[d] = j /\ l \in {"complete", "record"}
    BY <2>1 DEF TypeOK
  <2>2. CASE job[d] # j \/ l \notin {"complete", "record"}
    <3>1. status[j] = "running" /\ (job[d] = j => pc[d] = "retry")
      BY <2>2
    <3>2. PICK e \in Deliveries :
            job[e] = j /\ pc[e] \in {"queued", "begin", "complete", "record"}
      BY <3>1 DEF RunningIsHeld
    <3>3. e # d
      BY <3>1, <3>2
    <3> QED BY <3>2, <3>3 DEF TypeOK
  <2> QED BY <2>1, <2>2
<1> QED BY <1>2, <1>4, <1>5, <1>6, <1>7, <1>8

LEMMA TakeStep ==
  ASSUME IInv, NEW d \in Deliveries, NEW ok \in BOOLEAN, Take(d, ok)
  PROVE  IInv'
<1> USE DEF IInv
<1>1. PICK l \in {"begin", "ack"} :
        /\ pc[d] = "queued" /\ pc' = [pc EXCEPT ![d] = l]
        /\ UNCHANGED <<worker, infoOn, status, request, job, retries>>
        /\ l = "begin" => worker = "ready"
        /\ l = "ack" => worker # "ready" \/ "connect" \in faults'
  BY OutcomeType DEF Take, Goto, deployment, message, Kinds
<1>2. faults \subseteq faults' /\ faults' \subseteq Kinds
  BY OutcomeType DEF Take, Kinds
<1>3. /\ attempts' \in [Jobs -> 0..(MaxRetries + 2)]
      /\ attempts'[job[d]] <= attempts[job[d]] + 1
      /\ \A j \in Jobs \ {job[d]} : attempts'[j] = attempts[j]
  BY DEF Take, Count, TypeOK
<1>4. TypeOK' /\ NotReady'
  BY <1>1, <1>2, <1>3 DEF TypeOK, NotReady
<1>5. request[job[d]] = "answered" /\ job[d] \in Jobs
  BY <1>1 DEF Requests, Free, TypeOK
<1>6. Requests'
  BY <1>1, <1>3, <1>5 DEF TypeOK, Requests, Free
<1>7. OneMessage' /\ NotYetCompleted'
  BY <1>1, <1>2 DEF TypeOK, OneMessage, NotYetCompleted, DeliveredOnce, Active
<1>8. RetriesCount' /\ AttemptsBounded'
  <2> SUFFICES ASSUME DeliveredOnce' PROVE RetriesCount' /\ AttemptsBounded'
    BY DEF RetriesCount, AttemptsBounded
  <2>1. DeliveredOnce
    BY <1>2 DEF DeliveredOnce
  <2>2. attempts'[job[d]] <= retries[d] + 1
    BY <1>1, <1>3, <1>5, <2>1 DEF RetriesCount, Active, TypeOK
  <2>3. \A e \in Deliveries : Active(e) /\ e # d => job[e] # job[d]
    BY <1>1, <2>1 DEF OneMessage, Active
  <2>4. RetriesCount'
    BY <1>1, <1>3, <2>1, <2>2, <2>3 DEF RetriesCount, Active, TypeOK
  <2>5. AttemptsBounded'
    BY <1>1, <1>3, <2>1, <2>2 DEF AttemptsBounded, TypeOK
  <2> QED BY <2>4, <2>5
<1>9. RunningIsHeld'
  BY <1>1, <1>2 DEF TypeOK, RunningIsHeld, NotReady
<1> QED BY <1>4, <1>6, <1>7, <1>8, <1>9

\* status='running', status='completed', status='failed'.
LEMMA UpdateStep ==
  ASSUME IInv, NEW d \in Deliveries,
         (\E ok \in BOOLEAN : Begin(d, ok) \/ Record(d, ok)) \/ Complete(d)
  PROVE  IInv'
<1> USE DEF IInv
<1>1. job[d] \in Jobs
  BY DEF TypeOK
<1>2. ASSUME NEW ok \in BOOLEAN, Begin(d, ok)
      PROVE  IInv'
  <2>1. PICK l \in {"complete", "record"} :
          /\ pc[d] = "begin" /\ pc' = [pc EXCEPT ![d] = l]
          /\ UNCHANGED <<worker, infoOn, request, job, retries, attempts>>
          /\ Outcome(ok, "begin")
          /\ SetStatus(job[d], "running") \/ UNCHANGED status
    BY <1>2 DEF Begin, Goto, deployment, message
  <2>2. faults \subseteq faults' /\ faults' \subseteq Kinds
    BY <2>1, OutcomeType DEF Kinds
  <2>3. CASE UNCHANGED status
    BY <2>1, <2>2, <2>3, MoveStep DEF TypeOK
  <2>4. CASE SetStatus(job[d], "running")
    BY <1>1, <2>1, <2>2, <2>4, SetStatusType, MoveStep DEF Statuses
  <2> QED BY <2>1, <2>3, <2>4
<1>3. ASSUME NEW ok \in BOOLEAN, Record(d, ok)
      PROVE  IInv'
  <2>1. /\ pc[d] = "record" /\ pc' = [pc EXCEPT ![d] = "retry"]
        /\ UNCHANGED <<worker, infoOn, request, job, retries, attempts>>
        /\ Outcome(ok, "record")
        /\ IF ok THEN SetStatus(job[d], "failed") ELSE UNCHANGED status
    BY <1>3 DEF Record, Goto, deployment, message
  <2>2. faults \subseteq faults' /\ faults' \subseteq Kinds /\ (~ok => "record" \in faults')
    BY <2>1, OutcomeType DEF Kinds
  <2>3. CASE ~ok
    BY <2>1, <2>2, <2>3, MoveStep DEF TypeOK
  <2>4. CASE ok
    BY <1>1, <2>1, <2>2, <2>4, SetStatusType, MoveStep DEF Statuses
  <2> QED BY <2>3, <2>4
<1>4. CASE Complete(d)
  <2>1. /\ pc[d] = "complete"
        /\ UNCHANGED <<worker, infoOn, request, job, retries, attempts>>
        /\ ReplyLost(d) \/ \E ok \in BOOLEAN : Completed(d, ok)
    BY <1>4 DEF Complete, deployment, message
  <2>2. CASE ReplyLost(d)
    <3>1. /\ pc' = [pc EXCEPT ![d] = "retry"] /\ SetStatus(job[d], "completed")
          /\ faults \subseteq faults' /\ faults' \subseteq Kinds /\ "reply" \in faults'
      BY <2>2, FaultType DEF ReplyLost, Goto, Kinds
    <3> QED BY <1>1, <2>1, <3>1, SetStatusType, MoveStep DEF Statuses
  <2>3. ASSUME NEW ok \in BOOLEAN, Completed(d, ok)
        PROVE  IInv'
    <3>1. faults \subseteq faults' /\ faults' \subseteq Kinds
      BY <2>3, OutcomeType DEF Completed, Kinds
    <3>2. CASE ok
      <4>1. pc' = [pc EXCEPT ![d] = "ack"] /\ SetStatus(job[d], "completed")
        BY <2>3, <3>2 DEF Completed, Goto
      <4> QED BY <1>1, <2>1, <3>1, <4>1, SetStatusType, MoveStep DEF Statuses
    <3>3. CASE ~ok
      <4>1. pc' = [pc EXCEPT ![d] = "record"] /\ UNCHANGED status
        BY <2>3, <3>3 DEF Completed, Goto
      <4> QED BY <2>1, <3>1, <4>1, MoveStep DEF TypeOK
    <3> QED BY <3>2, <3>3
  <2> QED BY <2>1, <2>2, <2>3
<1> QED BY <1>2, <1>3, <1>4

LEMMA RetryStep ==
  ASSUME IInv, NEW d \in Deliveries, Retry(d)
  PROVE  IInv'
<1> USE DEF IInv
<1>1. pc[d] = "retry" /\ UNCHANGED <<worker, infoOn, status, request, attempts>>
  BY DEF Retry, deployment
<1>2. CASE pc' = [pc EXCEPT ![d] = "ack"] /\ UNCHANGED <<job, retries>>
           /\ (Fault("publish") \/ UNCHANGED faults)
  <2>1. faults \subseteq faults' /\ faults' \subseteq Kinds
    BY <1>2, FaultType DEF Kinds, TypeOK
  <2> QED BY <1>1, <1>2, <2>1, MoveStep DEF TypeOK
<1>3. ASSUME NEW e \in Deliveries, Free(e), MayRetry(d), UNCHANGED faults,
             Publish(e, job[d], NextTry(d)),
             pc' = [pc EXCEPT ![d] = "ack", ![e] = "queued"]
      PROVE  IInv'
  <2>1. /\ e # d /\ pc[e] = "none" /\ pc'[e] = "queued" /\ pc'[d] = "ack"
        /\ job'[e] = job[d] /\ retries'[e] = retries[d] + 1
        /\ \A c \in Deliveries \ {e} : job'[c] = job[c] /\ retries'[c] = retries[c]
        /\ \A c \in Deliveries \ {d, e} : pc'[c] = pc[c]
    BY <1>1, <1>3 DEF Free, Publish, NextTry, TypeOK
  <2>2. TypeOK' /\ NotReady'
    <3>1. retries[d] + 1 \in 0..MaxRetries
      BY <1>3 DEF MayRetry, TypeOK
    <3>2. /\ job' \in [Deliveries -> Jobs] /\ retries' \in [Deliveries -> 0..MaxRetries]
      BY <1>3, <3>1 DEF Publish, NextTry, TypeOK
    <3>3. worker = "ready"
      BY <1>1 DEF NotReady, TypeOK
    <3> QED BY <1>1, <1>3, <3>2, <3>3 DEF TypeOK, NotReady
  <2>3. Requests'
    BY <1>1, <2>1 DEF Requests, Free, TypeOK
  <2>4. OneMessage' /\ NotYetCompleted'
    <3>1. Active(d) /\ UNCHANGED <<status, faults>>
      BY <1>1, <1>3 DEF Active
    <3>2. ASSUME NEW c \in Deliveries, Active(c)'
          PROVE  c = e \/ (c # d /\ c # e /\ Active(c) /\ job'[c] = job[c])
      BY <2>1, <3>2 DEF Active
    <3>3. OneMessage'
      BY <2>1, <3>1, <3>2 DEF OneMessage, DeliveredOnce
    <3>4. NotYetCompleted'
      BY <2>1, <3>1, <3>2 DEF NotYetCompleted, DeliveredOnce
    <3> QED BY <3>3, <3>4
  <2>5. RetriesCount' /\ AttemptsBounded'
    BY <1>1, <1>3, <2>1 DEF RetriesCount, AttemptsBounded, DeliveredOnce, Active
  <2>6. RunningIsHeld'
    <3>1. \A c \in Deliveries :
            pc[c] \in {"queued", "begin", "complete", "record"}
              => pc'[c] = pc[c] /\ job'[c] = job[c]
      BY <1>1, <2>1
    <3>2. ASSUME faults' \cap {"connect", "record"} = {}, NEW j \in Jobs,
                 status'[j] = "running"
          PROVE  \E c \in Deliveries :
                   job[c] = j /\ pc[c] \in {"queued", "begin", "complete", "record"}
      <4>1. faults' = faults /\ status' = status
        BY <1>1, <1>3
      <4> QED BY <3>2, <4>1 DEF RunningIsHeld
    <3>3. ASSUME faults' \cap {"connect", "record"} = {}, NEW j \in Jobs,
                 status'[j] = "running"
          PROVE  \E c \in Deliveries :
                   job'[c] = j /\ pc'[c] \in {"queued", "begin", "complete", "record"}
      BY <3>1, <3>2, <3>3
    <3> QED BY <3>3 DEF RunningIsHeld
  <2> QED BY <2>2, <2>3, <2>4, <2>5, <2>6
<1> QED BY <1>2, <1>3 DEF Retry, Goto, message, NextFree

\* The worker dies, and the message goes back.
LEMMA LostStep ==
  ASSUME IInv, NEW d \in Deliveries, Lost(d)
  PROVE  IInv'
<1> USE DEF IInv
<1>1. /\ pc[d] \notin {"none", "queued"} /\ pc' = [pc EXCEPT ![d] = "queued"]
      /\ UNCHANGED <<worker, infoOn, status, request, job, retries, attempts>>
  BY DEF Lost, Requeue, Goto, deployment, message
<1>2. faults \subseteq faults' /\ faults' \subseteq Kinds /\ "lost" \in faults'
  BY FaultType DEF Lost, Kinds
<1>3. TypeOK' /\ NotReady' /\ Requests'
  BY <1>1, <1>2 DEF TypeOK, NotReady, Requests, Free
<1>4. OneMessage' /\ RetriesCount' /\ AttemptsBounded' /\ NotYetCompleted'
  BY <1>2 DEF OneMessage, RetriesCount, AttemptsBounded, NotYetCompleted, DeliveredOnce
<1>5. RunningIsHeld'
  BY <1>1, <1>2 DEF TypeOK, RunningIsHeld
<1> QED BY <1>3, <1>4, <1>5

\* The broker hands out a second copy.
LEMMA RedeliverStep ==
  ASSUME IInv, NEW d \in Deliveries, Redeliver(d)
  PROVE  IInv'
<1> USE DEF IInv
<1>1. PICK e \in Deliveries :
        /\ pc[d] # "none" /\ pc[e] = "none" /\ pc' = [pc EXCEPT ![e] = "queued"]
        /\ job' = [job EXCEPT ![e] = job[d]] /\ retries' = [retries EXCEPT ![e] = retries[d]]
        /\ UNCHANGED <<worker, infoOn, status, request, attempts>>
  BY DEF Redeliver, Publish, Goto, NextFree, Free, deployment
<1>2. faults \subseteq faults' /\ faults' \subseteq Kinds /\ "redelivered" \in faults'
  BY FaultType DEF Redeliver, Kinds
<1>3. TypeOK' /\ NotReady'
  BY <1>1, <1>2 DEF TypeOK, NotReady
<1>4. Requests'
  BY <1>1 DEF TypeOK, Requests, Free
<1>5. OneMessage' /\ RetriesCount' /\ AttemptsBounded' /\ NotYetCompleted'
  BY <1>2 DEF OneMessage, RetriesCount, AttemptsBounded, NotYetCompleted, DeliveredOnce
<1>6. RunningIsHeld'
  BY <1>1, <1>2 DEF TypeOK, RunningIsHeld
<1> QED BY <1>3, <1>4, <1>5, <1>6

-------------------------------------------------------------------------------
(* The theorems *)

LEMMA StepIInv == IInv /\ [Next]_vars => IInv'
<1> SUFFICES ASSUME IInv, [Next]_vars PROVE IInv'
  OBVIOUS
<1>1. ASSUME NEW j \in Jobs, Trigger(j) \/ Wizard(j) \/ Delete(j)
      PROVE  IInv'
  BY <1>1, ApiStep
<1>2. ASSUME NEW j \in Jobs, NEW ok \in BOOLEAN, Enqueue(j, ok)
      PROVE  IInv'
  BY <1>2, EnqueueStep
<1>3. ASSUME NEW d \in Deliveries, Execute(d)
      PROVE  IInv'
  BY <1>3, DropStep, TakeStep, UpdateStep, RetryStep DEF Execute
<1>4. ASSUME NEW d \in Deliveries, Lost(d) \/ Redeliver(d)
      PROVE  IInv'
  BY <1>4, LostStep, RedeliverStep
<1>5. CASE UNCHANGED vars
  BY <1>5 DEF vars, IInv, TypeOK, NotReady, Requests, OneMessage, RetriesCount,
       AttemptsBounded, NotYetCompleted, RunningIsHeld, DeliveredOnce, Active, Free
<1> QED BY <1>1, <1>2, <1>3, <1>4, <1>5 DEF Next

LEMMA Invariance == Spec => []IInv
BY InitIInv, StepIInv, PTL DEF Spec

\* The rows, the messages and the history keep their types; in particular no message ever
\* has more than max_retries retries behind it.
THEOREM TypeCorrect == Spec => []TypeOK
<1>1. IInv => TypeOK
  BY DEF IInv
<1> QED BY <1>1, Invariance, PTL

\* scan.py:115 never leads to more than max_retries further executions of a job whose
\* messages are delivered once.
THEOREM AttemptsAreBounded == Spec => []AttemptsBounded
<1>1. IInv => AttemptsBounded
  BY DEF IInv
<1> QED BY <1>1, Invariance, PTL

\* A row at "running" has a message that will move it on, whatever workers are lost and
\* whatever is delivered twice.
THEOREM RunningIsNotForgotten == Spec => []NotForgotten
<1>1. IInv => NotForgotten
  BY DEF IInv, RunningIsHeld, NotForgotten, Active
<1> QED BY <1>1, Invariance, PTL

\* No step of scan.py touches a completed row while messages are delivered once and
\* commits are answered.
THEOREM CompletedLeftAlone == Spec => CompletedIsFinal
<1> DEFINE Leaves ==
      \A j \in Jobs :
        status[j] = "completed" /\ DeliveredOnce /\ "reply" \notin faults
          => status'[j] \in {"completed", "deleted"}
<1>1. IInv /\ [Next]_vars => [Leaves]_vars
  <2> SUFFICES ASSUME IInv, Next, DeliveredOnce, "reply" \notin faults,
                      NEW j \in Jobs, status[j] = "completed"
               PROVE  status'[j] \in {"completed", "deleted"}
    BY DEF vars
  <2> USE DEF IInv
  <2>1. \A d \in Deliveries : Active(d) => job[d] # j
    BY DEF NotYetCompleted
  <2>2. ASSUME NEW i \in Jobs, Trigger(i) \/ Wizard(i) \/ Delete(i)
        PROVE  status'[j] \in {"completed", "deleted"}
    BY <2>2 DEF Trigger, Wizard, Delete, TypeOK
  <2>3. ASSUME NEW d \in Deliveries, NEW s \in Statuses, Active(d), SetStatus(job[d], s)
        PROVE  status'[j] \in {"completed", "deleted"}
    BY <2>1, <2>3, SetStatusType DEF TypeOK
  <2>4. ASSUME NEW d \in Deliveries, Execute(d)
        PROVE  status'[j] \in {"completed", "deleted"}
    <3>1. UNCHANGED status \/ \E s \in Statuses : Active(d) /\ SetStatus(job[d], s)
      BY <2>4 DEF Execute, Discard, Take, Begin, Record, Complete, Completed, ReplyLost,
           Retry, Ack, Active, Statuses
    <3> QED BY <2>3, <3>1
  <2>5. ASSUME NEW d \in Deliveries, Lost(d) \/ Redeliver(d)
        PROVE  UNCHANGED status
    BY <2>5 DEF Lost, Redeliver
  <2>6. ASSUME NEW i \in Jobs, NEW ok \in BOOLEAN, Enqueue(i, ok)
        PROVE  UNCHANGED status
    BY <2>6 DEF Enqueue
  <2> QED BY <2>2, <2>4, <2>5, <2>6 DEF Next
<1> QED BY <1>1, Invariance, PTL DEF Spec, CompletedIsFinal

-------------------------------------------------------------------------------
(* The life of a job *)

\* While an execution works, the row says so, unless it has been deleted under it.
WorkShown ==
  DeliveredOnce =>
    \A d \in Deliveries :
      pc[d] = "complete" => status[job[d]] \in {"running", "deleted"}

LifeInv == IInv /\ WorkShown

\* What every step leaves of the rows.
LEMMA RowsStay ==
  ASSUME IInv, [Next]_vars, NEW j \in Jobs
  PROVE  /\ status'[j] \in Statuses /\ (status'[j] = "absent" => status[j] = "absent")
         /\ status[j] = "absent" => status'[j] \in {"absent", "pending"}
         /\ status[j] = "deleted" => status'[j] = "deleted"
<1> DEFINE Stays ==
      /\ status'[j] \in Statuses /\ (status'[j] = "absent" => status[j] = "absent")
      /\ status[j] = "absent" => status'[j] \in {"absent", "pending"}
      /\ status[j] = "deleted" => status'[j] = "deleted"
<1>0. TypeOK
  BY DEF IInv
<1>1. ASSUME UNCHANGED status PROVE Stays
  BY <1>0, <1>1 DEF TypeOK
<1>2. ASSUME NEW i \in Jobs, Trigger(i) \/ Wizard(i) \/ Delete(i)
      PROVE  Stays
  BY <1>0, <1>2 DEF TypeOK, Trigger, Wizard, Delete, Statuses
<1>3. ASSUME NEW d \in Deliveries, NEW s \in Statuses \ {"absent"}, SetStatus(job[d], s)
      PROVE  Stays
  <2>1. job[d] \in Jobs
    BY <1>0 DEF TypeOK
  <2> QED BY <1>0, <1>3, <2>1, SetStatusType DEF TypeOK
<1>4. ASSUME NEW d \in Deliveries, Execute(d)
      PROVE  Stays
  <2>1. UNCHANGED status \/ \E s \in Statuses \ {"absent"} : SetStatus(job[d], s)
    BY <1>4 DEF Execute, Discard, Take, Begin, Record, Complete, Completed, ReplyLost,
         Retry, Ack, Statuses
  <2> QED BY <1>1, <1>3, <2>1
<1>5. ASSUME NEW d \in Deliveries, Lost(d) \/ Redeliver(d)
      PROVE  UNCHANGED status
  BY <1>5 DEF Lost, Redeliver
<1>6. ASSUME NEW i \in Jobs, NEW ok \in BOOLEAN, Enqueue(i, ok)
      PROVE  UNCHANGED status
  BY <1>6 DEF Enqueue
<1> QED BY <1>1, <1>2, <1>4, <1>5, <1>6 DEF Next, vars

\* Faults are not forgotten, so a queue does not become orderly again.
LEMMA FaultsGrow ==
  ASSUME IInv, [Next]_vars
  PROVE  faults \subseteq faults'
<1>0. TypeOK
  BY DEF IInv
<1>1. ASSUME NEW d \in Deliveries, Execute(d)
      PROVE  faults \subseteq faults'
  BY <1>0, <1>1 DEF Execute, Discard, Take, Begin, Record, Complete, Completed, ReplyLost,
       Retry, Ack, Outcome, Fault
<1> QED BY <1>0, <1>1 DEF Next, vars, Trigger, Wizard, Delete, Enqueue, Lost, Redeliver,
      Outcome, Fault

\* The starts a job has left depend on its executions and on who is about to write
\* "running", and on nothing else.
LEMMA StartsStay ==
  ASSUME NEW j \in Jobs, attempts'[j] = attempts[j],
         \A e \in Deliveries :
           (job'[e] = j /\ pc'[e] = "begin") <=> (job[e] = j /\ pc[e] = "begin")
  PROVE  StartsLeft(j)' = StartsLeft(j)
<1>1. Opening(j)' <=> Opening(j)
  BY DEF Opening
<1> QED BY <1>1 DEF StartsLeft

\* In the order of the queue, the delivery at work is the only one of its job.
LEMMA OnlyOne ==
  ASSUME IInv, DeliveredOnce, NEW d \in Deliveries, Active(d)
  PROVE  \A e \in Deliveries : e # d /\ Active(e) => job[e] # job[d]
BY DEF IInv, OneMessage

\* What has a message has a row, or had one.
LEMMA DeliveredHasRow ==
  ASSUME IInv, NEW d \in Deliveries, ~Free(d)
  PROVE  job[d] \in Jobs /\ status[job[d]] # "absent"
BY DEF IInv, Requests, TypeOK, Free

LEMMA InitLifeInv == Init => LifeInv
BY InitIInv DEF Init, LifeInv, WorkShown

LEMMA StepLifeInv == LifeInv /\ [Next]_vars => LifeInv'
<1> SUFFICES ASSUME LifeInv, [Next]_vars, DeliveredOnce', NEW d \in Deliveries,
                    pc'[d] = "complete"
             PROVE  status'[job'[d]] \in {"running", "deleted"}
  BY StepIInv DEF LifeInv, WorkShown
<1> DEFINE Shown == status'[job'[d]] \in {"running", "deleted"}
<1>0. IInv /\ WorkShown /\ TypeOK /\ DeliveredOnce
  BY FaultsGrow DEF LifeInv, IInv, DeliveredOnce
<1>1. ASSUME pc[d] = "complete", job'[d] = job[d],
             \/ UNCHANGED status
             \/ \E i \in Jobs, s \in Statuses : i # job[d] /\ SetStatus(i, s)
      PROVE  Shown
  <2>1. job[d] \in Jobs /\ status[job[d]] \in {"running", "deleted"}
    BY <1>0, <1>1 DEF WorkShown, TypeOK
  <2> QED BY <1>0, <1>1, <2>1, SetStatusType
<1>2. ASSUME NEW i \in Jobs, Trigger(i) \/ Wizard(i) \/ Delete(i)
      PROVE  Shown
  <2>1. /\ pc[d] = "complete" /\ job'[d] = job[d]
        /\ status' = [status EXCEPT ![i] = status'[i]]
        /\ status[i] = "absent" \/ status'[i] = "deleted"
    BY <1>0, <1>2 DEF Trigger, Wizard, Delete, TypeOK, message
  <2>2. job[d] \in Jobs /\ status[job[d]] \in {"running", "deleted"}
    BY <1>0, <2>1 DEF WorkShown, TypeOK
  <2>3. status[job[d]] # "absent"
    BY <2>2
  <2> QED BY <1>0, <2>1, <2>2, <2>3 DEF TypeOK
<1>3. ASSUME NEW i \in Jobs, NEW ok \in BOOLEAN, Enqueue(i, ok)
      PROVE  Shown
  <2>1. pc[d] = "complete" /\ job'[d] = job[d] /\ UNCHANGED status
    BY <1>0, <1>3 DEF Enqueue, NextFree, Free, Publish, Goto, TypeOK, message
  <2> QED BY <1>1, <2>1
<1>4. ASSUME NEW e \in Deliveries, Discard(e) \/ Ack(e) \/ Retry(e)
             \/ \E ok \in BOOLEAN : Take(e, ok)
      PROVE  Shown
  <2>1. pc[d] = "complete" /\ job'[d] = job[d] /\ UNCHANGED status
    BY <1>0, <1>4 DEF Discard, Ack, Retry, Take, Drop, NextFree, Free, Publish, Goto, TypeOK,
         message
  <2> QED BY <1>1, <2>1
<1>5. ASSUME NEW e \in Deliveries, NEW ok \in BOOLEAN, Begin(e, ok)
      PROVE  Shown
  <2>1. /\ pc[e] = "begin" /\ UNCHANGED job
        /\ \E l \in {"complete", "record"} : pc' = [pc EXCEPT ![e] = l]
        /\ IF ok THEN SetStatus(job[e], "running") ELSE UNCHANGED status
        /\ ~ok => pc'[e] = "record"
    BY <1>0, <1>5 DEF Begin, Goto, message, TypeOK
  <2>2. CASE d = e
    <3>1. job[e] \in Jobs /\ status[job[e]] # "absent" /\ ok
      BY <1>0, <2>1, <2>2, DeliveredHasRow DEF Free
    <3>2. status'[job[e]] \in {"running", "deleted"}
      BY <1>0, <2>1, <3>1, SetStatusType DEF Statuses
    <3> QED BY <2>1, <2>2, <3>2
  <2>3. CASE d # e
    <3>1. pc[d] = "complete" /\ job'[d] = job[d]
      BY <1>0, <2>1, <2>3 DEF TypeOK
    <3>2. job[e] # job[d] /\ job[e] \in Jobs
      BY <1>0, <2>1, <2>3, <3>1, OnlyOne DEF Active, TypeOK
    <3> QED BY <1>1, <2>1, <3>1, <3>2 DEF Statuses
  <2> QED BY <2>2, <2>3
<1>6. ASSUME NEW e \in Deliveries, Complete(e) \/ \E ok \in BOOLEAN : Record(e, ok)
      PROVE  Shown
  <2>1. /\ pc[e] \in {"complete", "record"} /\ UNCHANGED job
        /\ \E l \in {"record", "retry", "ack"} : pc' = [pc EXCEPT ![e] = l]
        /\ UNCHANGED status \/ \E s \in Statuses : SetStatus(job[e], s)
    BY <1>6 DEF Complete, Completed, ReplyLost, Record, Goto, message, Statuses
  <2>2. d # e /\ pc[d] = "complete" /\ job'[d] = job[d]
    BY <1>0, <2>1 DEF TypeOK
  <2>3. job[e] # job[d] /\ job[e] \in Jobs
    BY <1>0, <2>1, <2>2, OnlyOne DEF Active, TypeOK
  <2> QED BY <1>1, <2>1, <2>2, <2>3
<1>7. ASSUME NEW e \in Deliveries, Lost(e) \/ Redeliver(e)
      PROVE  FALSE
  BY <1>7 DEF Lost, Redeliver, Fault, DeliveredOnce
<1>8. CASE UNCHANGED vars
  BY <1>1, <1>8 DEF vars
<1> QED BY <1>2, <1>3, <1>4, <1>5, <1>6, <1>7, <1>8 DEF Next, Execute

-------------------------------------------------------------------------------
(* Every step is one of the life of a job *)

\* What the life cycle sees is unchanged.
Unseen == UNCHANGED status /\ \A j \in Jobs : StartsLeft(j)' = StartsLeft(j)

\* Of job j alone it sees a change: of its row, or of the starts it has left.
Seen(j) ==
  /\ status' = [status EXCEPT ![j] = status'[j]]
  /\ \A i \in Jobs \ {j} : StartsLeft(i)' = StartsLeft(i)

\* A step of job j as the life cycle has them: from one status to another, at the price
\* of a start or for nothing.
Lives(j) ==
  /\ Seen(j)
  /\ \/ /\ StartsLeft(j)' = StartsLeft(j)
        /\ \/ status[j] = "absent" /\ status'[j] = "pending"
           \/ status[j] = "running" /\ status'[j] = "completed"
           \/ status[j] \in {"pending", "running"} /\ status'[j] = "failed"
           \/ status[j] \notin {"absent", "deleted"} /\ status'[j] = "deleted"
     \/ /\ StartsLeft(j) > 0 /\ StartsLeft(j)' = StartsLeft(j) - 1
        /\ \/ status[j] \in {"pending", "running", "failed"} /\ status'[j] = "running"
           \/ status'[j] = status[j]

InOrder == DeliveredOnce /\ "reply" \notin faults

LEMMA LivesIsAStep ==
  ASSUME TypeOK, TypeOK', InOrder, InOrder', NEW j \in Jobs, Lives(j)
  PROVE  LifeCycle!LifeNext
<1> DEFINE left == [i \in Jobs |-> StartsLeft(i)]
<1>1. StartsLeft(j) \in Int /\ StartsLeft(j)' \in Int
  BY DEF StartsLeft, TypeOK
<1>2. CASE StartsLeft(j)' = StartsLeft(j)
  <2>1. left' = left
    BY <1>2 DEF Lives, Seen
  <2>2. LifeCycle!Create(j) \/ LifeCycle!Finish(j) \/ LifeCycle!Fail(j) \/ LifeCycle!Remove(j)
    BY <1>1, <1>2, <2>1 DEF Lives, Seen, LifeCycle!Create, LifeCycle!Finish, LifeCycle!Fail,
         LifeCycle!Remove, LifeCycle!Show
  <2> QED BY <2>2 DEF LifeCycle!LifeNext, LifeCycle!Orderly, InOrder
<1>3. CASE StartsLeft(j)' # StartsLeft(j)
  <2>1. left[j] > 0 /\ left' = [left EXCEPT ![j] = @ - 1]
    BY <1>1, <1>3 DEF Lives, Seen
  <2>2. LifeCycle!Start(j) \/ LifeCycle!Spoil(j)
    BY <1>3, <2>1 DEF Lives, Seen, LifeCycle!Start, LifeCycle!Spoil, LifeCycle!Spend,
         LifeCycle!Show, TypeOK
  <2> QED BY <2>2 DEF LifeCycle!LifeNext, LifeCycle!Orderly, InOrder
<1> QED BY <1>2, <1>3

\* Only Take and Begin touch the starts that are left; the others may write the row of one
\* job, or none.
LEMMA OtherStep ==
  ASSUME TypeOK, TypeOK', UNCHANGED attempts,
         \A e \in Deliveries : pc[e] = "begin" => pc'[e] = "begin" /\ job'[e] = job[e],
         \A e \in Deliveries : pc'[e] = "begin" => pc[e] = "begin"
  PROVE  /\ \A j \in Jobs : StartsLeft(j)' = StartsLeft(j)
         /\ UNCHANGED status => Unseen
         /\ \A j \in Jobs : status' = [status EXCEPT ![j] = status'[j]] => Seen(j)
<1>1. \A j \in Jobs : StartsLeft(j)' = StartsLeft(j)
  BY StartsStay
<1> QED BY <1>1 DEF Unseen, Seen

\* What an UPDATE may show of a row that is, or was, there.
LEMMA UpdateShows ==
  ASSUME TypeOK, NEW j \in Jobs, NEW s \in Statuses, status[j] # "absent", SetStatus(j, s)
  PROVE  /\ status' = [status EXCEPT ![j] = status'[j]]
         /\ status'[j] = IF status[j] = "deleted" THEN "deleted" ELSE s
BY SetStatusType DEF TypeOK, SetStatus

LEMMA TakeLives ==
  ASSUME LifeInv, LifeInv', InOrder, InOrder', NEW d \in Deliveries, NEW ok \in BOOLEAN,
         Take(d, ok)
  PROVE  Unseen \/ Lives(job[d])
<1>0. /\ IInv /\ TypeOK /\ TypeOK' /\ job[d] \in Jobs /\ pc[d] = "queued" /\ Active(d)
      /\ UNCHANGED <<status, job>> /\ DeliveredOnce
  BY DEF LifeInv, IInv, Take, TypeOK, Active, InOrder, message
<1>1. attempts[job[d]] \in 0..MaxRetries
  BY <1>0 DEF IInv, RetriesCount, TypeOK
<1>2. /\ attempts'[job[d]] = attempts[job[d]] + 1
      /\ \A i \in Jobs \ {job[d]} : attempts'[i] = attempts[i]
  BY <1>0, <1>1 DEF Take, Count, TypeOK
<1>3. PICK l \in {"begin", "ack"} : pc' = [pc EXCEPT ![d] = l]
  BY DEF Take, Goto
<1>4. \A i \in Jobs \ {job[d]} : StartsLeft(i)' = StartsLeft(i)
  <2> SUFFICES ASSUME NEW i \in Jobs, i # job[d] PROVE StartsLeft(i)' = StartsLeft(i)
    OBVIOUS
  <2>1. \A e \in Deliveries :
          (job'[e] = i /\ pc'[e] = "begin") <=> (job[e] = i /\ pc[e] = "begin")
    BY <1>0, <1>3 DEF TypeOK
  <2> QED BY <1>2, <2>1, StartsStay
<1>5. ~Opening(job[d])
  BY <1>0, OnlyOne DEF Opening, Active
<1>6. CASE l = "begin"
  <2>1. Opening(job[d])'
    BY <1>0, <1>3, <1>6 DEF Opening, TypeOK
  <2>2. StartsLeft(job[d])' = StartsLeft(job[d])
    BY <1>0, <1>1, <1>2, <1>5, <2>1 DEF StartsLeft
  <2> QED BY <1>0, <1>4, <2>2 DEF Unseen
<1>7. CASE l = "ack"
  <2>1. ~Opening(job[d])'
    BY <1>0, <1>3, <1>5, <1>7 DEF Opening, TypeOK
  <2>2. StartsLeft(job[d]) > 0 /\ StartsLeft(job[d])' = StartsLeft(job[d]) - 1
    BY <1>0, <1>1, <1>2, <1>5, <2>1 DEF StartsLeft
  <2> QED BY <1>0, <1>4, <2>2 DEF Lives, Seen, TypeOK
<1> QED BY <1>6, <1>7

LEMMA BeginLives ==
  ASSUME LifeInv, LifeInv', InOrder, InOrder', NEW d \in Deliveries, NEW ok \in BOOLEAN,
         Begin(d, ok)
  PROVE  Lives(job[d])
<1>0. /\ IInv /\ TypeOK /\ TypeOK' /\ job[d] \in Jobs /\ pc[d] = "begin" /\ Active(d)
      /\ UNCHANGED <<job, attempts>> /\ DeliveredOnce /\ "reply" \notin faults
  BY DEF LifeInv, IInv, Begin, TypeOK, Active, InOrder, message
<1>1. PICK l \in {"complete", "record"} : pc' = [pc EXCEPT ![d] = l]
  BY DEF Begin, Goto
<1>2. attempts[job[d]] <= MaxRetries + 1
  BY <1>0 DEF IInv, AttemptsBounded
<1>3. Opening(job[d]) /\ ~Opening(job[d])'
  BY <1>0, <1>1, OnlyOne DEF Opening, TypeOK, Active
<1>4. StartsLeft(job[d]) > 0 /\ StartsLeft(job[d])' = StartsLeft(job[d]) - 1
  BY <1>0, <1>2, <1>3 DEF StartsLeft, TypeOK
<1>5. \A i \in Jobs \ {job[d]} : StartsLeft(i)' = StartsLeft(i)
  <2> SUFFICES ASSUME NEW i \in Jobs, i # job[d] PROVE StartsLeft(i)' = StartsLeft(i)
    OBVIOUS
  <2>1. \A e \in Deliveries :
          (job'[e] = i /\ pc'[e] = "begin") <=> (job[e] = i /\ pc[e] = "begin")
    BY <1>0, <1>1 DEF TypeOK
  <2> QED BY <1>0, <2>1, StartsStay
<1>6. status[job[d]] \in {"pending", "running", "failed", "deleted"}
  BY <1>0, DeliveredHasRow DEF Free, IInv, NotYetCompleted, TypeOK, Statuses
<1>7. /\ status' = [status EXCEPT ![job[d]] = status'[job[d]]]
      /\ status'[job[d]] = status[job[d]]
         \/ (status[job[d]] # "deleted" /\ status'[job[d]] = "running")
  <2>1. CASE ok
    BY <1>0, <1>6, <2>1, UpdateShows DEF Begin, Statuses
  <2>2. CASE ~ok
    BY <1>0, <2>2 DEF Begin, TypeOK
  <2> QED BY <2>1, <2>2
<1> QED BY <1>0, <1>4, <1>5, <1>6, <1>7 DEF Lives, Seen

\* status='failed' and status='completed' are written over a row that is pending, running
\* or gone; a failure also over an earlier failure.
LEMMA EndLives ==
  ASSUME LifeInv, LifeInv', InOrder, InOrder', NEW d \in Deliveries,
         Complete(d) \/ \E ok \in BOOLEAN : Record(d, ok)
  PROVE  Unseen \/ Lives(job[d])
<1>0. /\ IInv /\ TypeOK /\ TypeOK' /\ job[d] \in Jobs /\ Active(d) /\ WorkShown
      /\ pc[d] \in {"complete", "record"} /\ ~Free(d)
      /\ UNCHANGED <<job, attempts>> /\ DeliveredOnce /\ "reply" \notin faults
  BY DEF LifeInv, IInv, Complete, Record, TypeOK, Active, InOrder, message, Free
<1>1. \E l \in {"record", "retry", "ack"} : pc' = [pc EXCEPT ![d] = l]
  BY DEF Complete, Completed, ReplyLost, Record, Goto
<1>2. /\ \A j \in Jobs : StartsLeft(j)' = StartsLeft(j)
      /\ UNCHANGED status => Unseen
      /\ status' = [status EXCEPT ![job[d]] = status'[job[d]]] => Seen(job[d])
  <2>1. /\ \A e \in Deliveries : pc[e] = "begin" => pc'[e] = "begin" /\ job'[e] = job[e]
        /\ \A e \in Deliveries : pc'[e] = "begin" => pc[e] = "begin"
    BY <1>0, <1>1 DEF TypeOK
  <2> QED BY <1>0, <2>1, OtherStep
<1>3. status[job[d]] \in {"pending", "running", "failed", "deleted"}
  BY <1>0, DeliveredHasRow DEF IInv, NotYetCompleted, TypeOK, Statuses
<1>4. CASE UNCHANGED status
  BY <1>2, <1>4
<1>5. CASE pc[d] = "complete" /\ SetStatus(job[d], "completed")
  <2>1. status[job[d]] \in {"running", "deleted"}
    BY <1>0, <1>5 DEF WorkShown
  <2>2. /\ status' = [status EXCEPT ![job[d]] = status'[job[d]]]
        /\ status'[job[d]] = IF status[job[d]] = "deleted" THEN "deleted" ELSE "completed"
    BY <1>0, <1>3, <1>5, UpdateShows DEF Statuses
  <2>3. CASE status[job[d]] = "deleted"
    BY <1>0, <1>2, <2>2, <2>3 DEF TypeOK
  <2>4. CASE status[job[d]] = "running"
    BY <1>0, <1>2, <2>2, <2>4 DEF Lives
  <2> QED BY <2>1, <2>3, <2>4
<1>6. CASE pc[d] = "record" /\ SetStatus(job[d], "failed")
  <2>1. /\ status' = [status EXCEPT ![job[d]] = status'[job[d]]]
        /\ status'[job[d]] = IF status[job[d]] = "deleted" THEN "deleted" ELSE "failed"
    BY <1>0, <1>3, <1>6, UpdateShows DEF Statuses
  <2>2. CASE status[job[d]] \in {"failed", "deleted"}
    BY <1>0, <1>2, <2>1, <2>2 DEF TypeOK
  <2>3. CASE status[job[d]] \in {"pending", "running"}
    BY <1>0, <1>2, <2>1, <2>3 DEF Lives
  <2> QED BY <1>3, <2>2, <2>3
<1>7. ~ReplyLost(d)
  BY <1>0 DEF ReplyLost, Fault, InOrder
<1> QED BY <1>4, <1>5, <1>6, <1>7 DEF Complete, Completed, Record

LEMMA ApiLives ==
  ASSUME LifeInv, LifeInv', NEW j \in Jobs, Trigger(j) \/ Wizard(j) \/ Delete(j)
  PROVE  Lives(j)
<1>1. /\ TypeOK /\ TypeOK' /\ UNCHANGED <<pc, job, attempts>>
      /\ status' = [status EXCEPT ![j] = status'[j]]
      /\ \/ status[j] = "absent" /\ status'[j] = "pending"
         \/ status[j] \notin {"absent", "deleted"} /\ status'[j] = "deleted"
  BY DEF LifeInv, IInv, TypeOK, Trigger, Wizard, Delete, message
<1>2. Seen(j) /\ StartsLeft(j)' = StartsLeft(j)
  BY <1>1, OtherStep
<1> QED BY <1>1, <1>2 DEF Lives

LEMMA QueueUnseen ==
  ASSUME LifeInv, LifeInv',
         \/ \E j \in Jobs, ok \in BOOLEAN : Enqueue(j, ok)
         \/ \E d \in Deliveries : Discard(d) \/ Ack(d) \/ Retry(d)
  PROVE  Unseen
<1>1. TypeOK /\ TypeOK' /\ UNCHANGED <<status, attempts>>
  BY DEF LifeInv, IInv, Enqueue, Discard, Ack, Retry
<1>2. ASSUME NEW e \in Deliveries
      PROVE  /\ pc[e] = "begin" => pc'[e] = "begin" /\ job'[e] = job[e]
             /\ pc'[e] = "begin" => pc[e] = "begin"
  BY <1>1 DEF Enqueue, Discard, Ack, Retry, Drop, Publish, Goto, NextFree, Free, TypeOK,
       message
<1> QED BY <1>1, <1>2, OtherStep

LEMMA StepLives ==
  ASSUME LifeInv, LifeInv', InOrder, InOrder', [Next]_vars
  PROVE  Unseen \/ \E j \in Jobs : Lives(j)
<1>1. \A d \in Deliveries : job[d] \in Jobs
  BY DEF LifeInv, IInv, TypeOK
<1>2. ASSUME NEW d \in Deliveries, Execute(d)
      PROVE  Unseen \/ \E j \in Jobs : Lives(j)
  <2>1. ASSUME NEW ok \in BOOLEAN, Take(d, ok) \/ Begin(d, ok)
        PROVE  Unseen \/ Lives(job[d])
    BY <2>1, TakeLives, BeginLives
  <2> QED BY <1>1, <1>2, <2>1, EndLives, QueueUnseen DEF Execute
<1>3. ASSUME NEW d \in Deliveries, Lost(d) \/ Redeliver(d)
      PROVE  FALSE
  BY <1>3 DEF Lost, Redeliver, Fault, InOrder, DeliveredOnce
<1>4. CASE UNCHANGED vars
  BY <1>4 DEF vars, Unseen, StartsLeft, Opening
<1> QED BY <1>2, <1>3, <1>4, ApiLives, QueueUnseen DEF Next

LEMMA StepSimulation ==
  ASSUME LifeInv, LifeInv', [Next]_vars
  PROVE  [LifeCycle!LifeNext]_(LifeCycle!lifeVars)
<1>0. IInv /\ TypeOK /\ TypeOK'
  BY DEF LifeInv, IInv
<1>1. InOrder' => InOrder
  BY <1>0, FaultsGrow DEF InOrder, DeliveredOnce
<1>2. CASE InOrder'
  <2>1. CASE Unseen
    BY <1>1, <1>2, <2>1 DEF Unseen, LifeCycle!lifeVars, InOrder
  <2>2. ASSUME NEW j \in Jobs, Lives(j)
        PROVE  LifeCycle!LifeNext
    BY <1>0, <1>1, <1>2, <2>2, LivesIsAStep
  <2> QED BY <1>1, <1>2, <2>1, <2>2, StepLives
<1>3. CASE ~InOrder'
  <2>1. \A j \in Jobs : StartsLeft(j)' \in Int
    BY <1>0 DEF StartsLeft, TypeOK
  <2>2. LifeCycle!Disorderly
    BY <1>0, <1>3, <2>1, RowsStay DEF LifeCycle!Disorderly, InOrder
  <2> QED BY <2>2 DEF LifeCycle!LifeNext
<1> QED BY <1>2, <1>3

\* Through any interleaving of requests, executions, failing statements and deletions, the
\* rows of any number of jobs show nothing but a life as JobLifeCycle has it.
THEOREM RowsLiveInOrder == Spec => ImplementsLifeCycle
<1>1. Init => LifeCycle!LifeInit
  <2> SUFFICES ASSUME Init PROVE LifeCycle!LifeInit
    OBVIOUS
  <2>1. \A j \in Jobs : StartsLeft(j) = MaxRetries + 1
    BY DEF Init, StartsLeft, Opening
  <2> QED BY <2>1 DEF Init, LifeCycle!LifeInit, DeliveredOnce
<1>2. LifeInv /\ LifeInv' /\ [Next]_vars => [LifeCycle!LifeNext]_(LifeCycle!lifeVars)
  BY StepSimulation
<1> QED BY <1>1, <1>2, InitLifeInv, StepLifeInv, PTL
      DEF Spec, ImplementsLifeCycle, LifeCycle!LifeSpec

===============================================================================
