---------------------------- MODULE CircuitBreaker ----------------------------
(***************************************************************************)
(* The Redis-backed circuit breaker of apps/api/services/circuit_breaker.py *)
(* around one external API: several processes, each with a breaker object  *)
(* of its own, share three Redis keys (state, failures, open_at).          *)
(*                                                                         *)
(* Every Redis command is one step and may fail, in which case the breaker *)
(* falls back on the fields of its own object.  The module logs through    *)
(* the standard library with keyword arguments that it does not accept: a  *)
(* message whose level is enabled raises TypeError, so the configured log  *)
(* level decides which steps are reached.  redis.from_url returns bytes    *)
(* unless the URL asks for decoded responses, and bytes equal no state.    *)
(***************************************************************************)
EXTENDS Integers, FiniteSets

CONSTANTS Procs,        \* processes, each with its breaker object
          Threshold,    \* failure_threshold
          Recovery,     \* recovery_timeout, in ticks
          Window,       \* window_seconds, in ticks
          Life,         \* expiry of state and open_at (recovery_timeout * 10)
          Levels,       \* log levels the deployment may be configured with
          Decodings,    \* whether the Redis URL asks for decoded responses
          MaxFaults     \* bound on failed Redis commands and restarts

ASSUME BreakerAssumption ==
  /\ IsFiniteSet(Procs)
  /\ Threshold \in Nat \ {0} /\ Recovery \in Nat \ {0} /\ Window \in Nat \ {0}
  /\ Life \in Nat /\ Life > Recovery
  /\ Levels \subseteq {"INFO", "WARNING", "ERROR", "CRITICAL"}
  /\ Decodings \subseteq BOOLEAN
  /\ MaxFaults \in Nat

VARIABLES
  level,     \* the root logger's level
  decoded,   \* GET returns str rather than bytes
  state,     \* Redis cb:<name>:state, "none" when absent
  stateTtl,  \* ticks until it expires
  fails,     \* Redis cb:<name>:failures, counted up to Threshold
  failsTtl,  \* ticks until it expires
  openTtl,   \* ticks until cb:<name>:open_at expires, 0 = absent
  local,     \* the _local_state, _local_failures and age of _local_open_at
  pc,        \* where each process is in call()
  faults     \* failed Redis commands and restarts so far

vars == <<level, decoded, state, stateTtl, fails, failsTtl, openTtl, local, pc,
          faults>>
redis == <<state, stateTtl, fails, failsTtl, openTtl>>

States == {"CLOSED", "OPEN", "HALF_OPEN"}
Labels == {"idle", "open_at", "half", "calling", "success", "close", "zero",
           "failure", "recheck", "open", "stamp"}

NoStamp == Recovery + 1      \* _local_open_at is None
NewBreaker == [state |-> "CLOSED", fails |-> 0, age |-> NoStamp]

\* The levels that let a message of each severity through.
InfoOn == level = "INFO"
WarningOn == level \in {"INFO", "WARNING"}
ErrorOn == level \in {"INFO", "WARNING", "ERROR"}

-------------------------------------------------------------------------------
(* Redis helpers: "ok" is whether the command reached the server *)

\* A command succeeds, or fails while the budget of faults lasts.
Outcome(ok) ==
  /\ ok \/ faults < MaxFaults
  /\ faults' = IF ok THEN faults ELSE faults + 1

\* _get_state
GetState(p, ok) ==
  IF ~ok THEN local[p].state
  ELSE IF state = "none" THEN "CLOSED"
  ELSE IF decoded THEN state ELSE "bytes"

\* Faulty: the new expiry is added to what remains of the old one.
SetStateAdding(p, s, ok) ==
  /\ local' = [local EXCEPT ![p].state = s]
  /\ IF ok THEN state' = s /\ stateTtl' = stateTtl + Life
           ELSE UNCHANGED <<state, stateTtl>>

\* _set_state
SetState(p, s, ok) ==
  /\ local' = [local EXCEPT ![p].state = s]
  /\ IF ok THEN state' = s /\ stateTtl' = Life ELSE UNCHANGED <<state, stateTtl>>

\* _get_open_at, and the test that recovery_timeout has elapsed since.
Elapsed(p, ok) ==
  IF ok THEN openTtl > 0 /\ Life - openTtl >= Recovery
        ELSE local[p].age = Recovery

\* A failure counter cannot matter beyond the threshold.
Bump(c) == IF c = Threshold THEN c ELSE c + 1

-------------------------------------------------------------------------------
(* Processes *)

Init ==
  /\ level \in Levels
  /\ decoded \in Decodings
  /\ state = "none" /\ stateTtl = 0
  /\ fails = 0 /\ failsTtl = 0
  /\ openTtl = 0
  /\ local = [p \in Procs |-> NewBreaker]
  /\ pc = [p \in Procs |-> "idle"]
  /\ faults = 0

Goto(p, l) == pc' = [pc EXCEPT ![p] = l]

\* call, async_call: read the state; only OPEN stops the call.
Begin(p) == \E ok \in BOOLEAN :
  /\ pc[p] = "idle"
  /\ Outcome(ok)
  /\ Goto(p, IF GetState(p, ok) = "OPEN" THEN "open_at" ELSE "calling")
  /\ UNCHANGED <<level, decoded, redis, local>>

\* OPEN: CircuitOpenError, unless recovery_timeout is over.
CheckOpenAt(p) == \E ok \in BOOLEAN :
  /\ pc[p] = "open_at"
  /\ Outcome(ok)
  /\ Goto(p, IF Elapsed(p, ok) THEN "half" ELSE "idle")
  /\ UNCHANGED <<level, decoded, redis, local>>

\* _set_state(HALF_OPEN); the message that follows, if enabled, ends the call.
HalfOpen(p) == \E ok \in BOOLEAN :
  /\ pc[p] = "half"
  /\ Outcome(ok)
  /\ SetState(p, "HALF_OPEN", ok)
  /\ Goto(p, IF InfoOn THEN "idle" ELSE "calling")
  /\ UNCHANGED <<level, decoded, fails, failsTtl, openTtl>>

\* fn and its retries return, or the last retry raises.
FnReturns(p) ==
  /\ pc[p] = "calling"
  /\ \/ Goto(p, "success")
     \/ Goto(p, "failure")
  /\ UNCHANGED <<level, decoded, redis, local, faults>>

\* _on_success: recover from HALF_OPEN.  Its message raises inside the try of
\* call, whose handler counts a failure.
OnSuccess(p) == \E ok \in BOOLEAN :
  /\ pc[p] = "success"
  /\ Outcome(ok)
  /\ Goto(p, IF GetState(p, ok) # "HALF_OPEN" THEN "idle"
             ELSE IF InfoOn THEN "failure" ELSE "close")
  /\ UNCHANGED <<level, decoded, redis, local>>

\* Faulty: closing does not reset the count.
CloseOnly(p) == \E ok \in BOOLEAN :
  /\ pc[p] = "close"
  /\ Outcome(ok)
  /\ SetState(p, "CLOSED", ok)
  /\ Goto(p, "idle")
  /\ UNCHANGED <<level, decoded, fails, failsTtl, openTtl>>

\* _set_state(CLOSED), in _on_success and in reset.
Close(p) == \E ok \in BOOLEAN :
  /\ pc[p] = "close"
  /\ Outcome(ok)
  /\ SetState(p, "CLOSED", ok)
  /\ Goto(p, "zero")
  /\ UNCHANGED <<level, decoded, fails, failsTtl, openTtl>>

\* _set_failures(0)
ZeroFailures(p) == \E ok \in BOOLEAN :
  /\ pc[p] = "zero"
  /\ Outcome(ok)
  /\ local' = [local EXCEPT ![p].fails = 0]
  /\ IF ok THEN fails' = 0 /\ failsTtl' = Window ELSE UNCHANGED <<fails, failsTtl>>
  /\ Goto(p, "idle")
  /\ UNCHANGED <<level, decoded, state, stateTtl, openTtl>>

\* _on_failure up to the threshold: INCR and EXPIRE in one transaction; the warning,
\* if enabled, ends the call here.
CountFailure(p) == \E ok \in BOOLEAN :
  /\ pc[p] = "failure"
  /\ Outcome(ok)
  /\ local' = [local EXCEPT ![p].fails = Bump(@)]
  /\ IF ok THEN fails' = Bump(fails) /\ failsTtl' = Window
           ELSE UNCHANGED <<fails, failsTtl>>
  /\ LET failures == IF ok THEN fails' ELSE local'[p].fails
     IN  Goto(p, IF failures < Threshold \/ WarningOn THEN "idle" ELSE "recheck")
  /\ UNCHANGED <<level, decoded, state, stateTtl, openTtl>>

\* Faulty: the error is logged after the state is set.
OpenBeforeLogging(p) == \E ok \in BOOLEAN :
  /\ pc[p] = "recheck"
  /\ Outcome(ok)
  /\ Goto(p, IF GetState(p, ok) = "OPEN" THEN "idle" ELSE "open")
  /\ UNCHANGED <<level, decoded, redis, local>>

\* _on_failure at the threshold, unless already OPEN; the error message is enabled at
\* every level but CRITICAL, and ends the call here.
Recheck(p) == \E ok \in BOOLEAN :
  /\ pc[p] = "recheck"
  /\ Outcome(ok)
  /\ Goto(p, IF GetState(p, ok) = "OPEN" \/ ErrorOn THEN "idle" ELSE "open")
  /\ UNCHANGED <<level, decoded, redis, local>>

\* _set_state(OPEN)
Open(p) == \E ok \in BOOLEAN :
  /\ pc[p] = "open"
  /\ Outcome(ok)
  /\ SetState(p, "OPEN", ok)
  /\ Goto(p, "stamp")
  /\ UNCHANGED <<level, decoded, fails, failsTtl, openTtl>>

\* Faulty: the time of opening is kept from the first opening.
StampOnce(p) == \E ok \in BOOLEAN :
  /\ pc[p] = "stamp"
  /\ Outcome(ok)
  /\ local' = [local EXCEPT ![p].age = 0]
  /\ openTtl' = IF ok /\ openTtl = 0 THEN Life ELSE openTtl
  /\ Goto(p, "idle")
  /\ UNCHANGED <<level, decoded, state, stateTtl, fails, failsTtl>>

\* _set_open_at(time.time())
Stamp(p) == \E ok \in BOOLEAN :
  /\ pc[p] = "stamp"
  /\ Outcome(ok)
  /\ local' = [local EXCEPT ![p].age = 0]
  /\ openTtl' = IF ok THEN Life ELSE openTtl
  /\ Goto(p, "idle")
  /\ UNCHANGED <<level, decoded, state, stateTtl, fails, failsTtl>>

\* reset(): the same two writes as a recovery.
Reset(p) ==
  /\ pc[p] = "idle"
  /\ Goto(p, "close")
  /\ UNCHANGED <<level, decoded, redis, local, faults>>

\* The process dies between two commands; a new one has a new object.
Restart(p) ==
  /\ faults < MaxFaults
  /\ faults' = faults + 1
  /\ Goto(p, "idle")
  /\ local' = [local EXCEPT ![p] = NewBreaker]
  /\ UNCHANGED <<level, decoded, redis>>

-------------------------------------------------------------------------------
(* Time *)

\* One tick less to live, for a key that has an expiry.
Less(t) == IF t = 0 THEN 0 ELSE t - 1

\* Time passes: keys expire, stamps age.
Tick ==
  /\ stateTtl' = Less(stateTtl)
  /\ state' = IF stateTtl = 1 THEN "none" ELSE state
  /\ failsTtl' = Less(failsTtl)
  /\ fails' = IF failsTtl = 1 THEN 0 ELSE fails
  /\ openTtl' = Less(openTtl)
  /\ local' = [p \in Procs |->
       [local[p] EXCEPT !.age = IF @ < Recovery THEN @ + 1 ELSE @]]
  /\ UNCHANGED <<level, decoded, pc, faults>>

\* A call that has begun.
Step(p) ==
  \/ CheckOpenAt(p) \/ HalfOpen(p) \/ FnReturns(p) \/ OnSuccess(p)
  \/ Close(p) \/ ZeroFailures(p)
  \/ CountFailure(p) \/ Recheck(p) \/ Open(p) \/ Stamp(p)

Next ==
  \/ \E p \in Procs : Begin(p) \/ Step(p) \/ Reset(p) \/ Restart(p)
  \/ Tick

Spec == Init /\ [][Next]_vars

-------------------------------------------------------------------------------
(* Properties *)

\* The types of the variables.
TypeOK ==
  /\ level \in Levels /\ decoded \in Decodings
  /\ state \in States \cup {"none"} /\ stateTtl \in 0..Life
  /\ fails \in 0..Threshold /\ failsTtl \in 0..Window
  /\ openTtl \in 0..Life
  /\ local \in [Procs -> [state : States, fails : 0..Threshold, age : 0..NoStamp]]
  /\ pc \in [Procs -> Labels]
  /\ faults \in 0..MaxFaults

\* The breaker as deployed: at every log level below CRITICAL one of its own
\* messages raises before the state is set, so no call is ever refused, by what is in
\* Redis or by the fields of any breaker object.
TripsOnlyWhenSilent ==
  level # "CRITICAL" =>
    /\ state \notin {"OPEN", "HALF_OPEN"}
    /\ \A p \in Procs : local[p].state = "CLOSED" /\ pc[p] # "open_at"

\* The inductive invariant behind it: no process is on its way to open or to probe.
SilentInv ==
  /\ TypeOK
  /\ TripsOnlyWhenSilent
  /\ level # "CRITICAL" => \A p \in Procs : pc[p] \notin {"half", "open", "stamp"}

\* open_at never expires under a state that needs it: however the processes that
\* trip the breaker race, an OPEN key without a stamp has a process about to write
\* one, unless a process died or Redis failed in between.
OpenHasStamp ==
  state = "OPEN" /\ faults = 0 =>
    openTtl >= stateTtl \/ \E p \in Procs : pc[p] = "stamp"

\* A breaker that has recovered starts from a clean count: a success that closes it
\* and failures of other processes that were still under way never leave it CLOSED
\* with the threshold reached.
ClosedIsClean ==
  level = "CRITICAL" /\ faults = 0 /\ state = "CLOSED"
    /\ (\A p \in Procs : pc[p] = "idle") => fails < Threshold

===============================================================================
