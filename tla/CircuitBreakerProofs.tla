------------------------- MODULE CircuitBreakerProofs -------------------------
(***************************************************************************)
(* At every log level but CRITICAL the circuit breaker never opens; and    *)
(* where it does, it opens and closes in order: for any number of          *)
(* processes, any threshold and any timing.                                *)
(***************************************************************************)
EXTENDS CircuitBreaker, TLAPS

USE BreakerAssumption DEF BreakerAssumption

\* The types hold initially.
LEMMA InitSilent == Init => SilentInv
BY DEF Init, SilentInv, TypeOK, TripsOnlyWhenSilent, States, Labels, NewBreaker, NoStamp

\* The fallback reads and writes keep the types of the Redis keys.
LEMMA SetStateType ==
  ASSUME TypeOK, NEW p \in Procs, NEW s \in States, NEW ok \in BOOLEAN, SetState(p, s, ok)
  PROVE  /\ state' \in States \cup {"none"} /\ stateTtl' \in 0..Life
         /\ local' \in [Procs -> [state : States, fails : 0..Threshold, age : 0..NoStamp]]
         /\ local'[p].state = s
         /\ \A q \in Procs \ {p} : local'[q] = local[q]
         /\ state' = s \/ state' = state
<1>1. /\ local' = [local EXCEPT ![p].state = s]
      /\ (state' = s /\ stateTtl' = Life) \/ UNCHANGED <<state, stateTtl>>
  BY DEF SetState
<1>2. local \in [Procs -> [state : States, fails : 0..Threshold, age : 0..NoStamp]]
  BY DEF TypeOK
<1>3. state \in States \cup {"none"} /\ stateTtl \in 0..Life /\ Life \in 0..Life
  BY DEF TypeOK
<1>4. /\ local' \in [Procs -> [state : States, fails : 0..Threshold, age : 0..NoStamp]]
      /\ local'[p].state = s
      /\ \A q \in Procs \ {p} : local'[q] = local[q]
  BY <1>1, <1>2
<1> QED BY <1>1, <1>3, <1>4

\* The budget of faults is kept.
LEMMA OutcomeType ==
  ASSUME TypeOK, NEW ok \in BOOLEAN, Outcome(ok)
  PROVE  faults' \in 0..MaxFaults
BY DEF Outcome, TypeOK

\* Steps that write the state key.
LEMMA WriteSilent ==
  ASSUME SilentInv, NEW p \in Procs, HalfOpen(p) \/ Close(p) \/ Open(p)
  PROVE  SilentInv'
<1> USE DEF SilentInv
<1>1. PICK ok \in BOOLEAN, s \in States, l \in Labels :
        /\ SetState(p, s, ok) /\ Outcome(ok) /\ Goto(p, l)
        /\ UNCHANGED <<level, decoded, fails, failsTtl, openTtl>>
        /\ level # "CRITICAL" => s = "CLOSED" /\ l = "zero"
  <2>1. CASE HalfOpen(p)
    <3>1. level = "CRITICAL" /\ ~InfoOn
      BY <2>1 DEF HalfOpen, InfoOn
    <3> QED BY <2>1, <3>1 DEF HalfOpen, States, Labels
  <2>2. CASE Close(p)
    BY <2>2 DEF Close, States, Labels
  <2>3. CASE Open(p)
    <3>1. level = "CRITICAL"
      BY <2>3 DEF Open
    <3> QED BY <2>3, <3>1 DEF Open, States, Labels
  <2> QED BY <2>1, <2>2, <2>3
<1>2. pc' = [pc EXCEPT ![p] = l]
  BY <1>1 DEF Goto
<1>3. /\ state' \in States \cup {"none"} /\ stateTtl' \in 0..Life
      /\ local' \in [Procs -> [state : States, fails : 0..Threshold, age : 0..NoStamp]]
      /\ local'[p].state = s
      /\ \A q \in Procs \ {p} : local'[q] = local[q]
      /\ state' = s \/ state' = state
  BY <1>1, SetStateType
<1>4. TypeOK'
  BY <1>1, <1>2, <1>3, OutcomeType DEF TypeOK
<1>5. level' # "CRITICAL" =>
        /\ state' \notin {"OPEN", "HALF_OPEN"}
        /\ \A q \in Procs : /\ local'[q].state = "CLOSED"
                            /\ pc'[q] \notin {"open_at", "half", "open", "stamp"}
  BY <1>1, <1>2, <1>3 DEF TripsOnlyWhenSilent, TypeOK
<1> QED BY <1>4, <1>5 DEF TripsOnlyWhenSilent

\* Steps that only read, and those that write counters and stamps.
LEMMA OtherSilent ==
  ASSUME SilentInv, NEW p \in Procs,
         \/ Begin(p) \/ CheckOpenAt(p) \/ FnReturns(p) \/ OnSuccess(p) \/ ZeroFailures(p)
         \/ CountFailure(p) \/ Recheck(p) \/ Stamp(p) \/ Reset(p)
  PROVE  SilentInv'
<1> USE DEF SilentInv
<1>1. /\ UNCHANGED <<level, decoded, state, stateTtl>>
      /\ faults' \in 0..MaxFaults
      /\ \E l \in Labels :
           /\ pc' = [pc EXCEPT ![p] = l]
           /\ level # "CRITICAL" => l \notin {"open_at", "half", "open", "stamp"}
  <2>1. CASE Begin(p)
    <3>1. PICK ok \in BOOLEAN :
            /\ Outcome(ok)
            /\ Goto(p, IF GetState(p, ok) = "OPEN" THEN "open_at" ELSE "calling")
            /\ UNCHANGED <<level, decoded, redis, local>>
      BY <2>1 DEF Begin
    <3>2. level # "CRITICAL" => GetState(p, ok) # "OPEN"
      BY DEF GetState, TripsOnlyWhenSilent
    <3> QED BY <3>1, <3>2, OutcomeType DEF Goto, Labels, redis
  <2>2. CASE CheckOpenAt(p)
    <3>1. level = "CRITICAL"
      BY <2>2 DEF CheckOpenAt, TripsOnlyWhenSilent
    <3> QED BY <2>2, <3>1, OutcomeType DEF CheckOpenAt, Goto, Labels, redis
  <2>3. CASE FnReturns(p)
    BY <2>3 DEF FnReturns, Goto, Labels, redis, TypeOK
  <2>4. CASE OnSuccess(p)
    BY <2>4, OutcomeType DEF OnSuccess, Goto, Labels, redis
  <2>5. CASE ZeroFailures(p)
    BY <2>5, OutcomeType DEF ZeroFailures, Goto, Labels
  <2>6. CASE CountFailure(p)
    BY <2>6, OutcomeType DEF CountFailure, Goto, Labels
  <2>7. CASE Recheck(p)
    <3>1. PICK ok \in BOOLEAN :
            /\ Outcome(ok)
            /\ Goto(p, IF GetState(p, ok) = "OPEN" \/ ErrorOn THEN "idle" ELSE "open")
            /\ UNCHANGED <<level, decoded, redis, local>>
      BY <2>7 DEF Recheck
    <3>2. level # "CRITICAL" => ErrorOn
      BY DEF ErrorOn, TypeOK
    <3> QED BY <3>1, <3>2, OutcomeType DEF Goto, Labels, redis
  <2>8. CASE Stamp(p)
    BY <2>8, OutcomeType DEF Stamp, Goto, Labels
  <2>9. CASE Reset(p)
    BY <2>9 DEF Reset, Goto, Labels, redis, TypeOK
  <2> QED BY <2>1, <2>2, <2>3, <2>4, <2>5, <2>6, <2>7, <2>8, <2>9
<1>2. /\ fails' \in 0..Threshold /\ failsTtl' \in 0..Window /\ openTtl' \in 0..Life
      /\ local' \in [Procs -> [state : States, fails : 0..Threshold, age : 0..NoStamp]]
      /\ \A q \in Procs : local'[q].state = local[q].state
  <2>0. /\ fails \in 0..Threshold /\ failsTtl \in 0..Window /\ openTtl \in 0..Life
        /\ local \in [Procs -> [state : States, fails : 0..Threshold, age : 0..NoStamp]]
    BY DEF TypeOK
  <2>1. CASE UNCHANGED <<fails, failsTtl, openTtl, local>>
    BY <2>0, <2>1
  <2>2. CASE ZeroFailures(p)
    <3>1. /\ local' = [local EXCEPT ![p].fails = 0]
          /\ (fails' = 0 /\ failsTtl' = Window) \/ UNCHANGED <<fails, failsTtl>>
          /\ openTtl' = openTtl
      BY <2>2 DEF ZeroFailures
    <3> QED BY <2>0, <3>1
  <2>3. CASE CountFailure(p)
    <3>1. /\ local' = [local EXCEPT ![p].fails = Bump(@)]
          /\ (fails' = Bump(fails) /\ failsTtl' = Window) \/ UNCHANGED <<fails, failsTtl>>
          /\ openTtl' = openTtl
      BY <2>3 DEF CountFailure
    <3>2. \A c \in 0..Threshold : Bump(c) \in 0..Threshold
      BY DEF Bump
    <3> QED BY <2>0, <3>1, <3>2
  <2>4. CASE Stamp(p)
    <3>1. /\ local' = [local EXCEPT ![p].age = 0]
          /\ openTtl' = Life \/ openTtl' = openTtl
          /\ UNCHANGED <<fails, failsTtl>>
      BY <2>4 DEF Stamp
    <3>2. 0 \in 0..NoStamp
      BY DEF NoStamp
    <3> QED BY <2>0, <3>1, <3>2
  <2> QED BY <2>1, <2>2, <2>3, <2>4
        DEF Begin, CheckOpenAt, FnReturns, OnSuccess, Recheck, Reset, redis
<1>3. TypeOK'
  BY <1>1, <1>2 DEF TypeOK
<1>4. TripsOnlyWhenSilent'
  BY <1>1, <1>2 DEF TripsOnlyWhenSilent, TypeOK
<1> QED BY <1>1, <1>3, <1>4 DEF TypeOK

\* A new breaker object is CLOSED.
LEMMA RestartSilent == ASSUME SilentInv, NEW p \in Procs, Restart(p) PROVE SilentInv'
<1>1. NewBreaker \in [state : States, fails : 0..Threshold, age : 0..NoStamp]
  BY DEF NewBreaker, States, NoStamp
<1> QED BY <1>1 DEF Restart, Goto, SilentInv, TypeOK, TripsOnlyWhenSilent, NewBreaker,
             Labels, redis

\* Time removes keys and ages stamps.
LEMMA TickSilent == ASSUME SilentInv, Tick PROVE SilentInv'
<1> USE DEF SilentInv
<1>1. \A t \in Nat : Less(t) \in Nat /\ Less(t) <= t
  BY DEF Less
<1>2. /\ stateTtl' \in 0..Life /\ failsTtl' \in 0..Window /\ openTtl' \in 0..Life
      /\ fails' \in 0..Threshold
      /\ state' = state \/ state' = "none"
      /\ state' \in States \cup {"none"}
  BY <1>1 DEF Tick, TypeOK
<1>3. /\ local' \in [Procs -> [state : States, fails : 0..Threshold, age : 0..NoStamp]]
      /\ \A p \in Procs : local'[p].state = local[p].state
  <2>1. \A p \in Procs :
          local[p] \in [state : States, fails : 0..Threshold, age : 0..NoStamp]
    BY DEF TypeOK
  <2>2. local' = [p \in Procs |->
          [local[p] EXCEPT !.age = IF @ < Recovery THEN @ + 1 ELSE @]]
    BY DEF Tick
  <2>3. \A a \in 0..NoStamp : (IF a < Recovery THEN a + 1 ELSE a) \in 0..NoStamp
    BY DEF NoStamp
  <2> QED BY <2>1, <2>2, <2>3
<1>4. TypeOK'
  BY <1>2, <1>3 DEF Tick, TypeOK
<1>5. TripsOnlyWhenSilent'
  BY <1>2, <1>3 DEF Tick, TripsOnlyWhenSilent
<1> QED BY <1>4, <1>5 DEF Tick

\* The invariant holds in every reachable state.
THEOREM Invariance == Spec => []SilentInv
<1>1. Init => SilentInv
  BY InitSilent
<1>2. SilentInv /\ [Next]_vars => SilentInv'
  <2> SUFFICES ASSUME SilentInv, [Next]_vars PROVE SilentInv'
    OBVIOUS
  <2>1. ASSUME NEW p \in Procs, Begin(p) \/ Step(p) \/ Reset(p) \/ Restart(p)
        PROVE  SilentInv'
    BY <2>1, WriteSilent, OtherSilent, RestartSilent DEF Step
  <2>2. CASE Tick
    BY <2>2, TickSilent
  <2>3. CASE UNCHANGED vars
    BY <2>3 DEF vars, redis, SilentInv, TypeOK, TripsOnlyWhenSilent
  <2> QED BY <2>1, <2>2, <2>3 DEF Next
<1> QED BY <1>1, <1>2, PTL DEF Spec

\* The variables of the breaker keep their types.
THEOREM TypeCorrect == Spec => []TypeOK
<1>1. SilentInv => TypeOK
  BY DEF SilentInv
<1> QED BY <1>1, Invariance, PTL

\* circuit_breaker.py never refuses a call unless the log level is CRITICAL: the
\* messages of L132, L221, L227 and L235 raise TypeError where they are enabled.
THEOREM NeverTripsWhenLogging == Spec => []TripsOnlyWhenSilent
<1>1. SilentInv => TripsOnlyWhenSilent
  BY DEF SilentInv
<1> QED BY <1>1, Invariance, PTL

-------------------------------------------------------------------------------
(* Opening and closing, where messages are silent *)

\* Without a fault, commands reach the server.
LEMMA NoFault ==
  ASSUME TypeOK, NEW ok \in BOOLEAN, Outcome(ok), faults' = 0
  PROVE  ok /\ faults = 0
BY DEF Outcome, TypeOK

\* A count at the threshold has someone who is about to open, or to clear it.
Clearing == {"recheck", "open", "zero"}
CleanInv ==
  level = "CRITICAL" /\ faults = 0 /\ state = "CLOSED" /\ fails = Threshold =>
    \E p \in Procs : pc[p] \in Clearing

LEMMA OpenKept ==
  ASSUME TypeOK, OpenHasStamp, [Next]_vars
  PROVE  OpenHasStamp'
<1> SUFFICES ASSUME state' = "OPEN", faults' = 0
             PROVE  openTtl' >= stateTtl' \/ \E q \in Procs : pc'[q] = "stamp"
  BY DEF OpenHasStamp
<1>0. openTtl \in 0..Life /\ stateTtl \in 0..Life /\ pc \in [Procs -> Labels] /\ faults \in Nat
  BY DEF TypeOK
<1>1. CASE UNCHANGED vars  BY <1>1 DEF vars, redis, OpenHasStamp
<1>2. CASE Tick
  <2>1. state = "OPEN" /\ faults = 0 /\ stateTtl # 1 /\ UNCHANGED pc  BY <1>2 DEF Tick
  <2>2. openTtl' = Less(openTtl) /\ stateTtl' = Less(stateTtl)  BY <1>2 DEF Tick
  <2>3. openTtl >= stateTtl => Less(openTtl) >= Less(stateTtl)  BY <1>0 DEF Less
  <2>4. QED  BY <2>1, <2>2, <2>3 DEF OpenHasStamp
<1>3. ASSUME NEW p \in Procs, Open(p) PROVE \E q \in Procs : pc'[q] = "stamp"
  BY <1>0, <1>3 DEF Open, Goto
<1>4. ASSUME NEW p \in Procs, Stamp(p) PROVE openTtl' >= stateTtl'
  BY <1>0, <1>4, NoFault DEF Stamp
<1>5. ASSUME NEW p \in Procs, HalfOpen(p) \/ Close(p) PROVE FALSE
  BY <1>5, NoFault DEF HalfOpen, Close, SetState
<1>6. ASSUME NEW p \in Procs, Restart(p) PROVE FALSE
  BY <1>0, <1>6 DEF Restart
<1>7. ASSUME NEW p \in Procs,
             \/ Begin(p) \/ CheckOpenAt(p) \/ FnReturns(p) \/ OnSuccess(p) \/ ZeroFailures(p)
             \/ CountFailure(p) \/ Recheck(p) \/ Reset(p)
      PROVE  openTtl' >= stateTtl' \/ \E q \in Procs : pc'[q] = "stamp"
  <2>1. UNCHANGED <<state, stateTtl, openTtl>> /\ pc[p] # "stamp" /\ \E l : Goto(p, l)
    BY <1>7 DEF Begin, CheckOpenAt, FnReturns, OnSuccess, ZeroFailures, CountFailure, Recheck,
                Reset, redis
  <2>2. faults = 0
    BY <1>7, NoFault DEF Begin, CheckOpenAt, FnReturns, OnSuccess, ZeroFailures, CountFailure,
                         Recheck, Reset
  <2>3. \A q \in Procs : pc[q] = "stamp" => pc'[q] = "stamp"  BY <1>0, <2>1 DEF Goto
  <2>4. QED  BY <2>1, <2>2, <2>3 DEF OpenHasStamp
<1>8. QED  BY <1>1, <1>2, <1>3, <1>4, <1>5, <1>6, <1>7 DEF Next, Step

LEMMA CleanKept ==
  ASSUME TypeOK, CleanInv, [Next]_vars
  PROVE  CleanInv'
<1> SUFFICES ASSUME level' = "CRITICAL", faults' = 0, state' = "CLOSED", fails' = Threshold
             PROVE  \E q \in Procs : pc'[q] \in Clearing
  BY DEF CleanInv
<1>0. pc \in [Procs -> Labels] /\ faults \in Nat /\ fails \in 0..Threshold /\ failsTtl \in Nat
  BY DEF TypeOK
<1>1. CASE UNCHANGED vars  BY <1>1 DEF vars, redis, CleanInv
<1>2. CASE Tick
  <2>1. state = "CLOSED" /\ fails = Threshold /\ UNCHANGED <<level, pc, faults>>
    BY <1>0, <1>2 DEF Tick
  <2>2. QED  BY <2>1 DEF CleanInv
<1>3. ASSUME NEW p \in Procs, Close(p) PROVE \E q \in Procs : pc'[q] \in Clearing
  BY <1>0, <1>3 DEF Close, Goto, Clearing
<1>4. ASSUME NEW p \in Procs, CountFailure(p) PROVE \E q \in Procs : pc'[q] \in Clearing
  <2>1. PICK ok \in BOOLEAN :
          /\ Outcome(ok)
          /\ IF ok THEN fails' = Bump(fails) /\ failsTtl' = Window
                   ELSE UNCHANGED <<fails, failsTtl>>
          /\ LET failures == IF ok THEN fails' ELSE local'[p].fails
             IN  Goto(p, IF failures < Threshold \/ WarningOn THEN "idle" ELSE "recheck")
    BY <1>4 DEF CountFailure
  <2>2. ok /\ ~WarningOn  BY <1>4, <2>1, NoFault DEF WarningOn, CountFailure
  <2>3. Goto(p, "recheck")  BY <2>1, <2>2
  <2>4. QED  BY <1>0, <2>3 DEF Goto, Clearing
<1>5. ASSUME NEW p \in Procs, Recheck(p) PROVE \E q \in Procs : pc'[q] \in Clearing
  <2>1. PICK ok \in BOOLEAN :
          Outcome(ok) /\ Goto(p, IF GetState(p, ok) = "OPEN" \/ ErrorOn THEN "idle" ELSE "open")
    BY <1>5 DEF Recheck
  <2>2. ok /\ ~ErrorOn /\ state = "CLOSED"
    BY <1>5, <2>1, NoFault DEF ErrorOn, Recheck, redis
  <2>3. Goto(p, "open")  BY <2>1, <2>2 DEF GetState
  <2>4. QED  BY <1>0, <2>3 DEF Goto, Clearing
<1>6. ASSUME NEW p \in Procs, HalfOpen(p) \/ Open(p) PROVE FALSE
  BY <1>6, NoFault DEF HalfOpen, Open, SetState
<1>7. ASSUME NEW p \in Procs, ZeroFailures(p) PROVE FALSE
  <2>1. fails' = 0  BY <1>7, NoFault DEF ZeroFailures
  <2>2. QED  BY <2>1
<1>8. ASSUME NEW p \in Procs, Restart(p) PROVE FALSE
  BY <1>0, <1>8 DEF Restart
<1>9. ASSUME NEW p \in Procs,
             Begin(p) \/ CheckOpenAt(p) \/ FnReturns(p) \/ OnSuccess(p) \/ Stamp(p) \/ Reset(p)
      PROVE  \E q \in Procs : pc'[q] \in Clearing
  <2>1. UNCHANGED <<level, state, fails>> /\ pc[p] \notin Clearing /\ \E l : Goto(p, l)
    BY <1>9 DEF Begin, CheckOpenAt, FnReturns, OnSuccess, Stamp, Reset, redis, Clearing
  <2>2. faults = 0
    BY <1>9, NoFault DEF Begin, CheckOpenAt, FnReturns, OnSuccess, Stamp, Reset
  <2>3. \A q \in Procs : pc[q] \in Clearing => pc'[q] \in Clearing  BY <1>0, <2>1 DEF Goto
  <2>4. QED  BY <2>1, <2>2, <2>3 DEF CleanInv
<1>10. QED  BY <1>1, <1>2, <1>3, <1>4, <1>5, <1>6, <1>7, <1>8, <1>9 DEF Next, Step

\* open_at outlives the state it belongs to, whatever processes trip the breaker at once:
\* a stamp is written after the state, and both live as long.
THEOREM OpenIsStamped == Spec => []OpenHasStamp
<1>1. Init => OpenHasStamp  BY DEF Init, OpenHasStamp
<1>2. TypeOK /\ OpenHasStamp /\ [Next]_vars => OpenHasStamp'  BY OpenKept
<1>3. QED  BY <1>1, <1>2, TypeCorrect, PTL DEF Spec

\* A recovered breaker counts from nothing, whatever failures were under way: who brings
\* the count to the threshold opens it, and who closes it clears the count.
THEOREM ClosedStaysClean == Spec => []ClosedIsClean
<1>1. Init => CleanInv  BY DEF Init, CleanInv
<1>2. TypeOK /\ CleanInv /\ [Next]_vars => CleanInv'  BY CleanKept
<1>3. TypeOK /\ CleanInv => ClosedIsClean  BY DEF TypeOK, CleanInv, ClosedIsClean, Clearing
<1>4. QED  BY <1>1, <1>2, <1>3, TypeCorrect, PTL DEF Spec

================================================================================
