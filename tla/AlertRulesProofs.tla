--------------------------- MODULE AlertRulesProofs ---------------------------
(***************************************************************************)
(* For any number of rules and evaluators: as long as evaluations follow   *)
(* one another, a rule does not fire twice within its cooldown; and stamps *)
(* and alerts belong together, also when evaluations overlap.              *)
(***************************************************************************)
EXTENDS AlertRules, TLAPS

USE RulesAssumption DEF RulesAssumption

\* The invariant holds initially.
LEMMA InitSerial == Init => SerialInv
<1> SUFFICES ASSUME Init PROVE SerialInv
  OBVIOUS
<1> USE DEF Init, NoRow, Never, NoRule, Rules
<1>1. TypeOK
  BY DEF TypeOK, Row, Alert, Read
<1>2. SessionsInOrder
  BY DEF SessionsInOrder, Running
<1>3. OnePlace
  BY DEF OnePlace
<1>4. NotBeforeCreated
  BY DEF NotBeforeCreated
<1>5. StampsAreLatest
  BY DEF StampsAreLatest
<1>6. SerialCooldown
  BY DEF SerialCooldown
<1> QED BY <1>1, <1>2, <1>3, <1>4, <1>5, <1>6 DEF SerialInv

\* Customers change rows that no evaluation holds, and never a stamp.
LEMMA CustomerSerial ==
  ASSUME SerialInv, NEW r \in Rules, Create(r) \/ Update(r) \/ Delete(r)
  PROVE  SerialInv'
<1> USE DEF SerialInv
<1>1. /\ rule' \in [Rules -> Row]
      /\ \A q \in Rules \ {r} : rule'[q] = rule[q]
      /\ rule'[r].status # "absent"
      /\ rule'[r].status # "deleted" => rule'[r].last = rule[r].last
      /\ rule'[r].status # "deleted" => rule[r].status = "absent" \/ Exists(r)
      /\ UNCHANGED <<alerts, score, pc, session, now, overlap>>
  <2>1. rule \in [Rules -> Row] /\ rule[r] \in Row
    BY DEF TypeOK
  <2>2. CASE Create(r) \/ Update(r)
    <3>1. PICK t \in {"active", "inactive"}, l \in Limits :
            rule' = [rule EXCEPT ![r].status = t, ![r].limit = l]
      BY <2>2 DEF Create, Update
    <3>2. /\ rule'[r] = [rule[r] EXCEPT !.status = t, !.limit = l]
          /\ \A q \in Rules \ {r} : rule'[q] = rule[q]
          /\ rule' \in [Rules -> Row]
      BY <2>1, <3>1 DEF Row
    <3>3. rule[r].status = "absent" \/ Exists(r)
      BY <2>2 DEF Create, Update
    <3>4. UNCHANGED <<alerts, score, pc, session, now, overlap>>
      BY <2>2 DEF Create, Update
    <3> QED BY <2>1, <3>2, <3>3, <3>4 DEF Row
  <2>3. CASE Delete(r)
    <3>1. NoRow("deleted") \in Row /\ NoRow("deleted").status = "deleted"
      BY DEF NoRow, Row, Never
    <3> QED BY <2>1, <2>3, <3>1 DEF Delete
  <2> QED BY <2>2, <2>3
<1> USE DEF session
<1>2. TypeOK'
  BY <1>1 DEF TypeOK
<1>3. SessionsInOrder' /\ OnePlace' /\ SerialCooldown'
  BY <1>1 DEF SessionsInOrder, OnePlace, SerialCooldown, Running, Apart
<1>4. NotBeforeCreated'
  <2>1. \A q \in Rules : rule[q].status # "absent" => rule'[q].status # "absent"
    BY <1>1
  <2>2. \A a \in alerts : a.rule \in Rules
    BY DEF TypeOK, Alert
  <2>3. \A e \in Evaluators :
          /\ \A x \in todo[e] : x.id \in Rules
          /\ \A b \in fired[e] : b.rule \in Rules
          /\ raising[e] # NoRule => raising[e] \in Rules
    BY DEF TypeOK, Alert, Read
  <2>4. \A a \in alerts : rule'[a.rule].status # "absent"
    BY <2>1, <2>2 DEF NotBeforeCreated
  <2>5. \A e \in Evaluators :
          /\ \A x \in todo[e] : rule'[x.id].status # "absent"
          /\ raising[e] # NoRule => rule'[raising[e]].status # "absent"
          /\ \A b \in fired[e] : rule'[b.rule].status # "absent"
    <3> TAKE e \in Evaluators
    <3>1. /\ \A x \in todo[e] : rule[x.id].status # "absent"
          /\ raising[e] # NoRule => rule[raising[e]].status # "absent"
          /\ \A b \in fired[e] : rule[b.rule].status # "absent"
      BY DEF NotBeforeCreated
    <3> HIDE DEF SerialInv
    <3> QED BY <2>1, <2>3, <3>1
  <2>6. alerts' = alerts /\ todo' = todo /\ raising' = raising /\ fired' = fired
    BY <1>1
  <2> HIDE DEF SerialInv
  <2> QED BY <2>4, <2>5, <2>6 DEF NotBeforeCreated
<1>5. StampsAreLatest'
  <2> SUFFICES ASSUME ~overlap
               PROVE  \A a \in alerts : Exists(a.rule)' => a.at <= rule'[a.rule].last
    BY <1>1 DEF StampsAreLatest, TypeOK, Read, Alert, NoRule, Rules
  <2> QED BY <1>1 DEF StampsAreLatest, NotBeforeCreated, Exists, TypeOK, Alert, Row
<1> QED BY <1>2, <1>3, <1>4, <1>5

\* The clock and the scores touch no rule.
LEMMA OutsideSerial ==
  ASSUME SerialInv, NewScore \/ Tick \/ UNCHANGED vars
  PROVE  SerialInv'
<1> USE DEF SerialInv
<1>1. /\ UNCHANGED <<rule, alerts, pc, session, overlap>>
      /\ now' \in Nat /\ now' >= now /\ score' \in Scores
  BY DEF NewScore, Tick, vars, tables, session, TypeOK
<1> USE DEF session
<1>2. TypeOK'
  BY <1>1 DEF TypeOK
<1>3. /\ SessionsInOrder' /\ OnePlace' /\ SerialCooldown' /\ NotBeforeCreated'
  BY <1>1 DEF SessionsInOrder, OnePlace, SerialCooldown, NotBeforeCreated, Running, Apart
<1>4. StampsAreLatest'
  <2> SUFFICES ASSUME ~overlap, NEW e \in Evaluators, NEW a \in alerts, raising[e] = a.rule
               PROVE  now' - a.at >= Cooldown
    BY <1>1 DEF StampsAreLatest, Exists
  <2>1. now - a.at >= Cooldown
    BY DEF StampsAreLatest
  <2> QED BY <1>1, <2>1 DEF TypeOK, Alert
<1> QED BY <1>2, <1>3, <1>4

\* An evaluation starts from the rules as they are.
LEMMA StartSerial ==
  ASSUME SerialInv, NEW e \in Evaluators, Start(e)
  PROVE  SerialInv'
<1> USE DEF SerialInv
<1>1. PICK S \in SUBSET {r \in Rules : rule[r].status = "active"} :
        todo' = [todo EXCEPT ![e] =
          {[id |-> r, limit |-> rule[r].limit, last |-> rule[r].last] : r \in S}]
  BY DEF Start
<1>2. /\ pc[e] = "idle" /\ pc' = [pc EXCEPT ![e] = "rules"]
      /\ overlap' = (overlap \/ \E f \in Evaluators : Running(f))
      /\ UNCHANGED <<rule, alerts, score, raising, fired, written, now>>
  BY DEF Start, tables
<1>3. /\ \A x \in todo'[e] :
           x \in Read /\ rule[x.id].status = "active" /\ x.last = rule[x.id].last
      /\ \A x, y \in todo'[e] : x.id = y.id => x = y
      /\ \A f \in Evaluators \ {e} : todo'[f] = todo[f]
      /\ todo' \in [Evaluators -> SUBSET Read]
  BY <1>1 DEF TypeOK, Row, Read
<1>4. raising[e] = NoRule /\ fired[e] = {}
  BY <1>2 DEF SessionsInOrder, Running
<1>5. TypeOK'
  BY <1>2, <1>3 DEF TypeOK, Running
<1>6. SessionsInOrder'
  BY <1>2, <1>3, <1>4 DEF SessionsInOrder, Running, TypeOK
<1>7. OnePlace'
  BY <1>2, <1>3, <1>4 DEF OnePlace, Read, Rules, NoRule
<1>8. NotBeforeCreated'
  BY <1>2, <1>3 DEF NotBeforeCreated
<1>9. StampsAreLatest'
  BY <1>2, <1>3, <1>4 DEF StampsAreLatest, Exists, TypeOK, Alert, Rules, NoRule
<1>10. SerialCooldown'
  BY <1>2 DEF SerialCooldown, Apart
<1> QED BY <1>5, <1>6, <1>7, <1>8, <1>9, <1>10

\* A rule is skipped, or chosen because its stamp is old enough.
LEMMA LookSerial ==
  ASSUME SerialInv, NEW e \in Evaluators, NEW x \in todo[e], Look(e, x)
  PROVE  SerialInv'
<1> USE DEF SerialInv
<1>1. /\ pc[e] = "rules" /\ raising[e] = NoRule
      /\ todo' = [todo EXCEPT ![e] = @ \ {x}]
      /\ \/ raising' = [raising EXCEPT ![e] = NoRule]
         \/ raising' = [raising EXCEPT ![e] = x.id] /\ ~OnCooldown(x)
      /\ UNCHANGED <<rule, alerts, score, pc, fired, written, now, overlap>>
  BY DEF Look, tables, TypeOK
<1>2. /\ \A y \in todo'[e] : y \in todo[e] /\ y # x
      /\ raising'[e] = NoRule \/ (raising'[e] = x.id /\ now - x.last >= Cooldown)
      /\ \A f \in Evaluators \ {e} : todo'[f] = todo[f] /\ raising'[f] = raising[f]
  BY <1>1 DEF TypeOK, OnCooldown, Read, Never
<1>3. TypeOK'
  BY <1>1, <1>2 DEF TypeOK, Read
<1>4. SessionsInOrder'
  BY <1>1, <1>2 DEF SessionsInOrder, Running
<1>5. OnePlace'
  BY <1>1, <1>2 DEF OnePlace, TypeOK, Read, Alert, Rules, NoRule
<1>6. NotBeforeCreated'
  BY <1>1, <1>2 DEF NotBeforeCreated
<1>7. StampsAreLatest'
  <2> SUFFICES ASSUME ~overlap
               PROVE  \A f \in Evaluators, a \in alerts :
                        /\ \A y \in todo'[f] : y.id = a.rule => a.at <= y.last
                        /\ raising'[f] = a.rule => now - a.at >= Cooldown
    BY <1>1 DEF StampsAreLatest, Exists
  <2> TAKE f \in Evaluators, a \in alerts
  <2>1. a.rule # NoRule /\ a.at \in Nat
    BY DEF TypeOK, Alert, Rules, NoRule
  <2>2. CASE f = e
    <3>1. x.id = a.rule => a.at <= x.last /\ x.last \in Int /\ now \in Int
      BY DEF StampsAreLatest, TypeOK, Read, Never
    <3> QED BY <1>2, <2>1, <2>2, <3>1 DEF StampsAreLatest
  <2>3. CASE f # e
    BY <1>2, <2>3 DEF StampsAreLatest
  <2> QED BY <2>2, <2>3
<1>8. SerialCooldown'
  BY <1>1 DEF SerialCooldown, Apart
<1> QED BY <1>3, <1>4, <1>5, <1>6, <1>7, <1>8

\* The alert of a rule that is off cooldown goes to the session.
LEMMA RaiseSerial ==
  ASSUME SerialInv, NEW e \in Evaluators, Raise(e)
  PROVE  SerialInv'
<1> USE DEF SerialInv
<1> DEFINE new == [rule |-> raising[e], at |-> now, by |-> e]
<1>1. /\ raising[e] # NoRule
      /\ fired' = [fired EXCEPT ![e] = @ \cup {new}]
      /\ raising' = [raising EXCEPT ![e] = NoRule]
      /\ UNCHANGED <<rule, alerts, score, pc, todo, written, now, overlap>>
  BY DEF Raise, tables
<1>2. new \in Alert /\ raising[e] \in Rules
  BY <1>1 DEF TypeOK, Alert
<1>3. /\ \A b \in fired'[e] : b \in fired[e] \/ b = new
      /\ raising'[e] = NoRule
      /\ \A f \in Evaluators \ {e} : fired'[f] = fired[f] /\ raising'[f] = raising[f]
  BY <1>1 DEF TypeOK
<1>4. TypeOK'
  BY <1>1, <1>2 DEF TypeOK
<1>5. pc[e] = "rules"
  BY <1>1 DEF SessionsInOrder, Running, TypeOK
<1>6. SessionsInOrder'
  BY <1>1, <1>3, <1>5 DEF SessionsInOrder, Running
<1>7. OnePlace'
  <2>1. \A x \in todo[e] : x.id \in Rules
    BY DEF TypeOK, Read
  <2>2. \A b \in fired'[e] : b.rule \in Rules
    BY <1>2, <1>3 DEF TypeOK, Alert
  <2> HIDE DEF new
  <2>3. new.rule = raising[e]
    BY DEF new
  <2> QED BY <1>1, <1>3, <2>1, <2>2, <2>3 DEF OnePlace, Rules, NoRule
<1>8. NotBeforeCreated'
  BY <1>1, <1>2, <1>3 DEF NotBeforeCreated
<1>9. StampsAreLatest'
  <2> SUFFICES ASSUME ~overlap
               PROVE  \A f \in Evaluators, a \in alerts :
                        /\ raising'[f] = a.rule => now - a.at >= Cooldown
                        /\ \A b \in fired'[f] : b.rule = a.rule => b.at - a.at >= Cooldown
    BY <1>1 DEF StampsAreLatest, Exists
  <2> TAKE f \in Evaluators, a \in alerts
  <2>1. a.rule # NoRule
    BY DEF TypeOK, Alert, Rules, NoRule
  <2>2. new.rule = a.rule => new.at - a.at >= Cooldown
    BY DEF StampsAreLatest
  <2> HIDE DEF new
  <2> QED BY <1>3, <2>1, <2>2 DEF StampsAreLatest
<1>10. SerialCooldown'
  BY <1>1 DEF SerialCooldown, Apart
<1> QED BY <1>4, <1>6, <1>7, <1>8, <1>9, <1>10

\* A session that ends, without a commit, takes what it knew with it.
LEMMA EndSerial ==
  ASSUME SerialInv, NEW e \in Evaluators, End(e), UNCHANGED <<tables, now, overlap>>
  PROVE  SerialInv'
<1> USE DEF SerialInv
<1>1. /\ pc' = [pc EXCEPT ![e] = "idle"] /\ written' = [written EXCEPT ![e] = {}]
      /\ todo' = [todo EXCEPT ![e] = {}] /\ raising' = [raising EXCEPT ![e] = NoRule]
      /\ fired' = [fired EXCEPT ![e] = {}]
      /\ UNCHANGED <<rule, alerts, score, now, overlap>>
  BY DEF End, tables
<1>2. /\ todo'[e] = {} /\ fired'[e] = {} /\ written'[e] = {}
      /\ raising'[e] = NoRule /\ pc'[e] = "idle"
      /\ \A f \in Evaluators \ {e} :
           /\ todo'[f] = todo[f] /\ fired'[f] = fired[f] /\ written'[f] = written[f]
           /\ raising'[f] = raising[f] /\ pc'[f] = pc[f]
  BY <1>1 DEF TypeOK
<1>3. TypeOK'
  BY <1>1 DEF TypeOK
<1>4. SessionsInOrder' /\ OnePlace'
  BY <1>1, <1>2 DEF SessionsInOrder, OnePlace, Running
<1>5. NotBeforeCreated'
  BY <1>1, <1>2 DEF NotBeforeCreated
<1>6. StampsAreLatest'
  BY <1>1, <1>2 DEF StampsAreLatest, Exists, TypeOK, Alert, Rules, NoRule
<1>7. SerialCooldown'
  BY <1>1 DEF SerialCooldown, Apart
<1> QED BY <1>3, <1>4, <1>5, <1>6, <1>7

\* The steps of an evaluation that write no table.
LEMMA SessionSerial ==
  ASSUME SerialInv, NEW e \in Evaluators,
         Finish(e) \/ Deadlock(e) \/ Abort(e) \/ \E r \in Rules : Flush(e, r)
  PROVE  SerialInv'
<1>1. CASE End(e)
  <2>1. UNCHANGED <<tables, now, overlap>>
    BY <1>1 DEF Finish, Deadlock, Abort, Flush
  <2> QED BY <1>1, <2>1, EndSerial
<1>2. CASE ~End(e)
  <2>1. /\ UNCHANGED <<rule, alerts, score, todo, raising, fired, now, overlap>>
        /\ \/ UNCHANGED written
           \/ \E r \in Rules : /\ \E b \in fired[e] : b.rule = r
                              /\ written' = [written EXCEPT ![e] = @ \cup {r}]
        /\ \/ UNCHANGED pc
           \/ /\ pc[e] = "rules" /\ todo[e] = {} /\ raising[e] = NoRule
              /\ pc' = [pc EXCEPT ![e] = "commit"]
    BY <1>2 DEF Finish, Deadlock, Abort, Flush, MayFlush, Dirty, session, tables
  <2> USE DEF SerialInv
  <2>2. TypeOK'
    BY <2>1 DEF TypeOK
  <2>3. SessionsInOrder'
    BY <2>1 DEF SessionsInOrder, Running, TypeOK
  <2>4. OnePlace'
    BY <2>1 DEF OnePlace, TypeOK
  <2>5. NotBeforeCreated' /\ StampsAreLatest' /\ SerialCooldown'
    BY <2>1 DEF NotBeforeCreated, StampsAreLatest, Exists, SerialCooldown, Apart
  <2> QED BY <2>2, <2>3, <2>4, <2>5
<1> QED BY <1>1, <1>2

\* A commit writes each stamp with its alert.
LEMMA CommitSerial ==
  ASSUME SerialInv, NEW e \in Evaluators, Commit(e)
  PROVE  SerialInv'
<1> USE DEF SerialInv
<1>1. /\ pc[e] = "commit" /\ Dirty(e) = {}
      /\ alerts' = alerts \cup fired[e]
      /\ pc' = [pc EXCEPT ![e] = "idle"] /\ written' = [written EXCEPT ![e] = {}]
      /\ todo' = [todo EXCEPT ![e] = {}] /\ raising' = [raising EXCEPT ![e] = NoRule]
      /\ fired' = [fired EXCEPT ![e] = {}]
      /\ UNCHANGED <<score, now, overlap>>
  BY DEF Commit, End
<1>2. /\ todo'[e] = {} /\ fired'[e] = {} /\ written'[e] = {}
      /\ raising'[e] = NoRule /\ pc'[e] = "idle"
      /\ \A f \in Evaluators \ {e} :
           /\ todo'[f] = todo[f] /\ fired'[f] = fired[f] /\ written'[f] = written[f]
           /\ raising'[f] = raising[f] /\ pc'[f] = pc[f]
  BY <1>1 DEF TypeOK
<1>3. fired[e] \subseteq Alert
  BY DEF TypeOK
<1>4. \A b \in fired[e] : StampOf(e, b.rule) = b.at
  BY DEF StampOf, OnePlace
<1>5. \A b \in fired[e] : b.rule \in written[e]
  BY <1>1 DEF Dirty
<1>6. /\ rule' \in [Rules -> Row]
      /\ \A r \in Rules : rule'[r].status = rule[r].status
      /\ \A r \in Rules : \/ rule'[r] = rule[r]
                          \/ \E b \in fired[e] : b.rule = r /\ rule'[r].last = b.at
      /\ \A b \in fired[e] : Exists(b.rule) => rule'[b.rule].last = b.at
  <2>1. rule' = [r \in Rules |->
           IF Holds(e, r) THEN [rule[r] EXCEPT !.last = StampOf(e, r)] ELSE rule[r]]
    BY DEF Commit
  <2>2. \A r \in Rules : rule[r] \in Row
    BY DEF TypeOK
  <2>3. \A r \in Rules : Holds(e, r) =>
           \E b \in fired[e] : b.rule = r /\ StampOf(e, r) = b.at /\ b.at \in Nat
    BY <1>3, <1>4 DEF Holds, OnePlace, Alert
  <2>4. \A r \in Rules :
          /\ rule'[r] \in Row /\ rule'[r].status = rule[r].status
          /\ \/ rule'[r] = rule[r]
             \/ \E b \in fired[e] : b.rule = r /\ rule'[r].last = b.at
    <3> TAKE r \in Rules
    <3>1. CASE Holds(e, r)
      <4>1. rule'[r] = [rule[r] EXCEPT !.last = StampOf(e, r)]
        BY <2>1, <3>1
      <4> QED BY <4>1, <2>2, <2>3, <3>1 DEF Row
    <3>2. CASE ~Holds(e, r)
      BY <2>1, <2>2, <3>2
    <3> QED BY <3>1, <3>2
  <2>5. \A b \in fired[e] : Exists(b.rule) => rule'[b.rule].last = b.at
    <3> SUFFICES ASSUME NEW b \in fired[e], Exists(b.rule)
                 PROVE  rule'[b.rule].last = b.at
      OBVIOUS
    <3>1. b.rule \in Rules /\ Holds(e, b.rule)
      BY <1>3, <1>5 DEF Holds, Alert
    <3> QED BY <2>1, <2>2, <1>4, <3>1 DEF Row
  <2> QED BY <2>1, <2>4, <2>5
<1>7. TypeOK'
  BY <1>1, <1>3, <1>6 DEF TypeOK
<1>8. SessionsInOrder' /\ OnePlace'
  BY <1>1, <1>2 DEF SessionsInOrder, OnePlace, Running
<1>9. \A a \in alerts' : a \in Alert /\ (a \in alerts \/ a \in fired[e])
  BY <1>1, <1>3 DEF TypeOK
<1>10. NotBeforeCreated'
  <2>1. \A a \in alerts' : rule'[a.rule].status # "absent"
    BY <1>6, <1>9 DEF NotBeforeCreated, Alert
  <2>2. \A f \in Evaluators :
          /\ \A x \in todo[f] : rule'[x.id].status # "absent"
          /\ raising[f] # NoRule => rule'[raising[f]].status # "absent"
          /\ \A b \in fired[f] : rule'[b.rule].status # "absent"
    BY <1>6 DEF NotBeforeCreated, TypeOK, Read, Alert
  <2> QED BY <1>2, <2>1, <2>2 DEF NotBeforeCreated
<1>11. StampsAreLatest'
  <2> SUFFICES ASSUME ~overlap PROVE StampsAreLatest'
    BY <1>1 DEF StampsAreLatest
  <2>1. \A f \in Evaluators : /\ todo'[f] = {} /\ fired'[f] = {}
                             /\ raising'[f] = NoRule
    BY <1>1, <1>2 DEF SessionsInOrder, Running
  <2>2. \A a \in alerts' : Exists(a.rule)' => a.at <= rule'[a.rule].last
    <3> SUFFICES ASSUME NEW a \in alerts', Exists(a.rule)'
                 PROVE  a.at <= rule'[a.rule].last
      OBVIOUS
    <3>1. a \in Alert /\ Exists(a.rule)
      BY <1>6, <1>9 DEF Exists, Alert
    <3>2. CASE a \in fired[e]
      BY <1>6, <3>1, <3>2 DEF Alert
    <3>3. CASE a \in alerts
      <4>1. a.at <= rule[a.rule].last
        BY <3>1, <3>3 DEF StampsAreLatest
      <4>2. \A b \in fired[e] : b.rule = a.rule => a.at <= b.at
        BY <1>3, <3>1, <3>3 DEF StampsAreLatest, Alert
      <4> QED BY <1>6, <3>1, <4>1, <4>2 DEF Alert
    <3> QED BY <1>9, <3>2, <3>3
  <2>3. \A a \in alerts' : a.rule # NoRule
    BY <1>9 DEF Alert, Rules, NoRule
  <2> QED BY <2>1, <2>2, <2>3 DEF StampsAreLatest
<1>12. SerialCooldown'
  <2> SUFFICES ASSUME ~overlap, NEW a \in alerts', NEW b \in alerts', a # b, a.rule = b.rule
               PROVE  Apart(a, b)
    BY <1>1 DEF SerialCooldown, Apart
  <2>1. CASE a \in alerts /\ b \in alerts
    BY <2>1 DEF SerialCooldown
  <2>2. CASE a \in fired[e] /\ b \in fired[e]
    BY <2>2 DEF OnePlace
  <2>3. CASE a \in fired[e] /\ b \in alerts
    BY <2>3 DEF StampsAreLatest, Apart
  <2>4. CASE a \in alerts /\ b \in fired[e]
    BY <2>4 DEF StampsAreLatest, Apart
  <2> QED BY <1>9, <2>1, <2>2, <2>3, <2>4
<1> QED BY <1>7, <1>8, <1>10, <1>11, <1>12

\* SerialInv holds in every reachable state.
THEOREM Invariance == Spec => []SerialInv
<1>1. Init => SerialInv
  BY InitSerial
<1>2. SerialInv /\ [Next]_vars => SerialInv'
  <2> SUFFICES ASSUME SerialInv, [Next]_vars PROVE SerialInv'
    OBVIOUS
  <2>1. CASE Customer
    BY <2>1, CustomerSerial DEF Customer
  <2>2. CASE NewScore \/ Tick \/ UNCHANGED vars
    BY <2>2, OutsideSerial
  <2>3. ASSUME NEW e \in Evaluators, Start(e) PROVE SerialInv'
    BY <2>3, StartSerial
  <2>4. ASSUME NEW e \in Evaluators, Step(e) PROVE SerialInv'
    BY <2>4, LookSerial, RaiseSerial, SessionSerial, CommitSerial DEF Step
  <2>5. ASSUME NEW e \in Evaluators, Deadlock(e) \/ Abort(e) PROVE SerialInv'
    BY <2>5, SessionSerial
  <2> QED BY <2>1, <2>2, <2>3, <2>4, <2>5 DEF Next
<1> QED BY <1>1, <1>2, PTL DEF Spec

\* The variables keep their types.
THEOREM TypeCorrect == Spec => []TypeOK
BY Invariance, PTL DEF SerialInv

\* Evaluations that follow one another keep the cooldown of every rule.
THEOREM CooldownWithoutOverlap == Spec => []SerialCooldown
BY Invariance, PTL DEF SerialInv

-------------------------------------------------------------------------------
(* Stamps and alerts, also with overlap *)

AbsentIsNew == \A r \in Rules : rule[r].status = "absent" => rule[r].last = Never

\* Behind NoAlertAfterDelete: a session holds the rows it has written, unless it wrote
\* several at once.
Excused(e) == e \notin AutoFlush /\ Cardinality(fired[e]) > 1
HeldInv == \A e \in Evaluators :
  /\ \A a \in fired[e] : a.by = e
  /\ e \notin AutoFlush /\ pc[e] # "commit" => written[e] = {}
  /\ \A r \in written[e] : Exists(r) \/ Excused(e)

\* What a commit changes: the rules of its alerts that still exist, and nothing else.
LEMMA CommitShape ==
  ASSUME SerialInv, NEW e \in Evaluators, Commit(e), NEW r \in Rules
  PROVE  /\ rule'[r].status = rule[r].status
         /\ (\A a \in fired[e] : a.rule # r) => rule'[r] = rule[r]
         /\ \A a \in fired[e] : a.rule = r /\ Exists(r) => rule'[r].last = a.at
<1>1. rule[r] \in Row /\ alerts' = alerts \cup fired[e] /\ Dirty(e) = {}
      /\ rule'[r] = IF Holds(e, r) THEN [rule[r] EXCEPT !.last = StampOf(e, r)] ELSE rule[r]
  BY DEF Commit, SerialInv, TypeOK
<1>2. rule'[r].status = rule[r].status  BY <1>1 DEF Row
<1>3. ASSUME \A a \in fired[e] : a.rule # r PROVE rule'[r] = rule[r]
  BY <1>1, <1>3 DEF Holds, SerialInv, OnePlace
<1>4. ASSUME NEW a \in fired[e], a.rule = r, Exists(r) PROVE rule'[r].last = a.at
  <2>1. Holds(e, r)  BY <1>1, <1>4 DEF Dirty, Holds
  <2>2. (CHOOSE b \in fired[e] : b.rule = r) = a  BY <1>4 DEF SerialInv, OnePlace
  <2>3. QED  BY <1>1, <2>1, <2>2 DEF StampOf, Row
<1>5. QED  BY <1>2, <1>3, <1>4

LEMMA StampKept ==
  ASSUME SerialInv, AbsentIsNew, StampIsAlert, [Next]_vars
  PROVE  (AbsentIsNew /\ StampIsAlert)'
<1>0. rule \in [Rules -> Row] /\ \A r \in Rules : rule[r] \in Row
  BY DEF SerialInv, TypeOK
<1>1. CASE UNCHANGED <<rule, alerts>>
  BY <1>1 DEF AbsentIsNew, StampIsAlert, Exists
<1>2. ASSUME NEW r \in Rules, Create(r) \/ Update(r) PROVE (AbsentIsNew /\ StampIsAlert)'
  <2>1. PICK s \in {"active", "inactive"}, l \in Limits :
          rule' = [rule EXCEPT ![r].status = s, ![r].limit = l]
    BY <1>2 DEF Create, Update
  <2>2. rule'[r].last = rule[r].last /\ rule'[r].status = s
        /\ \A q \in Rules : q # r => rule'[q] = rule[q]
    BY <1>0, <2>1 DEF Row
  <2>3. alerts' = alerts  BY <1>2 DEF Create, Update
  <2>4. rule[r].status = "absent" => {a \in alerts : a.rule = r} = {}
    BY DEF SerialInv, NotBeforeCreated
  <2>5. rule[r].status = "absent" \/ Exists(r)  BY <1>2 DEF Create, Update
  <2>6. ASSUME NEW q \in Rules, Exists(q)'
        PROVE  LET mine == {a \in alerts : a.rule = q}
               IN  IF rule'[q].last = Never THEN mine = {}
                                            ELSE \E a \in mine : a.at = rule'[q].last
    <3>1. CASE q # r  BY <2>2, <2>6, <3>1 DEF StampIsAlert, Exists
    <3>2. CASE q = r  BY <2>2, <2>4, <2>5, <3>2 DEF StampIsAlert, AbsentIsNew
    <3>3. QED  BY <3>1, <3>2
  <2>7. AbsentIsNew'  BY <2>2 DEF AbsentIsNew
  <2>8. QED  BY <2>3, <2>6, <2>7 DEF StampIsAlert
<1>3. ASSUME NEW r \in Rules, Delete(r) PROVE (AbsentIsNew /\ StampIsAlert)'
  <2>1. rule'[r].status = "deleted" /\ (\A q \in Rules : q # r => rule'[q] = rule[q])
        /\ alerts' = alerts
    BY <1>0, <1>3 DEF Delete, NoRow
  <2>2. QED  BY <2>1 DEF AbsentIsNew, StampIsAlert, Exists
<1>4. ASSUME NEW e \in Evaluators, Commit(e) PROVE (AbsentIsNew /\ StampIsAlert)'
  <2>1. alerts' = alerts \cup fired[e]  BY <1>4 DEF Commit
  <2>2. \A a \in fired[e] : a.rule \in Rules /\ a.at \in Nat /\ rule[a.rule].status # "absent"
    BY DEF SerialInv, TypeOK, Alert, NotBeforeCreated
  <2>3. ASSUME NEW r \in Rules PROVE /\ rule'[r].status = "absent" => rule'[r].last = Never
                                     /\ Exists(r)' => Exists(r)
    BY <1>4, <2>2, CommitShape DEF AbsentIsNew, Exists
  <2>4. ASSUME NEW r \in Rules, Exists(r)'
        PROVE  LET mine == {a \in alerts' : a.rule = r}
               IN  IF rule'[r].last = Never THEN mine = {}
                                            ELSE \E a \in mine : a.at = rule'[r].last
    <3>1. CASE \A a \in fired[e] : a.rule # r
      <4>1. rule'[r] = rule[r]  BY <1>4, <3>1, CommitShape
      <4>2. {a \in alerts' : a.rule = r} = {a \in alerts : a.rule = r}  BY <2>1, <3>1
      <4>3. QED  BY <2>3, <2>4, <4>1, <4>2 DEF StampIsAlert
    <3>2. ASSUME NEW a \in fired[e], a.rule = r
          PROVE  rule'[r].last = a.at /\ a \in alerts' /\ rule'[r].last # Never
      BY <1>4, <2>1, <2>2, <2>3, <2>4, <3>2, CommitShape DEF Never
    <3>3. QED  BY <3>1, <3>2
  <2>5. QED  BY <2>3, <2>4 DEF AbsentIsNew, StampIsAlert
<1>5. ASSUME NEW e \in Evaluators, Start(e) \/ Deadlock(e) \/ Abort(e) PROVE UNCHANGED <<rule, alerts>>
  BY <1>5 DEF Start, Deadlock, Abort, tables
<1>6. ASSUME NEW e \in Evaluators, Raise(e) \/ Finish(e) PROVE UNCHANGED <<rule, alerts>>
  BY <1>6 DEF Raise, Finish, tables
<1>7. ASSUME NEW e \in Evaluators, NEW x \in todo[e], Look(e, x) PROVE UNCHANGED <<rule, alerts>>
  BY <1>7 DEF Look, tables
<1>8. ASSUME NEW e \in Evaluators, NEW r \in Rules, Flush(e, r) PROVE UNCHANGED <<rule, alerts>>
  BY <1>8 DEF Flush, tables
<1>9. CASE NewScore \/ Tick \/ UNCHANGED vars  BY <1>1, <1>9 DEF NewScore, Tick, vars, tables
<1>10. QED
  BY <1>1, <1>2, <1>3, <1>4, <1>5, <1>6, <1>7, <1>8, <1>9 DEF Next, Customer, Step

\* The end of a transaction leaves its session empty.
LEMMA EndHeld ==
  ASSUME SerialInv, HeldInv, NEW e \in Evaluators, End(e), \A r \in Rules : Exists(r)' = Exists(r)
  PROVE  HeldInv'
<1>1. \A f \in Evaluators : /\ fired'[f] = IF f = e THEN {} ELSE fired[f]
                            /\ written'[f] = IF f = e THEN {} ELSE written[f]
                            /\ f # e => pc'[f] = pc[f]
  BY DEF End, SerialInv, TypeOK
<1>2. \A f \in Evaluators : written[f] \subseteq Rules  BY DEF SerialInv, TypeOK
<1>3. QED  BY <1>1, <1>2 DEF HeldInv, Excused

LEMMA HeldKept ==
  ASSUME SerialInv, HeldInv, [Next]_vars
  PROVE  HeldInv'
<1>0. /\ pc \in [Evaluators -> {"idle", "rules", "commit"}]
      /\ fired \in [Evaluators -> SUBSET Alert] /\ written \in [Evaluators -> SUBSET Rules]
      /\ rule \in [Rules -> Row] /\ \A r \in Rules : rule[r] \in Row
  BY DEF SerialInv, TypeOK
<1>1. CASE NewScore \/ Tick \/ UNCHANGED vars
  BY <1>1 DEF NewScore, Tick, vars, tables, session, HeldInv, Excused, Exists
<1>2. ASSUME NEW r \in Rules, Create(r) \/ Update(r) PROVE HeldInv'
  <2>1. PICK s \in {"active", "inactive"}, l \in Limits :
          rule' = [rule EXCEPT ![r].status = s, ![r].limit = l]
    BY <1>2 DEF Create, Update
  <2>2. \A q \in Rules : Exists(q) => Exists(q)'  BY <1>0, <2>1 DEF Exists, Row
  <2>3. UNCHANGED <<pc, fired, written>>  BY <1>2 DEF Create, Update, session
  <2>4. QED  BY <1>0, <2>2, <2>3 DEF HeldInv, Excused
<1>3. ASSUME NEW r \in Rules, Delete(r) PROVE HeldInv'
  <2>1. \A e \in Evaluators : r \notin written[e]  BY <1>3 DEF Delete, Free, Holds
  <2>2. \A q \in Rules : q # r => (Exists(q) => Exists(q)')  BY <1>0, <1>3 DEF Delete, Exists
  <2>3. UNCHANGED <<pc, fired, written>>  BY <1>3 DEF Delete, session
  <2>4. QED  BY <1>0, <2>1, <2>2, <2>3 DEF HeldInv, Excused
<1>4. ASSUME NEW e \in Evaluators, Commit(e) PROVE HeldInv'
  <2>1. \A r \in Rules : Exists(r)' = Exists(r)  BY <1>4, CommitShape DEF Exists
  <2>2. QED  BY <1>4, <2>1, EndHeld DEF Commit
<1>5. ASSUME NEW e \in Evaluators, End(e), UNCHANGED tables PROVE HeldInv'
  BY <1>5, EndHeld DEF tables, Exists
<1>6. ASSUME NEW e \in Evaluators, Start(e) PROVE HeldInv'
  BY <1>0, <1>6 DEF Start, tables, HeldInv, Excused, Exists
<1>7. ASSUME NEW e \in Evaluators, NEW x \in todo[e], Look(e, x) PROVE HeldInv'
  BY <1>7 DEF Look, tables, HeldInv, Excused, Exists
<1>8. ASSUME NEW e \in Evaluators, Raise(e) PROVE HeldInv'
  <2>1. pc[e] # "commit"  BY <1>8 DEF Raise, SerialInv, SessionsInOrder
  <2>2. e \notin AutoFlush => written[e] = {}  BY <2>1 DEF HeldInv
  <2>3. fired' = [fired EXCEPT ![e] = @ \cup {[rule |-> raising[e], at |-> now, by |-> e]}]
        /\ UNCHANGED <<rule, pc, written>>
    BY <1>8 DEF Raise, tables
  <2>4. \A a \in fired'[e] : a.by = e  BY <1>0, <2>3 DEF HeldInv
  <2>5. \A f \in Evaluators : f # e => fired'[f] = fired[f]  BY <1>0, <2>3
  <2>6. QED  BY <2>2, <2>3, <2>4, <2>5 DEF HeldInv, Excused, Exists
<1>9. ASSUME NEW e \in Evaluators, Finish(e) PROVE HeldInv'
  <2>1. CASE End(e)  BY <1>5, <1>9, <2>1 DEF Finish
  <2>2. CASE ~End(e)
    <3>1. pc' = [pc EXCEPT ![e] = "commit"] /\ UNCHANGED <<rule, fired, written>>
      BY <1>9, <2>2 DEF Finish, session, tables
    <3>2. QED  BY <1>0, <3>1 DEF HeldInv, Excused, Exists
  <2>3. QED  BY <2>1, <2>2
<1>10. ASSUME NEW e \in Evaluators, NEW r \in Rules, Flush(e, r) PROVE HeldInv'
  <2>1. CASE End(e)  BY <1>5, <1>10, <2>1 DEF Flush
  <2>2. CASE ~End(e)
    <3>1. /\ Exists(r) \/ Excused(e)
          /\ written' = [written EXCEPT ![e] = @ \cup {r}] /\ UNCHANGED <<rule, pc, fired>>
          /\ e \notin AutoFlush => pc[e] = "commit"
      BY <1>10, <2>2 DEF Flush, MayFlush, Excused, tables
    <3>2. QED  BY <1>0, <3>1 DEF HeldInv, Excused, Exists
  <2>3. QED  BY <2>1, <2>2
<1>11. ASSUME NEW e \in Evaluators, Deadlock(e) \/ Abort(e) PROVE HeldInv'
  BY <1>5, <1>11 DEF Deadlock, Abort
<1>12. QED
  BY <1>1, <1>2, <1>3, <1>4, <1>6, <1>7, <1>8, <1>9, <1>10, <1>11 DEF Next, Customer, Step

\* Only a commit adds alerts, and it adds those of its session.
LEMMA AlertsAdded ==
  ASSUME SerialInv, HeldInv, [Next]_vars, NEW a \in alerts' \ alerts
  PROVE  Exists(a.rule) \/ (a.by \notin AutoFlush /\ Cardinality(fired[a.by]) > 1)
<1>1. ASSUME NEW e \in Evaluators, Commit(e)
      PROVE  Exists(a.rule) \/ (a.by \notin AutoFlush /\ Cardinality(fired[a.by]) > 1)
  <2>1. a \in fired[e] /\ Dirty(e) = {}  BY <1>1 DEF Commit
  <2>2. a.by = e /\ a.rule \in written[e]  BY <2>1 DEF HeldInv, Dirty
  <2>3. QED  BY <2>2 DEF HeldInv, Excused
<1>2. CASE Customer \/ NewScore \/ Tick \/ UNCHANGED vars
  BY <1>2 DEF Customer, Create, Update, Delete, NewScore, Tick, vars, tables
<1>3. ASSUME NEW e \in Evaluators,
             \/ Start(e) \/ Deadlock(e) \/ Abort(e) \/ Raise(e) \/ Finish(e)
             \/ (\E x \in todo[e] : Look(e, x)) \/ \E r \in Rules : Flush(e, r)
      PROVE  FALSE
  BY <1>3 DEF Start, Deadlock, Abort, Raise, Finish, Look, Flush, tables
<1>4. QED  BY <1>1, <1>2, <1>3 DEF Next, Step

\* Whatever overlaps and fails, a rule's stamp is the time of one of its alerts: a commit
\* writes the stamps of all the alerts in it whose rule still exists.
THEOREM StampsAreAlerts == Spec => []StampIsAlert
<1>1. Init => AbsentIsNew /\ StampIsAlert
  BY DEF Init, AbsentIsNew, StampIsAlert, NoRow, Exists
<1>2. SerialInv /\ AbsentIsNew /\ StampIsAlert /\ [Next]_vars => (AbsentIsNew /\ StampIsAlert)'
  BY StampKept
<1>3. QED  BY <1>1, <1>2, Invariance, PTL DEF Spec

\* No evaluation writes an alert for a rule deleted under it, but one that fires several
\* rules in a single flush: a stamp that is written locks its row.
THEOREM DeletedRulesAreSilent == Spec => NoAlertAfterDelete
<1>1. Init => HeldInv  BY DEF Init, HeldInv
<1>2. SerialInv /\ HeldInv /\ [Next]_vars => HeldInv'  BY HeldKept
<1>3. SerialInv /\ HeldInv /\ [Next]_vars =>
        [\A a \in alerts' \ alerts :
           Exists(a.rule) \/ (a.by \notin AutoFlush /\ Cardinality(fired[a.by]) > 1)]_vars
  BY AlertsAdded
<1>4. QED  BY <1>1, <1>2, <1>3, Invariance, PTL DEF Spec, NoAlertAfterDelete

===============================================================================
