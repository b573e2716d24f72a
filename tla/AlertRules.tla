------------------------------ MODULE AlertRules ------------------------------
(***************************************************************************)
(* The alert rules of one organisation: rows that customers create, change *)
(* and delete (routers/alert_rules.py), and evaluations of them            *)
(* (services/alert_rules.py) by POST /alert-rules/evaluate and by the      *)
(* weekly Airflow task, which nothing keeps from running together.         *)
(*                                                                         *)
(* An evaluation reads the rules, then one score per rule, and writes its  *)
(* alerts and stamps in one transaction.  PostgreSQL runs it at READ       *)
(* COMMITTED: a row it has updated stays locked until the transaction      *)
(* ends.  The session of the weekly task flushes before every query, that  *)
(* of a request only when it commits.                                      *)
(***************************************************************************)
EXTENDS Integers, FiniteSets

CONSTANTS NRules,       \* the rules, numbered in the order of their keys
          Evaluators,   \* processes that evaluate rules
          AutoFlush,    \* those whose session flushes before it queries
          RankRules,    \* rules of type competitor_rank
          Scores,       \* values of a score; no score reads as the highest
          Limits,       \* values of a threshold
          RiskLimit,    \* COMPETITOR_RISK_THRESHOLD
          Cooldown,     \* alert_rule_cooldown_minutes, in ticks
          MaxTime       \* bound on the clock

ASSUME RulesAssumption ==
  /\ NRules \in Nat /\ RankRules \subseteq 1..NRules
  /\ AutoFlush \subseteq Evaluators
  /\ Scores \subseteq Int /\ Limits \subseteq Int /\ RiskLimit \in Int
  /\ Cooldown \in Nat /\ MaxTime \in Nat

VARIABLES
  rule,     \* table alert_rules
  alerts,   \* table alerts
  score,    \* the latest row of sps_scores for the cluster the rules watch
  pc,       \* where each evaluation is
  todo,     \* the rules it has yet to look at, as it read them
  raising,  \* the rule whose score it found too low
  fired,    \* the alerts in its session
  written,  \* the rules whose stamps its transaction has written
  now,      \* the clock
  overlap   \* history: two evaluations have run at the same time

vars == <<rule, alerts, score, pc, todo, raising, fired, written, now, overlap>>
tables == <<rule, alerts, score>>
session == <<todo, raising, fired, written>>

Rules == 1..NRules
Never == 0 - Cooldown - 1  \* last_triggered_at IS NULL: before any cooldown
NoRule == 0

Row == [status : {"absent", "active", "inactive", "deleted"},
        limit : Limits \cup {RiskLimit}, last : {Never} \cup Nat]
Alert == [rule : Rules, at : Nat, by : Evaluators]

\* A row that is not there, yet or any more.
NoRow(s) == [status |-> s, limit |-> RiskLimit, last |-> Never]

\* What an evaluation keeps of a row.
Read == [id : Rules, limit : Limits \cup {RiskLimit}, last : {Never} \cup Nat]

Exists(r) == rule[r].status \in {"active", "inactive"}
Running(e) == pc[e] # "idle"

\* Rules an evaluation has stamped and not yet written.
Dirty(e) == {a.rule : a \in fired[e]} \ written[e]

\* A row is locked by the transaction that updated it.
Holds(e, r) == r \in written[e] /\ Exists(r)
Free(r) == \A e \in Evaluators : ~Holds(e, r)

-------------------------------------------------------------------------------
(* The rules and the scores *)

Init ==
  /\ rule = [r \in Rules |-> NoRow("absent")]
  /\ alerts = {}
  /\ score \in Scores
  /\ pc = [e \in Evaluators |-> "idle"]
  /\ todo = [e \in Evaluators |-> {}]
  /\ raising = [e \in Evaluators |-> NoRule]
  /\ fired = [e \in Evaluators |-> {}]
  /\ written = [e \in Evaluators |-> {}]
  /\ now = 0 /\ overlap = FALSE

\* POST /alert-rules
Create(r) ==
  /\ rule[r].status = "absent"
  /\ \E l \in Limits : rule' = [rule EXCEPT ![r].status = "active", ![r].limit = l]
  /\ UNCHANGED <<alerts, score, pc, session, now, overlap>>

\* PUT /alert-rules/{id}: the columns that are given, never last_triggered_at.
Update(r) ==
  /\ Exists(r) /\ Free(r)
  /\ \E s \in {"active", "inactive"}, l \in Limits :
       rule' = [rule EXCEPT ![r].status = s, ![r].limit = l]
  /\ UNCHANGED <<alerts, score, pc, session, now, overlap>>

\* DELETE /alert-rules/{id}
Delete(r) ==
  /\ Exists(r) /\ Free(r)
  /\ rule' = [rule EXCEPT ![r] = NoRow("deleted")]
  /\ UNCHANGED <<alerts, score, pc, session, now, overlap>>

\* A newer score is written.
NewScore ==
  /\ \E s \in Scores : score' = s
  /\ UNCHANGED <<rule, alerts, pc, session, now, overlap>>

Tick ==
  /\ now < MaxTime
  /\ now' = now + 1
  /\ UNCHANGED <<tables, pc, session, overlap>>

-------------------------------------------------------------------------------
(* One evaluation *)

\* evaluate_all reads the active rules, evaluate_brand those of one brand.
Start(e) ==
  /\ pc[e] = "idle"
  /\ \E S \in SUBSET {r \in Rules : rule[r].status = "active"} :
       todo' = [todo EXCEPT ![e] =
                  {[id |-> r, limit |-> rule[r].limit, last |-> rule[r].last] : r \in S}]
  /\ pc' = [pc EXCEPT ![e] = "rules"]
  /\ overlap' = (overlap \/ \E f \in Evaluators : Running(f))
  /\ UNCHANGED <<tables, raising, fired, written, now>>

\* Faulty: a cooldown that is over one tick early.
OverEarly(x) == now - x.last < Cooldown - 1

\* _is_on_cooldown
OnCooldown(x) == now - x.last < Cooldown

\* The score is below the threshold, the rule's own or the fixed one.
Breached(x) == score < IF x.id \in RankRules THEN RiskLimit ELSE x.limit

\* The next rule is on cooldown or its latest score is read; a session that flushes
\* before it queries has nothing left to write by then.
Look(e, x) ==
  /\ pc[e] = "rules" /\ x \in todo[e] /\ raising[e] = NoRule
  /\ todo' = [todo EXCEPT ![e] = @ \ {x}]
  /\ \/ OnCooldown(x) /\ UNCHANGED raising
     \/ /\ ~OnCooldown(x)
        /\ e \in AutoFlush => Dirty(e) = {}
        /\ raising' = [raising EXCEPT ![e] = IF Breached(x) THEN x.id ELSE NoRule]
  /\ UNCHANGED <<tables, pc, fired, written, now, overlap>>

\* Faulty: the alert is created whether or not the score is too low.
RaiseAlways(e) ==
  /\ pc[e] = "rules"
  /\ fired' = [fired EXCEPT ![e] = @ \cup {[rule |-> raising[e], at |-> now, by |-> e]}]
  /\ raising' = [raising EXCEPT ![e] = NoRule]
  /\ UNCHANGED <<tables, pc, todo, written, now, overlap>>

\* _create_alert and _mark_triggered, in the session only.
Raise(e) ==
  /\ raising[e] # NoRule
  /\ fired' = [fired EXCEPT ![e] = @ \cup {[rule |-> raising[e], at |-> now, by |-> e]}]
  /\ raising' = [raising EXCEPT ![e] = NoRule]
  /\ UNCHANGED <<tables, pc, todo, written, now, overlap>>

\* The transaction of e and its session are gone, and its locks with them.
End(e) ==
  /\ pc' = [pc EXCEPT ![e] = "idle"]
  /\ todo' = [todo EXCEPT ![e] = {}]
  /\ raising' = [raising EXCEPT ![e] = NoRule]
  /\ fired' = [fired EXCEPT ![e] = {}]
  /\ written' = [written EXCEPT ![e] = {}]

\* All rules are done: commit if something fired.
Finish(e) ==
  /\ pc[e] = "rules" /\ todo[e] = {} /\ raising[e] = NoRule
  /\ IF fired[e] = {}
     THEN End(e)
     ELSE pc' = [pc EXCEPT ![e] = "commit"] /\ UNCHANGED session
  /\ UNCHANGED <<tables, now, overlap>>

\* A commit writes rows in the order of their keys; the other session wrote each
\* row before the query that followed.
MayFlush(e, r) ==
  /\ r \in Dirty(e)
  /\ \/ e \in AutoFlush /\ raising[e] = NoRule
     \/ pc[e] = "commit" /\ \A q \in Dirty(e) : r <= q

\* Faulty: an UPDATE that meets no row is never noticed.
NeverStale(e, r) ==
  /\ MayFlush(e, r) /\ Free(r)
  /\ written' = [written EXCEPT ![e] = @ \cup {r}]
  /\ UNCHANGED <<tables, pc, todo, raising, fired, now, overlap>>

\* Faulty: StaleDataError is answered by trying again.
KeepsTrying(e, r) ==
  /\ MayFlush(e, r) /\ Free(r) /\ Exists(r)
  /\ written' = [written EXCEPT ![e] = @ \cup {r}]
  /\ UNCHANGED <<tables, pc, todo, raising, fired, now, overlap>>

\* The UPDATE of one stamp; it waits for the lock of the row.  If there is no row any
\* more, StaleDataError rolls the whole evaluation back; but the rows of one flush go
\* out together, and the driver counts rows only when there is one of them.
Flush(e, r) ==
  /\ MayFlush(e, r) /\ Free(r)
  /\ IF Exists(r) \/ (e \notin AutoFlush /\ Cardinality(fired[e]) > 1)
     THEN written' = [written EXCEPT ![e] = @ \cup {r}] /\ UNCHANGED <<pc, todo, raising, fired>>
     ELSE End(e)
  /\ UNCHANGED <<tables, now, overlap>>

StampOf(e, r) == (CHOOSE a \in fired[e] : a.rule = r).at

\* Faulty: the stamps are not in the transaction of the alerts.
CommitAlerts(e) ==
  /\ pc[e] = "commit" /\ Dirty(e) = {}
  /\ alerts' = alerts \cup fired[e]
  /\ End(e)
  /\ UNCHANGED <<rule, score, now, overlap>>

\* COMMIT: alerts and stamps become visible together.
Commit(e) ==
  /\ pc[e] = "commit" /\ Dirty(e) = {}
  /\ alerts' = alerts \cup fired[e]
  /\ rule' = [r \in Rules |->
       IF Holds(e, r) THEN [rule[r] EXCEPT !.last = StampOf(e, r)] ELSE rule[r]]
  /\ End(e)
  /\ UNCHANGED <<score, now, overlap>>

\* e waits for a row that f holds.
WaitsFor(e, f) == \E r \in Rules : MayFlush(e, r) /\ Holds(f, r)

\* PostgreSQL finds a cycle of waits and aborts one of its transactions.
Deadlock(e) ==
  /\ \E f \in Evaluators \ {e} : WaitsFor(e, f) /\ WaitsFor(f, e)
  /\ End(e)
  /\ UNCHANGED <<tables, now, overlap>>

\* The process or its connection is lost: nothing is committed.
Abort(e) ==
  /\ Running(e)
  /\ End(e)
  /\ UNCHANGED <<tables, now, overlap>>

Step(e) ==
  \/ \E x \in todo[e] : Look(e, x)
  \/ Raise(e) \/ Finish(e) \/ Commit(e)
  \/ \E r \in Rules : Flush(e, r)

Customer == \E r \in Rules : Create(r) \/ Update(r) \/ Delete(r)

Next ==
  \/ Customer \/ NewScore \/ Tick
  \/ \E e \in Evaluators : Start(e) \/ Step(e) \/ Deadlock(e) \/ Abort(e)

Spec == Init /\ [][Next]_vars

\* A running evaluation takes its steps, and the database breaks deadlocks.  Row locks
\* are granted in the order they are asked for: a waiter is not passed over for ever.
Fairness == \A e \in Evaluators : SF_vars(Step(e)) /\ WF_vars(Deadlock(e))

FairSpec == Spec /\ Fairness

-------------------------------------------------------------------------------
(* Properties *)

\* The types of the variables.
TypeOK ==
  /\ rule \in [Rules -> Row] /\ alerts \subseteq Alert /\ score \in Scores
  /\ pc \in [Evaluators -> {"idle", "rules", "commit"}]
  /\ todo \in [Evaluators -> SUBSET Read]
  /\ raising \in [Evaluators -> Rules \cup {NoRule}]
  /\ fired \in [Evaluators -> SUBSET Alert]
  /\ written \in [Evaluators -> SUBSET Rules]
  /\ now \in Nat /\ overlap \in BOOLEAN

Apart(a, b) == a.at - b.at >= Cooldown \/ b.at - a.at >= Cooldown

\* As long as evaluations follow one another, the same rule never fires twice within
\* the cooldown, whatever customers change, deactivate or reactivate meanwhile and
\* whichever evaluations are lost half way.
SerialCooldown ==
  ~overlap => \A a, b \in alerts : a # b /\ a.rule = b.rule => Apart(a, b)

\* Idle evaluations hold nothing, and no two run unless evaluations have overlapped.
SessionsInOrder ==
  /\ \A e \in Evaluators :
       /\ ~Running(e) => todo[e] = {} /\ raising[e] = NoRule /\ fired[e] = {}
       /\ pc[e] = "commit" => todo[e] = {} /\ raising[e] = NoRule
  /\ ~overlap => \A e, f \in Evaluators : Running(e) /\ Running(f) => e = f

\* A rule is in one place of a session: yet to look at, being raised, or fired once;
\* and only stamps of fired rules are written.
OnePlace == \A e \in Evaluators :
  /\ \A x, y \in todo[e] : x.id = y.id => x = y
  /\ \A x \in todo[e] : x.id # raising[e]
  /\ \A x \in todo[e], b \in fired[e] : x.id # b.rule
  /\ \A b, c \in fired[e] : b.rule = c.rule => b = c
  /\ \A b \in fired[e] : b.rule # raising[e]
  /\ \A r \in written[e] : \E b \in fired[e] : b.rule = r

\* Nothing is known of a rule before it is created.
NotBeforeCreated ==
  /\ \A a \in alerts : rule[a.rule].status # "absent"
  /\ \A e \in Evaluators :
       /\ \A x \in todo[e] : rule[x.id].status # "absent"
       /\ raising[e] # NoRule => rule[raising[e]].status # "absent"
       /\ \A b \in fired[e] : rule[b.rule].status # "absent"

\* Without overlap the stamp of a row, and the stamp an evaluation has read, are not
\* older than the rule's alerts, and what is about to fire is off cooldown.
StampsAreLatest == ~overlap =>
  /\ \A a \in alerts : Exists(a.rule) => a.at <= rule[a.rule].last
  /\ \A e \in Evaluators, a \in alerts :
       /\ \A x \in todo[e] : x.id = a.rule => a.at <= x.last
       /\ raising[e] = a.rule => now - a.at >= Cooldown
       /\ \A b \in fired[e] : b.rule = a.rule => b.at - a.at >= Cooldown

\* The inductive invariant behind SerialCooldown.
SerialInv ==
  /\ TypeOK /\ SessionsInOrder /\ OnePlace /\ NotBeforeCreated
  /\ StampsAreLatest /\ SerialCooldown

\* The stamp of a rule is the time of one of its alerts, and a rule without a stamp
\* has no alert: neither is written without the other, in whatever order concurrent
\* evaluations, updates and failures come.
StampIsAlert == \A r \in Rules : Exists(r) =>
  LET mine == {a \in alerts : a.rule = r}
  IN  IF rule[r].last = Never THEN mine = {} ELSE \E a \in mine : a.at = rule[r].last

\* No alert is written for a rule that is deleted while the evaluation runs and holds
\* no lock on it, but for a request that fires several rules at once.
NoAlertAfterDelete ==
  [][\A a \in alerts' \ alerts :
       Exists(a.rule) \/ (a.by \notin AutoFlush /\ Cardinality(fired[a.by]) > 1)]_vars

\* Every evaluation ends: sessions that lock the same rows in different orders do not
\* wait for one another for ever.
EvaluationEnds == \A e \in Evaluators : Running(e) ~> ~Running(e)

===============================================================================
